--------------------------- MODULE MCConfiguration ---------------------------
(***************************************************************************)
(* Configuration and jobs: the environment files of an application and     *)
(* their syntax, the routes, hostnames and policies of the proxy, the      *)
(* migrations of the SQLite store, and the job stores that show the        *)
(* progress of changes.  A behaviour is one of one component, the others   *)
(* rest; which says of which, and in which instance.                       *)
(***************************************************************************)
EXTENDS Integers, Sequences, TLC

CONSTANTS r1, r2, r,  \* requests, jobs and processes that open the store
          alice       \* a person with an account

VARIABLES
  which,
  raw, value, note,
  files, op, page, edits, lost,
  stored, file, running, compose, up, appLock, proxyLock, proc, ops, crashes,
  db, open, newest, people,
  store, jobs, listed, leases, req, durable

syntax == <<raw, value, note>>
environment == <<files, op, page, edits, lost>>
routing == <<stored, file, running, compose, up, appLock, proxyLock, proc, ops, crashes>>
schema == <<db, open, newest, people>>
progress == <<store, jobs, listed, leases, req, durable>>
vars == <<which, syntax, environment, routing, schema, progress>>

Symmetry == Permutations({r1, r2})

(* Hand-written texts of up to four characters and values of up to two,    *)
(* over one plain character and every character that has a meaning.        *)
Syntax == INSTANCE EnvironmentSyntax WITH MaxText <- 4, MaxValue <- 2, Stray <- {}

(* Two keys and two values; files with a comment, an expression, a broken  *)
(* text, a key that is there twice, and no file at all; imports of         *)
(* nothing, of one key, of both keys and of a key twice.                   *)
Line(k, v, form) == [key |-> k, value |-> v, form |-> form]
NoFile == <<Line("", 0, "missing")>>
FirstVars ==
  { <<Line("", 1, "literal"), Line("a", 1, "expression"), Line("b", 2, "literal")>>,
    <<Line("a", 1, "literal"), Line("a", 2, "literal")>>,
    <<Line("b", 1, "broken")>>,
    NoFile }
FirstSecrets ==
  { <<>>, <<Line("b", 1, "expression"), Line("", 1, "literal")>>, NoFile }
Imports ==
  { <<>>, <<[key |-> "a", value |-> 2]>>,
    <<[key |-> "b", value |-> 2], [key |-> "a", value |-> 1]>>,
    <<[key |-> "a", value |-> 1], [key |-> "a", value |-> 2]>> }

(* Two operations of any kind, with every fault.                           *)
Environment == INSTANCE EnvironmentFiles WITH
  ops <- edits, Keys <- {"a", "b"}, Values <- {1, 2}, NoKey <- "", MaxLines <- 3, MaxOps <- 2,
  Kinds <- {"add", "delete", "update", "rename", "move", "import"},
  Faults <- {"write", "sync", "restore", "crash"}

(* Three edits in a row, with failing writes.                              *)
Moves == INSTANCE EnvironmentFiles WITH
  ops <- edits, Keys <- {"a", "b"}, Values <- {1, 2}, NoKey <- "", MaxLines <- 3, MaxOps <- 3,
  Kinds <- {"delete", "update", "rename", "move"}, Faults <- {"write", "sync"}

Owner == [i \in {"da", "ra", "ra2", "pa"} |-> "a"] @@ [i \in {"db", "rb"} |-> "b"]
         @@ [i \in {"host", "pg"} |-> ""]

(* Two requests at a time for the routes of two applications, a hostname   *)
(* and the policy of the proxy, with failing reloads and writes.           *)
Proxy == INSTANCE Routing WITH
  Procs <- {r1, r2}, Apps <- {"a", "b"}, Domains <- {"da", "db"}, Routes <- {"ra", "rb"},
  Hosts <- {"host"}, Policies <- {"pg"}, NoApp <- "", Values <- {"v", "w"},
  Brotli <- {"brotli"}, Custom <- FALSE, MaxOps <- 4, MaxCrashes <- 0,
  Faults <- {"reload", "cancel", "write"}

(* With a custom build of the proxy, where changes fail for good.          *)
Refusals == INSTANCE Routing WITH
  Procs <- {r1, r2}, Apps <- {"a", "b"}, Domains <- {"da", "db"}, Routes <- {"ra"},
  Hosts <- {"host"}, Policies <- {"pa"}, NoApp <- "", Values <- {"v", "w"},
  Brotli <- {"brotli"}, Custom <- TRUE, MaxOps <- 4, MaxCrashes <- 0,
  Faults <- {"reload", "write"}

(* One request at a time, two policies, two routes of one application.     *)
Settled == INSTANCE Routing WITH
  Procs <- {r}, Apps <- {"a", "b"}, Domains <- {"da", "db"}, Routes <- {"ra", "ra2", "rb"},
  Hosts <- {"host"}, Policies <- {"pg", "pa"}, NoApp <- "", Values <- {"v", "w"},
  Brotli <- {"brotli"}, Custom <- FALSE, MaxOps <- 5, MaxCrashes <- 0,
  Faults <- {"reload", "write"}

(* Two processes open the store, of releases before and after each         *)
(* migration that rewrites or drops something, in any order.               *)
Migrations == INSTANCE StoreMigrations WITH
  Processes <- {r1, r2}, Newest <- 28, Releases <- {2, 11, 18, 20, 28}, Accounts <- {},
  Rollback <- TRUE

(* Upgrades only, with accounts.                                           *)
Upgrades == INSTANCE StoreMigrations WITH
  Processes <- {r1, r2}, Newest <- 28, Releases <- {18, 23, 28}, Accounts <- {alice},
  Rollback <- FALSE

(* Two requests of one key and two inputs, in each of the stores but the   *)
(* ones of service deletions and, below, of updates.                       *)
Progress == INSTANCE JobProgress WITH
  Requests <- {r1, r2}, Keys <- {"k1"}, Inputs <- {"i1", "i2"},
  Stores <- {"api-run", "backup", "proxy-action", "registry-maintenance", "service-action",
             "setup", "postgres", "redis", "managed-databases", "application-container",
             "application-version", "application-delete"}

(* Two requests for an update, whose pages go on polling.                  *)
Polls == INSTANCE JobProgress WITH
  Requests <- {r1, r2}, Keys <- {"k1"}, Inputs <- {"i1"}, Stores <- {"self-update"}

Init ==
  /\ which \in {"syntax", "environment", "moves", "routes", "refusals", "settled", "migrations",
                "upgrades", "progress", "polls"}
  /\ IF which = "syntax" THEN Syntax!Init
     ELSE raw = <<>> /\ value = Syntax!parseEnvironmentValue(raw) /\ note = Syntax!Comment(raw)
  /\ Environment!Init
  /\ (which \in {"environment", "moves"} \/ files = [vars |-> NoFile, secrets |-> NoFile])
  /\ CASE which = "refusals" -> Refusals!Init
       [] which = "settled" -> Settled!Init
       [] OTHER -> Proxy!Init
  /\ (which \in {"routes", "refusals", "settled"} \/ compose = "mounted")
  /\ Migrations!Init
  /\ IF which = "polls" THEN Polls!Init
     ELSE Progress!Init /\ (which = "progress" \/ store = "setup")

Next ==
  \/ which = "syntax" /\ Syntax!Next
     /\ UNCHANGED <<which, environment, routing, schema, progress>>
  \/ /\ \/ which = "environment" /\ Environment!Next
        \/ which = "moves" /\ Moves!Next
     /\ UNCHANGED <<which, syntax, routing, schema, progress>>
  \/ /\ \/ which = "routes" /\ Proxy!Next
        \/ which = "refusals" /\ Refusals!Next
        \/ which = "settled" /\ Settled!Next
     /\ UNCHANGED <<which, syntax, environment, schema, progress>>
  \/ /\ \/ which = "migrations" /\ Migrations!Next
        \/ which = "upgrades" /\ Upgrades!Next
     /\ UNCHANGED <<which, syntax, environment, routing, progress>>
  \/ /\ \/ which = "progress" /\ Progress!Next
        \/ which = "polls" /\ Polls!Next
     /\ UNCHANGED <<which, syntax, environment, routing, schema>>

Spec == Init /\ [][Next]_vars

(* The variables of each component have their types.                       *)
TypeOK ==
  CASE which \in {"environment", "moves"} -> Environment!TypeOK
    [] which = "routes" -> Proxy!TypeOK
    [] which = "refusals" -> Refusals!TypeOK
    [] which = "settled" -> Settled!TypeOK
    [] which = "migrations" -> Migrations!TypeOK
    [] which = "upgrades" -> Upgrades!TypeOK
    [] which = "progress" -> Progress!TypeOK
    [] which = "polls" -> Polls!TypeOK
    [] OTHER -> TRUE

(* What is read back of a variable is the value shown or entered, after    *)
(* any sequence of edits, renames, moves and imports.                      *)
ValueReadBack == which = "syntax" => Syntax!ValueReadBack

(* The trailing comment of a line survives every edit of its value.        *)
CommentKept == which = "syntax" => Syntax!CommentKept

(* No sequence of edits gives an environment file a key twice.             *)
NoNewDuplicates == Environment!NoNewDuplicates

(* Lines whose key an operation does not name keep their text and order.   *)
OthersPreserved == Environment!OthersPreserved

(* A rename or a move keeps the text the entry has then, whatever the page *)
(* showed.                                                                 *)
TextFollows == Environment!TextFollows

(* A move or an import that fails at any step leaves both files as they    *)
(* were, unless a restore fails too.                                       *)
FailureUndone == Environment!FailureUndone

(* Without a crash a move ends with its entry in one of the two files.     *)
MoveKeepsEntry == [][which = "moves" => Moves!EndsWithEntry]_vars

(* What Caddy runs is what its files say, whenever nobody is rewriting     *)
(* them, however many operations fail.                                     *)
FilesAreServed == which = "routes" => Proxy!FilesAreServed

(* An operation that reports success has its change in the running proxy.  *)
SuccessIsServed ==
  [][/\ which = "routes" => Proxy!ServedOnSuccess
     /\ which = "refusals" => Refusals!ServedOnSuccess]_vars

(* A hostname or policy that cannot be applied is put back, in the         *)
(* database and in the running proxy.                                      *)
FailureRestores == [][which = "refusals" => Refusals!RestoredOnFailure]_vars

(* Between requests the proxy serves what is stored.                       *)
ServedIsStored == which = "settled" => Settled!ServedIsStored

(* Whatever releases opened the database before, this release works on the *)
(* same schema as on a fresh one.                                          *)
OpenedIsCurrent == Migrations!OpenedIsCurrent

(* No open is refused because of the schema it finds.                      *)
AlwaysOpens == Migrations!AlwaysOpens

(* Every account and every token is still there after an upgrade.          *)
RowsKept == which = "upgrades" => Upgrades!RowsKept

(* Two requests of one key never get two unfinished jobs.                  *)
OneUnfinished ==
  /\ which = "progress" => Progress!OneUnfinished
  /\ which = "polls" => Polls!OneUnfinished

(* A step shown as complete is one the operation left behind it.           *)
CompleteMeansDone ==
  /\ which = "progress" => Progress!CompleteMeansDone
  /\ which = "polls" => Polls!CompleteMeansDone

(* A failed job blames the stage in which its operation failed, in the     *)
(* stores whose operations report every stage before they begin it.        *)
ErrorNamesStage ==
  /\ which = "progress" /\ store \in {"setup", "postgres", "redis", "managed-databases",
                                      "application-container"} => Progress!ErrorNamesStage
  /\ which = "polls" => Polls!ErrorNamesStage

(* A deployment or a settings change is never answered with a job that     *)
(* does something else.                                                    *)
TargetHonoured == which = "progress" => Progress!TargetHonoured

(* A finished job holds no credentials of a database, however it ended.    *)
SecretsWiped == which = "progress" => Progress!SecretsWiped

(* An update job is created only when the outcome of the last is known.    *)
AdmittedAfterOutcome == [][which = "polls" => Polls!AdmitsAfterOutcome]_vars

(* A reader that is late never blocks an acknowledged update again.        *)
NeverBlockedAgain == [][which = "polls" => Polls!StaysUnblocked]_vars

(* Together: an edit of the environment changes the entries it names and   *)
(* nothing else, of their text and of their place, also when it fails.     *)
EnvironmentKept ==
  /\ [](ValueReadBack /\ CommentKept)
  /\ NoNewDuplicates /\ OthersPreserved /\ TextFollows /\ FailureUndone /\ MoveKeepsEntry

(* Together: the rows, the files and the running proxy say the same after  *)
(* a change that succeeded and after one that failed.                      *)
ProxyMatches == [](FilesAreServed /\ ServedIsStored) /\ SuccessIsServed /\ FailureRestores

(* Together: every order of releases opens the database, works on the      *)
(* current schema and keeps its accounts.                                  *)
UpgradesKeep == [](AlwaysOpens /\ RowsKept) /\ OpenedIsCurrent

(* Together: what a job tells whoever watches it is what its operation     *)
(* does, and one key has one unfinished job.                               *)
JobsTell == /\ TypeOK /\ OneUnfinished /\ CompleteMeansDone
            /\ ErrorNamesStage /\ TargetHonoured /\ SecretsWiped

(* Together: an update is admitted when the outcome of the last is known,  *)
(* and then no late reader takes that back.                                *)
UpdatesAdmitted == AdmittedAfterOutcome /\ NeverBlockedAgain
=============================================================================
