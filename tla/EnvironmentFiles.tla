-------------------------- MODULE EnvironmentFiles ----------------------------
(***************************************************************************)
(* The two environment files of an application, vars.env and secrets.env,  *)
(* and the operations on them: internal/service/applications.go,           *)
(* environment.go, environment_import.go and the handlers in front.        *)
(*                                                                         *)
(* A file is a sequence of lines; a line has a key (NoKey: a comment), the *)
(* value it shows and the form of its text: "literal" as the manager       *)
(* writes it, "expression" or "broken" as somebody wrote it.  How a text   *)
(* is read and written is the subject of EnvironmentSyntax.                *)
(*                                                                         *)
(* An operation holds the application's project lock (module ProjectLocks) *)
(* from its first read to its last write, so op is at most one.  Its plan  *)
(* is the files it will write; each write is an atomic rename.  Two pages  *)
(* are read without waiting for the lock, and the forms on them submit     *)
(* what they showed.                                                       *)
(***************************************************************************)
EXTENDS Integers, Sequences, SequencesExt, FiniteSets

CONSTANTS
  Keys, Values, NoKey,
  FirstVars, FirstSecrets,  \* files that an application may start with
  Imports,                  \* contents of one import: sequences of key and value
  MaxLines,                 \* MaxEnvironmentFileSize
  MaxOps,                   \* operations in one behaviour
  Kinds,                    \* operations of this instance
  Faults                    \* among "write", "sync", "restore" and "crash"

VARIABLES
  files,    \* contents of vars.env and secrets.env, or Missing
  op,       \* the operation that holds the project lock
  page,     \* the page an operator looks at
  ops,      \* operations begun
  lost      \* whether a restore failed or the manager died in an operation

vars == <<files, op, page, ops, lost>>

Files == {"vars", "secrets"}
Other(f) == IF f = "vars" THEN "secrets" ELSE "vars"
Line(k, v, form) == [key |-> k, value |-> v, form |-> form]
Missing == <<Line(NoKey, 0, "missing")>>
Refused == <<Line(NoKey, 0, "refused")>>
Forms == {"literal", "expression", "broken"}
Lines == [key : Keys \cup {NoKey}, value : Values, form : Forms]

IdleOp == [kind |-> "none", pc |-> "idle", file |-> "vars", key |-> NoKey, name |-> NoKey,
           names |-> {}, plan |-> <<>>, before |-> <<>>]
NoPage == [read |-> {}, vars |-> <<>>, secrets |-> <<>>]

At(c, k) == {i \in DOMAIN c : c[i].key = k}
Has(c, k) == At(c, k) # {}
Single(c, k) == Cardinality(At(c, k)) = 1
Entry(c, k) == c[CHOOSE i \in At(c, k) : TRUE]

---------------------------------------------------------------------------
(* The editing functions: the contents they return, or Refused.            *)

Replace(c, k, line) ==
  IF ~Single(c, k) THEN Refused ELSE [i \in DOMAIN c |-> IF c[i].key = k THEN line ELSE c[i]]

Rename(c, k, name, line) ==
  IF name # k /\ Has(c, name) THEN Refused ELSE Replace(c, k, line)

(* Update of a variable: an unchanged value keeps its text.                *)
updateEnvironmentFile(c, k, name, v) ==
  IF ~Single(c, k) THEN Refused
  ELSE IF Entry(c, k).value = v THEN Rename(c, k, name, [Entry(c, k) EXCEPT !.key = name])
  ELSE Rename(c, k, name, Line(name, v, "literal"))

replaceEnvironmentFile(c, k, name, v) == Rename(c, k, name, Line(name, v, "literal"))

(* The value is written back as shown: its text becomes a literal.         *)
RenameAsShown(c, k, name) ==
  IF ~Single(c, k) THEN Refused ELSE Rename(c, k, name, [Entry(c, k) EXCEPT !.key = name, !.form = "literal"])

(* The secret form left empty: only the name changes.                      *)
renameEnvironmentFile(c, k, name) ==
  IF ~Single(c, k) THEN Refused ELSE Rename(c, k, name, [Entry(c, k) EXCEPT !.key = name])

AppendAlways(c, line) == Append(c, line)
appendEnvironmentEntry(c, line) == IF Has(c, line.key) THEN Refused ELSE Append(c, line)

(* The last line goes with the entry.                                      *)
DeleteTooMuch(c, k) ==
  IF ~Single(c, k) THEN Refused ELSE SelectSeq(Front(c), LAMBDA l : l.key # k)

deleteEnvironmentVariable(c, k) ==
  IF ~Single(c, k) THEN Refused ELSE SelectSeq(c, LAMBDA l : l.key # k)

(* An import overwrites values that differ, in place, and appends keys     *)
(* that are new; a key that the file holds twice refuses it.               *)
MergeOne(c, in) ==
  IF c = Refused THEN Refused
  ELSE IF ~Has(c, in.key) THEN Append(c, Line(in.key, in.value, "literal"))
  ELSE IF ~Single(c, in.key) THEN Refused
  ELSE IF Entry(c, in.key).value = in.value THEN c
  ELSE Replace(c, in.key, Line(in.key, in.value, "literal"))

mergeEnvironmentContents(c, input) ==
  LET merged == FoldLeft(MergeOne, c, input)
  IN IF merged # Refused /\ Len(merged) > MaxLines THEN Refused ELSE merged

(* validateEnvironmentFileContents refuses an import that names a key      *)
(* twice before anything is read.                                          *)
validateEnvironmentFileContents(input) == \A i, j \in DOMAIN input : input[i].key = input[j].key => i = j

---------------------------------------------------------------------------
Init ==
  /\ files \in {[vars |-> v, secrets |-> s] : v \in FirstVars, s \in FirstSecrets}
  /\ op = IdleOp /\ page = NoPage /\ ops = 0 /\ lost = FALSE

Write(f, c) == [file |-> f, contents |-> c]

(* acquireApplicationProject and the snapshots; a plan that is refused     *)
(* before the first write ends the operation at once.                      *)
Begin(kind, f, k, name, names, plan) ==
  /\ kind \in Kinds /\ op = IdleOp /\ ops < MaxOps
  /\ ops' = ops + 1
  /\ op' = IF plan = <<>> THEN IdleOp
           ELSE [kind |-> kind, pc |-> "write", file |-> f, key |-> k, name |-> name,
                 names |-> names, plan |-> plan, before |-> files]
  /\ UNCHANGED <<files, page, lost>>

modifyApplicationEnvironmentFile(kind, f, k, name, c) ==
  Begin(kind, f, k, name, {k, name}, IF c = Refused THEN <<>> ELSE <<Write(f, c)>>)

Add(f, k, v) ==
  /\ files[f] # Missing
  /\ modifyApplicationEnvironmentFile("add", f, k, k, appendEnvironmentEntry(files[f], Line(k, v, "literal")))

Delete(f, k) ==
  /\ files[f] # Missing
  /\ modifyApplicationEnvironmentFile("delete", f, k, k, deleteEnvironmentVariable(files[f], k))

(* The variable form submits a name and a value; k is on the page.         *)
UpdateEnvironmentVariable(k, name, v) ==
  /\ Has(page.vars, k) /\ files.vars # Missing
  /\ modifyApplicationEnvironmentFile("update", "vars", k, name, updateEnvironmentFile(files.vars, k, name, v))

(* The secret form never shows the value; left empty it keeps it.          *)
UpdateEnvironmentSecretValue(k, name, v) ==
  /\ Has(page.secrets, k) /\ files.secrets # Missing
  /\ \/ modifyApplicationEnvironmentFile("rename", "secrets", k, name, renameEnvironmentFile(files.secrets, k, name))
     \/ modifyApplicationEnvironmentFile("update", "secrets", k, name, replaceEnvironmentFile(files.secrets, k, name, v))

(* The plan of a move: the source first, then the destination.             *)
MovePlan(f, k) ==
  LET source == deleteEnvironmentVariable(files[f], k)
      entry == Entry(files[f], k)
      destination == appendEnvironmentEntry(files[Other(f)], entry)
  IN IF source = Refused \/ entry.form = "broken" \/ destination = Refused THEN <<>>
     ELSE <<Write(f, source), Write(Other(f), destination)>>

moveApplicationEnvironmentVariable(f, k) ==
  /\ files[f] # Missing /\ files[Other(f)] # Missing
  /\ Begin("move", f, k, k, {k}, IF Single(files[f], k) THEN MovePlan(f, k) ELSE <<>>)

(* ImportEnvironmentFiles: vars.env, then secrets.env; a file that is not  *)
(* provided is only created, an unchanged one is not written.  given maps  *)
(* the files of the request to their contents.                             *)
MergeUnread(f, given) ==
  LET merged == IF f \in DOMAIN given THEN mergeEnvironmentContents(files[f], given[f]) ELSE files[f]
  IN IF merged = files[f] THEN <<>> ELSE <<Write(f, merged)>>

MergeFile(f, given) ==
  LET c == IF files[f] = Missing THEN <<>> ELSE files[f]
      merged == IF f \in DOMAIN given THEN mergeEnvironmentContents(c, given[f]) ELSE c
  IN IF merged = files[f] THEN <<>> ELSE <<Write(f, merged)>>

ImportEnvironmentFiles(given) ==
  /\ \A f \in DOMAIN given : validateEnvironmentFileContents(given[f])
  /\ Begin("import", "vars", NoKey, NoKey, UNION {{given[f][i].key : i \in DOMAIN given[f]} : f \in DOMAIN given},
           MergeFile("vars", given) \o MergeFile("secrets", given))

---------------------------------------------------------------------------
(* Moves and imports put both files back when a step fails; an edit of one *)
(* file reports the error and does not.                                    *)
NotUndoing(o) == IdleOp
Undoing(o) == IF o.kind \in {"move", "import"} THEN [o EXCEPT !.pc = "undo"] ELSE IdleOp

Writes ==
  /\ op.pc = "write"
  /\ LET next == Head(op.plan)
     IN /\ next.contents # Refused
        /\ files' = [files EXCEPT ![next.file] = next.contents]
        /\ op' = IF Len(op.plan) = 1 THEN IdleOp ELSE [op EXCEPT !.plan = Tail(@)]
  /\ UNCHANGED <<page, ops, lost>>

(* The temporary file cannot be written, or the contents are refused.      *)
WriteFails ==
  /\ op.pc = "write"
  /\ Head(op.plan).contents = Refused \/ "write" \in Faults
  /\ op' = Undoing(op)
  /\ UNCHANGED <<files, page, ops, lost>>

(* The file has been replaced and the directory cannot be synced.          *)
SyncFails ==
  /\ op.pc = "write" /\ "sync" \in Faults
  /\ Head(op.plan).contents # Refused
  /\ files' = [files EXCEPT ![Head(op.plan).file] = Head(op.plan).contents]
  /\ op' = Undoing(op)
  /\ UNCHANGED <<page, ops, lost>>

(* rollbackFiles: one restore after the other, whether or not the first    *)
(* succeeds; the order is the one of the snapshots.                        *)
FirstOf(o) == IF o.kind = "move" THEN o.file ELSE "vars"
RestoreFirst(ok) ==
  /\ op.pc \in {"undo", "undo second"}
  /\ files' = IF ok THEN [files EXCEPT ![FirstOf(op)] = op.before[FirstOf(op)]] ELSE files
  /\ ok \/ "restore" \in Faults
  /\ lost' = (lost \/ ~ok)
  /\ op' = IF op.pc = "undo" THEN [op EXCEPT !.pc = "undo second"] ELSE IdleOp
  /\ UNCHANGED <<page, ops>>

Restore(ok) ==
  /\ op.pc \in {"undo", "undo second"}
  /\ LET f == IF op.pc = "undo" THEN FirstOf(op) ELSE Other(FirstOf(op))
     IN files' = IF ok THEN [files EXCEPT ![f] = op.before[f]] ELSE files
  /\ ok \/ "restore" \in Faults
  /\ lost' = (lost \/ ~ok)
  /\ op' = IF op.pc = "undo" THEN [op EXCEPT !.pc = "undo second"] ELSE IdleOp
  /\ UNCHANGED <<page, ops>>

(* The manager dies.  What has been renamed stays.                         *)
Crash ==
  /\ "crash" \in Faults /\ op # IdleOp
  /\ op' = IdleOp
  /\ page' = IF page.read = Files THEN page ELSE NoPage
  /\ lost' = TRUE
  /\ UNCHANGED <<files, ops>>

(* GetEnvironmentFiles reads vars.env, then secrets.env; both at once when *)
(* it gets the lock.                                                       *)
Shown(f) == IF files[f] = Missing THEN <<>> ELSE files[f]
GetEnvironmentFiles ==
  /\ UNCHANGED <<files, op, ops, lost>>
  /\ \/ /\ op = IdleOp
        /\ page' = [read |-> Files, vars |-> Shown("vars"), secrets |-> Shown("secrets")]
     \/ /\ op # IdleOp /\ page.read # {"vars"}
        /\ page' = [read |-> {"vars"}, vars |-> Shown("vars"), secrets |-> <<>>]
     \/ /\ page.read = {"vars"}
        /\ page' = [page EXCEPT !.read = Files, !.secrets = Shown("secrets")]

(* The requests that reach the service: set up, signed in and with a valid *)
(* form.  One form adds and updates; an empty secret value keeps the old.  *)
updateApplicationVariable ==
  \/ \E k \in Keys, v \in Values : Add("vars", k, v)
  \/ \E k, name \in Keys, v \in Values : UpdateEnvironmentVariable(k, name, v)
updateApplicationSecret ==
  \/ \E k \in Keys, v \in Values : Add("secrets", k, v)
  \/ \E k, name \in Keys, v \in Values : UpdateEnvironmentSecretValue(k, name, v)
deleteApplicationVariable == \E k \in Keys : Delete("vars", k)
deleteApplicationSecret == \E k \in Keys : Delete("secrets", k)
moveApplicationVariableToSecrets == \E k \in Keys : moveApplicationEnvironmentVariable("vars", k)
moveApplicationSecretToVariables == \E k \in Keys : moveApplicationEnvironmentVariable("secrets", k)
importApplicationEnvironmentFiles ==
  \E S \in SUBSET Files \ {{}} : \E given \in [S -> Imports] : ImportEnvironmentFiles(given)

Next ==
  \/ updateApplicationVariable
  \/ updateApplicationSecret
  \/ deleteApplicationVariable
  \/ deleteApplicationSecret
  \/ moveApplicationVariableToSecrets
  \/ moveApplicationSecretToVariables
  \/ importApplicationEnvironmentFiles
  \/ Writes
  \/ WriteFails
  \/ SyncFails
  \/ \E ok \in BOOLEAN : Restore(ok)
  \/ Crash
  \/ GetEnvironmentFiles

Spec == Init /\ [][Next]_vars

---------------------------------------------------------------------------
Contents(f) == IF files[f] = Missing THEN <<>> ELSE files[f]

TypeOK ==
  /\ \A f \in Files : files[f] = Missing \/ files[f] \in Seq(Lines)
  /\ op.kind \in {"none", "add", "delete", "update", "rename", "move", "import"}
  /\ op.pc \in {"idle", "write", "undo", "undo second"}
  /\ \A f \in Files : page[f] \in Seq(Lines)

(* No sequence of additions, renames, moves and imports gives a file a key *)
(* twice: only a file that was written that way holds one.                 *)
NoNewDuplicates ==
  [][\A f \in Files, k \in Keys :
       Cardinality(At(Contents(f)', k)) <= 1
       \/ Cardinality(At(Contents(f)', k)) <= Cardinality(At(Contents(f), k))]_vars

(* Lines whose key an operation does not name keep their text and order in *)
(* both files while it runs; an import names the keys it provides.         *)
OthersPreserved ==
  [][\A f \in Files :
       LET kept == (Keys \cup {NoKey}) \ op.names
       IN SelectSeq(Contents(f)', LAMBDA l : l.key \in kept) =
          SelectSeq(Contents(f), LAMBDA l : l.key \in kept)]_files

(* A secret that is renamed keeps the text it has when it is renamed,      *)
(* whatever the page showed, and a move takes the text of the entry along. *)
TextFollows ==
  [][op.kind \in {"rename", "move"} /\ op.pc = "write" /\ op' = IdleOp /\ files' # files =>
       LET to == IF op.kind = "move" THEN Other(op.file) ELSE op.file
           old == Entry(op.before[op.file], op.key)
       IN /\ Single(files'[to], op.name)
          /\ Entry(files'[to], op.name).value = old.value
          /\ Entry(files'[to], op.name).form = old.form
          /\ op.kind = "move" => ~Has(files'[op.file], op.key)]_vars

(* A move or an import that fails at any step leaves both files as they    *)
(* were before it, unless a restore fails too.                             *)
FailureUndone ==
  [][op.pc = "undo second" /\ op' = IdleOp /\ ~lost' => files' = op.before]_vars

(* A move ends with its entry in one of the two files.                     *)
EndsWithEntry ==
  op.kind = "move" /\ op' = IdleOp =>
    Has(Contents("vars")', op.key) \/ Has(Contents("secrets")', op.key)

MoveKeepsEntry == [][EndsWithEntry]_vars
=============================================================================
