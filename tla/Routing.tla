------------------------------- MODULE Routing --------------------------------
(***************************************************************************)
(* Domains, routings and proxy settings, and the shared Caddy proxy that   *)
(* is regenerated from them: internal/service/routing.go,                  *)
(* proxy_settings.go, the domain operations of applications.go and their   *)
(* tables.                                                                 *)
(*                                                                         *)
(* stored is the database: one value per item.  An item is a domain or a   *)
(* route of an application, a Redlaunch hostname, or the policy of an      *)
(* application or of the proxy.  The Caddyfile has a block per route, with *)
(* the policy that applies to it, and one per hostname; file is what it    *)
(* holds and running what Caddy has loaded.  compose and up are the        *)
(* proxy's Compose file and the container that is up.                      *)
(*                                                                         *)
(* Operations on domains and routes change the database under the lock of  *)
(* the application only, then take the proxy lock to regenerate the file;  *)
(* hostnames and policies are changed under the proxy lock.                *)
(*                                                                         *)
(* Left out: row identifiers, which name the matchers of the Caddyfile.  A *)
(* restored row has a new one, so the code may reload an equivalent file.  *)
(***************************************************************************)
EXTENDS Integers, FiniteSets

CONSTANTS
  Procs,            \* requests and jobs
  Apps,
  Domains, Routes, Hosts, Policies,   \* items
  Owner,            \* the application of an item, or NoApp
  NoApp,
  Values,           \* what an item is set to
  Brotli,           \* policies that need the extended image
  Custom,           \* whether the proxy has a custom build
  MaxOps, MaxCrashes,   \* operations and crashes in one behaviour
  Faults            \* among "reload", "cancel", "late" and "write"

Items == Domains \cup Routes \cup Hosts \cup Policies
Rendered == Routes \cup Hosts
None == "none"
Torn == [i \in Rendered |-> <<"torn", None>>]

VARIABLES
  stored,
  file, running,
  compose, up,      \* "first" (before the mount), "mounted" or "brotli"
  appLock, proxyLock,
  proc,
  ops, crashes
vars == <<stored, file, running, compose, up, appLock, proxyLock, proc, ops, crashes>>

(* An application's policy, or what it inherits.                           *)
Resolve(db, a) ==
  LET set(x) == {s \in Policies : Owner[s] = x /\ db[s] # None}
      chosen == IF set(a) # {} THEN set(a) ELSE set(NoApp)
  IN IF chosen = {} THEN None ELSE db[CHOOSE s \in chosen : TRUE]

(* renderCaddyfileWithSettings: policies appear in the blocks of routes.   *)
Render(db) ==
  [i \in Rendered |-> <<db[i], IF i \in Routes /\ db[i] # None THEN Resolve(db, Owner[i]) ELSE None>>]

Free == "free"
NoChange == [i \in {} |-> None]
Idle == [pc |-> "idle", change |-> NoChange, old |-> NoChange, config |-> NoChange, mount |-> "",
         file |-> NoChange, compose |-> "", cancelled |-> FALSE]

Init ==
  /\ stored = [i \in Items |-> None]
  /\ file = Render(stored) /\ running = Render(stored)
  /\ compose \in {"first", "mounted"} /\ up = compose
  /\ appLock = [a \in Apps |-> Free] /\ proxyLock = Free
  /\ proc = [p \in Procs |-> Idle]
  /\ ops = 0 /\ crashes = 0

files == <<file, running, compose, up>>
Goto(p, pc) == proc' = [proc EXCEPT ![p].pc = pc]
With(db, change) == [i \in Items |-> IF i \in DOMAIN change THEN change[i] ELSE db[i]]
Before(change) == [i \in DOMAIN change |-> stored[i]]
UnderProxy(change) == DOMAIN change \subseteq Hosts \cup Policies
Unlocked(p) == [a \in Apps |-> IF appLock[a] = p THEN Free ELSE appLock[a]]

(* An operation returns: its locks are released.                           *)
Ends(p) ==
  /\ proc' = [proc EXCEPT ![p] = Idle]
  /\ appLock' = Unlocked(p)
  /\ proxyLock' = IF proxyLock = p THEN Free ELSE proxyLock

---------------------------------------------------------------------------
(* Operations begin.  prepareRouting wants the domain; the table holds one *)
(* row per route.                                                          *)
DomainOf(a) == CHOOSE d \in Domains : Owner[d] = a
RoutesOf(a) == {r \in Routes : Owner[r] = a}

Begins(p, change) ==
  /\ proc[p].pc = "idle" /\ ops < MaxOps
  /\ ops' = ops + 1
  /\ UNCHANGED <<file, running, compose, up, proxyLock>>
  /\ proc' = [proc EXCEPT ![p] = [Idle EXCEPT !.pc = "proxy", !.change = change, !.old = Before(change)]]

ChangesRows(p, a, change) ==
  /\ appLock[a] = Free
  /\ appLock' = [appLock EXCEPT ![a] = p]
  /\ stored' = With(stored, change)
  /\ Begins(p, change)

One(i, v) == [x \in {i} |-> v]

CreateDomain(p, a) ==
  /\ proc[p].pc = "idle" /\ ops < MaxOps /\ appLock[a] = Free
  /\ stored[DomainOf(a)] = None
  /\ ops' = ops + 1
  /\ stored' = [stored EXCEPT ![DomainOf(a)] = "named"]
  /\ UNCHANGED <<file, running, compose, up, appLock, proxyLock, proc>>

CreateRouting(p, r, v) ==
  /\ stored[r] = None /\ stored[DomainOf(Owner[r])] # None
  /\ ChangesRows(p, Owner[r], One(r, v))
UpdateRouting(p, r, v) ==
  /\ stored[r] # None
  /\ ChangesRows(p, Owner[r], One(r, v))
DeleteRouting(p, r) ==
  /\ stored[r] # None
  /\ ChangesRows(p, Owner[r], One(r, None))

(* The routes of a domain go with it; without routes Caddy is left alone.  *)
DeleteDomain(p, a) ==
  LET gone == {DomainOf(a)} \cup {r \in RoutesOf(a) : stored[r] # None}
  IN /\ stored[DomainOf(a)] # None
     /\ \/ /\ gone = {DomainOf(a)} /\ appLock[a] = Free
           /\ proc[p].pc = "idle" /\ ops < MaxOps /\ ops' = ops + 1
           /\ stored' = [stored EXCEPT ![DomainOf(a)] = None]
           /\ UNCHANGED <<file, running, compose, up, appLock, proxyLock, proc>>
        \/ /\ gone # {DomainOf(a)}
           /\ ChangesRows(p, a, [i \in gone |-> None])

(* Whether the hostname exists is decided under the proxy lock.            *)
ChangesHost(p, h, v) ==
  /\ Begins(p, One(h, v))
  /\ UNCHANGED <<stored, appLock>>
CreateRedlaunchDomain(p, h) == ChangesHost(p, h, "named")
DeleteRedlaunchDomain(p, h) == ChangesHost(p, h, None)

(* SaveProxySettings holds the lock of the application, if there is one,   *)
(* before the proxy lock.                                                  *)
SaveProxySettings(p, s, v) ==
  /\ IF Owner[s] = NoApp THEN UNCHANGED appLock
     ELSE appLock[Owner[s]] = Free /\ appLock' = [appLock EXCEPT ![Owner[s]] = p]
  /\ Begins(p, One(s, v))
  /\ UNCHANGED stored

---------------------------------------------------------------------------
(* refreshProxyConfiguration                                               *)

(* The browser goes away or the manager stops its jobs.                    *)
Cancel(p) ==
  /\ "cancel" \in Faults
  /\ proc[p].pc # "idle" /\ ~proc[p].cancelled
  /\ proc' = [proc EXCEPT ![p].cancelled = TRUE]
  /\ UNCHANGED <<stored, file, running, compose, up, appLock, proxyLock, ops>>

(* A hostname to add that is there, or to delete that is not.              *)
HostRefused(change) == \E h \in DOMAIN change \cap Hosts : stored[h] = change[h]

(* Hostnames and policies are stored under the lock.                       *)
acquireProxyProject(p) ==
  LET change == proc[p].change
  IN /\ proc[p].pc = "proxy" /\ UNCHANGED <<files, ops>>
     /\ \/ /\ ~proc[p].cancelled /\ proxyLock = Free /\ ~HostRefused(change)
           /\ proxyLock' = p
           /\ stored' = IF UnderProxy(change) THEN With(stored, change) ELSE stored
           /\ proc' = [proc EXCEPT ![p].pc = "read", ![p].old = IF UnderProxy(change) THEN Before(change) ELSE @]
           /\ UNCHANGED appLock
        \/ /\ ~proc[p].cancelled /\ proxyLock = Free /\ HostRefused(change)
           /\ Ends(p) /\ UNCHANGED stored
        \/ /\ proc[p].cancelled /\ UnderProxy(change)
           /\ Ends(p) /\ UNCHANGED stored
        \/ /\ proc[p].cancelled /\ ~UnderProxy(change)
           /\ Goto(p, "rollback")
           /\ UNCHANGED <<stored, appLock, proxyLock>>

(* A refresh that fails gives the proxy lock back to the operations that   *)
(* took it in the refresh; the operation then undoes its rows.             *)
Fails(p) ==
  /\ proc' = [proc EXCEPT ![p].pc = "rollback"]
  /\ proxyLock' = IF UnderProxy(proc[p].change) THEN p ELSE Free

NeedsBrotli(db) == \E s \in Policies : db[s] \in Brotli
(* enableProxyBrotli never replaces a custom build.                        *)
BrotliRefused(db) == Custom /\ NeedsBrotli(db)
Wanted(db) == IF NeedsBrotli(db) \/ compose = "brotli" THEN "brotli" ELSE "mounted"

(* Only the Compose file is compared.                                      *)
ReadComposeOnly(p) ==
  /\ proc[p].pc = "read"
  /\ UNCHANGED <<stored, files, ops>>
  /\ IF compose = Wanted(stored) THEN Ends(p)
     ELSE /\ proc' = [proc EXCEPT ![p].pc = "write", ![p].config = Render(stored), ![p].mount = Wanted(stored),
                                  ![p].file = file, ![p].compose = compose]
          /\ UNCHANGED <<appLock, proxyLock>>

(* Reads the rows, prepares both files, and returns when neither changes.  *)
ReadRows(p) ==
  /\ proc[p].pc = "read"
  /\ UNCHANGED <<stored, files, ops>>
  /\ \/ /\ proc[p].cancelled \/ BrotliRefused(stored)
        /\ Fails(p) /\ UNCHANGED appLock
     \/ /\ ~proc[p].cancelled /\ ~BrotliRefused(stored)
        /\ IF file = Render(stored) /\ compose = Wanted(stored) THEN Ends(p)
           ELSE /\ proc' = [proc EXCEPT ![p].pc = "write", ![p].config = Render(stored), ![p].mount = Wanted(stored),
                                        ![p].file = file, ![p].compose = compose]
                /\ UNCHANGED <<appLock, proxyLock>>

(* The Caddyfile is bind-mounted, so it is rewritten in place; then the    *)
(* Compose file.  A write that fails puts the Caddyfile back.              *)
WriteFiles(p) ==
  /\ proc[p].pc = "write"
  /\ UNCHANGED <<stored, running, up, appLock, ops>>
  /\ \/ /\ file' = proc[p].config /\ compose' = proc[p].mount
        /\ Goto(p, "apply") /\ UNCHANGED proxyLock
     \/ /\ "write" \in Faults
        /\ UNCHANGED <<file, compose>>
        /\ Fails(p)

(* A changed Compose file recreates the container; otherwise Caddy reloads *)
(* the file, which a container without the mount does not see.             *)
Loads(recreate, f, c) ==
  /\ running' = IF recreate \/ up # "first" THEN f ELSE running
  /\ up' = IF recreate THEN c ELSE up
Refuses(recreate, f) ==
  /\ ~recreate /\ up # "first"
  /\ f = Torn \/ (up # "brotli" /\ \E i \in Rendered : f[i][2] \in Brotli)

Recreates(p) == proc[p].compose # proc[p].mount

(* A command that is cancelled may have been carried out.                  *)
Apply(p) ==
  /\ proc[p].pc = "apply"
  /\ UNCHANGED <<stored, file, compose, ops>>
  /\ \/ /\ ~proc[p].cancelled /\ ~Refuses(Recreates(p), file)
        /\ Loads(Recreates(p), file, compose) /\ Ends(p)
     \/ /\ proc[p].cancelled \/ Refuses(Recreates(p), file) \/ "reload" \in Faults
        /\ Goto(p, "restore") /\ UNCHANGED <<running, up, appLock, proxyLock>>
     \/ /\ proc[p].cancelled /\ ~Refuses(Recreates(p), file) /\ "late" \in Faults
        /\ Loads(Recreates(p), file, compose)
        /\ Goto(p, "restore") /\ UNCHANGED <<appLock, proxyLock>>

(* The files are left as they are.                                         *)
ForgetFiles(p) ==
  /\ proc[p].pc = "restore"
  /\ UNCHANGED <<files, stored, appLock, ops>>
  /\ Fails(p)

(* Both files are put back and a Caddyfile that changed is loaded again;   *)
(* the outcome is ignored.                                                 *)
Restore(p) ==
  /\ proc[p].pc = "restore"
  /\ file' = proc[p].file /\ compose' = proc[p].compose
  /\ UNCHANGED <<stored, appLock, ops>>
  /\ \/ /\ ~proc[p].cancelled /\ file' # file /\ ~Refuses(Recreates(p), file')
        /\ Loads(Recreates(p), file', compose')
     \/ /\ proc[p].cancelled \/ file' = file \/ Refuses(Recreates(p), file') \/ "reload" \in Faults
        /\ UNCHANGED <<running, up>>
  /\ Fails(p)

RollbackNothing(p) ==
  /\ proc[p].pc = "rollback"
  /\ UNCHANGED <<files, stored, ops>>
  /\ Ends(p)

(* The operation undoes its change of the rows.  The settings are restored *)
(* whether or not the request was cancelled; the others are not.           *)
Rollback(p) ==
  /\ proc[p].pc = "rollback"
  /\ stored' = IF proc[p].cancelled /\ ~(DOMAIN proc[p].change \subseteq Policies)
               THEN stored ELSE With(stored, proc[p].old)
  /\ Ends(p)
  /\ UNCHANGED <<files, ops>>

(* The manager dies.  A Caddyfile that is being rewritten may be cut off;  *)
(* Caddy goes on with what it has loaded.                                  *)
Crash ==
  /\ crashes < MaxCrashes
  /\ \E p \in Procs : proc[p].pc # "idle"
  /\ file' \in {file} \cup UNION {{proc[p].config, Torn} : p \in {q \in Procs : proc[q].pc = "write"}}
                       \cup UNION {{proc[p].file, Torn} : p \in {q \in Procs : proc[q].pc = "restore"}}
  /\ proc' = [p \in Procs |-> Idle]
  /\ appLock' = [a \in Apps |-> Free] /\ proxyLock' = Free
  /\ crashes' = crashes + 1
  /\ UNCHANGED <<stored, running, compose, up, ops>>

Step(p) ==
  \/ acquireProxyProject(p)
  \/ ReadRows(p)
  \/ WriteFiles(p)
  \/ Apply(p)
  \/ Restore(p)
  \/ Rollback(p)

(* The web interface's handlers.                                           *)
createApplicationDomain(p) == \E a \in Apps : CreateDomain(p, a)
deleteApplicationDomain(p) == \E a \in Apps : DeleteDomain(p, a)
saveApplicationRouting(p) == \E r \in Routes, v \in Values : CreateRouting(p, r, v) \/ UpdateRouting(p, r, v)
deleteApplicationRouting(p) == \E r \in Routes : DeleteRouting(p, r)
createRedlaunchDomain(p) == \E h \in Hosts : CreateRedlaunchDomain(p, h)
deleteRedlaunchDomain(p) == \E h \in Hosts : DeleteRedlaunchDomain(p, h)
parseProxyPolicy == Values \cup Brotli \cup {None}
proxySettingsPage(p) == \E s \in Policies, v \in parseProxyPolicy : SaveProxySettings(p, s, v)

Request(p) ==
  \/ createApplicationDomain(p)
  \/ deleteApplicationDomain(p)
  \/ saveApplicationRouting(p)
  \/ deleteApplicationRouting(p)
  \/ createRedlaunchDomain(p)
  \/ deleteRedlaunchDomain(p)
  \/ proxySettingsPage(p)

Next ==
  \/ \E p \in Procs : (Request(p) \/ Step(p) \/ Cancel(p)) /\ UNCHANGED crashes
  \/ Crash

Spec == Init /\ [][Next]_vars
Fairness == \A p \in Procs : WF_vars(Step(p) /\ UNCHANGED crashes)
FairSpec == Spec /\ Fairness

---------------------------------------------------------------------------
TypeOK ==
  LET known == Values \cup Brotli \cup {None, "named"}
  IN /\ stored \in [Items -> known]
     /\ \A f \in {file, running} : f = Torn \/ f \in [Rendered -> known \X known]
     /\ {compose, up} \subseteq {"first", "mounted", "brotli"}
     /\ \A p \in Procs : proc[p].pc \in {"idle", "proxy", "read", "write", "apply", "restore", "rollback"}

(* What Caddy runs is what its files say, whenever nobody is rewriting     *)
(* them, however many operations fail: a container that restarts serves    *)
(* the same routes.                                                        *)
FilesAreServed == proxyLock = Free => file = running /\ compose = up

(* A running item with a value of its own; a policy runs when every route  *)
(* that runs has the policy stored for it.                                 *)
Served(i, v) ==
  IF i \in Policies THEN \A r \in Routes : running'[r][1] # None => running'[r][2] = Resolve(stored', Owner[r])
  ELSE running'[i][1] = v

(* An operation that reports success has its change in the running proxy.  *)
ServedOnSuccess ==
  \A p \in Procs : crashes' = crashes /\ proc[p].pc \in {"read", "apply"} /\ proc'[p].pc = "idle" =>
    \A i \in DOMAIN proc[p].change \ Domains : Served(i, proc[p].change[i])

SuccessIsServed == [][ServedOnSuccess]_vars

(* A hostname or policy that cannot be applied is put back, in the         *)
(* database and in the running proxy.                                      *)
RestoredOnFailure ==
  \A p \in Procs : crashes' = crashes /\ proc[p].pc = "rollback" /\ proc'[p].pc = "idle" /\ UnderProxy(proc[p].change) =>
    \A i \in DOMAIN proc[p].change : stored'[i] = proc[p].old[i] /\ Served(i, proc[p].old[i])

FailureRestores == [][RestoredOnFailure]_vars

(* When nothing runs, the proxy serves the routes, hostnames and policies  *)
(* that are stored.                                                        *)
ServedIsStored == (\A p \in Procs : proc[p].pc = "idle") => running = Render(stored)

=============================================================================
