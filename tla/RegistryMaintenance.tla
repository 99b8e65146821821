------------------------- MODULE RegistryMaintenance -------------------------
(***************************************************************************)
(* The read-only window of the local registry: retention and garbage       *)
(* collection by request and by the hourly worker, and the recovery of an  *)
(* interrupted window (service/registry_maintenance.go, the worker in      *)
(* service/registry_retention.go, Docker as in                             *)
(* compose/registry_maintenance.go).                                       *)
(***************************************************************************)
EXTENDS Integers, FiniteSets

CONSTANTS None,
          Bases,        \* contents an operator gives the configuration file
          EditDuring,   \* the operator may edit while a window is open
          Fails, Crashes, Edits, Restarts   \* bounds

Tasks == {"retention", "gc"}
\* The manual job (one at a time), the worker and main's recovery at startup.
Clients == {"manual", "worker", "main"}

VARIABLES config,    \* the registry's configuration file: [base, ro]
          mode,      \* how the container runs: "rw", "ro" or "down"
          gc,        \* a collector runs inside the container
          file,      \* .maintenance state file: the original base or None
          up,        \* the manager process serves or recovers
          blocked,   \* maintenanceErr
          holder,    \* mutations
          recent,    \* tasks that completed less than a day ago
          pc, opts, done,  \* per client: step, tasks of the window, completed ones
          wanted,    \* history: the base the operator chose last
          budget

ConstantsOK ==
    /\ None \notin Bases \cup Clients
    /\ Fails \in Nat /\ Crashes \in Nat /\ Edits \in Nat /\ Restarts \in Nat

registry == <<config, mode, gc>>
memory == <<up, blocked, holder, recent>>
window == <<pc, opts, done>>
vars == <<registry, file, memory, window, wanted, budget>>

Windowed == {"target", "apply", "restart", "verify", "retain", "collect", "collecting",
             "kill", "undo", "restart2", "verify2"}
Recovering == {"rec_restart", "rec_config", "rec_restart2", "rec_verify"}

TypeOK ==
    /\ config \in [base: Bases, ro: BOOLEAN] /\ mode \in {"rw", "ro", "down"}
    /\ gc \in BOOLEAN /\ up \in BOOLEAN /\ blocked \in BOOLEAN
    /\ file \in Bases \cup {None} /\ holder \in Clients \cup {None}
    /\ recent \subseteq Tasks /\ wanted \in Bases
    /\ pc \in [Clients -> {"idle", "try", "lock"} \cup Windowed \cup Recovering]
    /\ opts \in [Clients -> SUBSET Tasks] /\ done \in [Clients -> SUBSET Tasks]
    /\ \A c \in Clients : pc[c] \in Windowed \cup Recovering => holder = c

Init ==
    /\ wanted \in Bases /\ config = [base |-> wanted, ro |-> FALSE]
    /\ mode = "rw" /\ gc = FALSE /\ file = None
    /\ up = TRUE /\ blocked = FALSE /\ holder = None /\ recent = {}
    /\ pc = [c \in Clients |-> "idle"]
    /\ opts = [c \in Clients |-> {}] /\ done = [c \in Clients |-> {}]
    /\ budget = [fails |-> Fails, crashes |-> Crashes, edits |-> Edits,
                 restarts |-> Restarts]

Spend(b) == budget[b] > 0 /\ budget' = [budget EXCEPT ![b] = @ - 1]
Move(c, from, to) == pc[c] = from /\ pc' = [pc EXCEPT ![c] = to]
Ends(c) == pc' = [pc EXCEPT ![c] = "idle"] /\ holder' = None

RegistryReadOnlyConfig == [base |-> file, ro |-> TRUE]
Original == [base |-> file, ro |-> FALSE]

\* docker restart ends every process of the container.
Restarted == mode' = (IF config.ro THEN "ro" ELSE "rw") /\ gc' = FALSE

\* A restart that fails did nothing, left the container down, or succeeded.
RestartFails ==
    /\ Restarted \/ (mode' = "down" /\ gc' = FALSE) \/ UNCHANGED <<mode, gc>>
    /\ UNCHANGED config
-----------------------------------------------------------------------------
(* Requests, the worker and the admission to a window *)

NotDue == recent
StartManual ==
    /\ up /\ pc["manual"] = "idle"
    /\ ~blocked
    /\ \E t \in Tasks : opts' = [opts EXCEPT !["manual"] = {t}]
    /\ Move("manual", "idle", "try")
    /\ UNCHANGED <<registry, file, memory, done, wanted, budget>>

\* A pass of the worker: recovery when blocked, else what is due.
WorkerPass ==
    /\ up /\ pc["worker"] = "idle"
    /\ \/ blocked /\ Move("worker", "idle", "lock") /\ UNCHANGED opts
       \/ /\ ~blocked /\ NotDue # Tasks
          /\ opts' = [opts EXCEPT !["worker"] = Tasks \ NotDue]
          /\ Move("worker", "idle", "try")
    /\ UNCHANGED <<registry, file, memory, done, wanted, budget>>

\* Fault: what is due is not read again under the lock.
DueKept(c) == opts[c]
\* A scheduled window leaves out what another window did meanwhile.
DueMaintenance(c) == IF c = "worker" THEN opts[c] \ recent ELSE opts[c]

\* Fault: a window opens beside the operation that holds the lock.
LockIgnored == TRUE
LockFree == holder = None

TryLock(c) ==
    /\ up /\ pc[c] = "try"
    /\ \/ /\ holder # None   \* ErrRegistryBusy
          /\ pc' = [pc EXCEPT ![c] = "idle"] /\ UNCHANGED <<holder, opts, done>>
       \/ /\ holder = None /\ DueMaintenance(c) = {}
          /\ pc' = [pc EXCEPT ![c] = "idle"] /\ UNCHANGED <<holder, opts, done>>
       \/ /\ LockFree /\ DueMaintenance(c) # {}
          /\ holder' = c
          /\ opts' = [opts EXCEPT ![c] = DueMaintenance(c)] /\ done' = [done EXCEPT ![c] = {}]
          /\ pc' = [pc EXCEPT ![c] = IF file = None THEN "target" ELSE "rec_restart"]
    /\ UNCHANGED <<registry, file, up, blocked, recent, wanted, budget>>

\* RecoverRegistryMaintenance waits for the lock.
LockToRecover(c) ==
    /\ up /\ pc[c] = "lock" /\ holder = None
    /\ opts' = [opts EXCEPT ![c] = {}]
    /\ IF file = None
       THEN blocked' = FALSE /\ pc' = [pc EXCEPT ![c] = "idle"] /\ UNCHANGED holder
       ELSE holder' = c /\ pc' = [pc EXCEPT ![c] = "rec_restart"] /\ UNCHANGED blocked
    /\ UNCHANGED <<registry, file, up, recent, done, wanted, budget>>
-----------------------------------------------------------------------------
(* The window *)

\* The container must run and its configuration have no maintenance section.
RefuseTarget(c) ==
    /\ up /\ pc[c] = "target" /\ (mode = "down" \/ config.ro) /\ Ends(c)
    /\ UNCHANGED <<registry, file, up, blocked, recent, opts, done, wanted, budget>>

\* Fault: the window is recorded after the registry was made read-only.
RecordNothing(c) ==
    /\ up /\ mode # "down" /\ ~config.ro
    /\ Move(c, "target", "apply")
    /\ UNCHANGED <<registry, file, memory, opts, done, wanted, budget>>
\* writeMaintenanceState: the original configuration, before anything changes.
RecordWindow(c) ==
    /\ up /\ mode # "down" /\ ~config.ro
    /\ file' = config.base
    /\ Move(c, "target", "apply")
    /\ UNCHANGED <<registry, memory, opts, done, wanted, budget>>

ApplyReadOnly(c) ==
    /\ up /\ mode # "down"
    /\ config' = RegistryReadOnlyConfig
    /\ Move(c, "apply", "restart")
    /\ UNCHANGED <<mode, gc, file, memory, opts, done, wanted, budget>>

RestartReadOnly(c) ==
    /\ up /\ Restarted
    /\ Move(c, "restart", "verify")
    /\ UNCHANGED <<config, file, memory, opts, done, wanted, budget>>

AfterVerify(c) == IF "retention" \in opts[c] THEN "retain" ELSE "collect"

\* Fault: a registry that still accepts writes is not refused.
VerifyNothing(c) ==
    /\ up
    /\ Move(c, "verify", AfterVerify(c))
    /\ UNCHANGED <<registry, file, memory, opts, done, wanted, budget>>
\* verifyRegistryReadOnly
VerifyReadOnly(c) ==
    /\ up /\ mode = "ro"
    /\ Move(c, "verify", AfterVerify(c))
    /\ UNCHANGED <<registry, file, memory, opts, done, wanted, budget>>

\* retainVersionsLocked (RegistryRetention)
Retain(c) ==
    /\ up /\ mode # "down"
    /\ done' = [done EXCEPT ![c] = @ \cup {"retention"}]
    /\ Move(c, "retain", IF "gc" \in opts[c] THEN "collect" ELSE "undo")
    /\ UNCHANGED <<registry, file, memory, opts, wanted, budget>>

\* docker exec starts the collector; it does not end with its client.
GarbageCollect(c) ==
    /\ up /\ mode # "down" /\ gc' = TRUE
    /\ Move(c, "collect", "collecting")
    /\ UNCHANGED <<config, mode, file, memory, opts, done, wanted, budget>>

Collected(c) ==
    /\ up /\ gc /\ gc' = FALSE
    /\ done' = [done EXCEPT ![c] = @ \cup {"gc"}]
    /\ Move(c, "collecting", "undo")
    /\ UNCHANGED <<config, mode, file, memory, opts, wanted, budget>>

\* The container was restarted under the collector: the exec fails.
CollectorGone(c) ==
    /\ up /\ ~gc /\ Move(c, "collecting", "kill")
    /\ UNCHANGED <<registry, file, memory, opts, done, wanted, budget>>

\* A step fails or its context ends; the deferred cleanup follows.
WindowFails(c) ==
    /\ up
    /\ \/ /\ pc[c] = "apply"
          /\ config' \in {config, RegistryReadOnlyConfig} /\ UNCHANGED <<mode, gc>>
       \/ pc[c] = "restart" /\ RestartFails
       \/ pc[c] \in {"verify", "retain", "collect", "collecting"} /\ UNCHANGED registry
    /\ pc' = [pc EXCEPT ![c] = IF pc[c] \in {"collect", "collecting"} THEN "kill" ELSE "undo"]
    /\ \/ Spend("fails")
       \/ (mode = "down" \/ (pc[c] = "verify" /\ mode # "ro")) /\ UNCHANGED <<budget, registry>>
    /\ UNCHANGED <<file, memory, opts, done, wanted>>
-----------------------------------------------------------------------------
(* restoreRegistryAfterMaintenance *)

TerminateGarbageCollector(c) ==
    /\ up /\ Restarted
    /\ Move(c, "kill", "undo")
    /\ UNCHANGED <<config, file, memory, opts, done, wanted, budget>>

RestoreConfig(c) ==
    /\ up /\ mode # "down" /\ config' = Original
    /\ Move(c, "undo", "restart2")
    /\ UNCHANGED <<mode, gc, file, memory, opts, done, wanted, budget>>

RestartWritable(c) ==
    /\ up /\ Restarted
    /\ Move(c, "restart2", "verify2")
    /\ UNCHANGED <<config, file, memory, opts, done, wanted, budget>>

\* Verified, the window is over and recorded; only a clean one clears the error.
Restored(c) ==
    /\ up /\ pc[c] = "verify2" /\ mode = "rw"
    /\ file' = None /\ Ends(c)
    /\ recent' = recent \cup done[c]
    /\ blocked' = (blocked /\ done[c] # opts[c])
    /\ UNCHANGED <<registry, up, opts, done, wanted, budget>>

\* Fault: a cleanup that fails is only logged.
NotBlocked == UNCHANGED blocked
SetMaintenanceError == blocked' = TRUE

RestoreFails(c) ==
    /\ up
    /\ \/ pc[c] \in {"kill", "restart2"} /\ RestartFails
       \/ pc[c] = "undo" /\ config' \in {config, Original} /\ UNCHANGED <<mode, gc>>
       \/ pc[c] = "verify2" /\ UNCHANGED registry
    /\ \/ Spend("fails")
       \/ /\ (pc[c] = "undo" /\ mode = "down") \/ (pc[c] = "verify2" /\ mode # "rw")
          /\ UNCHANGED <<budget, registry>>
    /\ SetMaintenanceError /\ Ends(c)
    /\ UNCHANGED <<file, up, recent, opts, done, wanted>>
-----------------------------------------------------------------------------
(* recoverRegistryMaintenanceLocked *)

RecoverRestart(c) ==
    /\ up /\ Restarted
    /\ Move(c, "rec_restart", "rec_config")
    /\ UNCHANGED <<config, file, memory, opts, done, wanted, budget>>

\* Fault: the original configuration is written whatever the file holds now.
OverwriteAny == config' = Original
RecoverKnown ==
    \/ config = RegistryReadOnlyConfig /\ config' = Original
    \/ config = Original /\ UNCHANGED config

RecoverConfig(c) ==
    /\ up /\ mode # "down" /\ RecoverKnown
    /\ Move(c, "rec_config", "rec_restart2")
    /\ UNCHANGED <<mode, gc, file, memory, opts, done, wanted, budget>>

RecoverRestartAgain(c) ==
    /\ up /\ Restarted
    /\ Move(c, "rec_restart2", "rec_verify")
    /\ UNCHANGED <<config, file, memory, opts, done, wanted, budget>>

\* ApplyMaintenance goes on with its window and keeps maintenanceErr.
Recovered(c) ==
    /\ up /\ pc[c] = "rec_verify" /\ mode = "rw"
    /\ file' = None
    /\ IF opts[c] = {} THEN Ends(c) /\ blocked' = FALSE
       ELSE pc' = [pc EXCEPT ![c] = "target"] /\ UNCHANGED <<holder, blocked>>
    /\ UNCHANGED <<registry, up, recent, opts, done, wanted, budget>>

RecoveryFails(c) ==
    /\ up
    /\ \/ pc[c] \in {"rec_restart", "rec_restart2"} /\ RestartFails /\ Spend("fails")
       \/ /\ pc[c] = "rec_config" /\ Spend("fails") /\ UNCHANGED <<mode, gc>>
          /\ config' \in {config, Original} /\ (config' # config => config.ro /\ config.base = file)
       \/ /\ pc[c] = "rec_config" /\ UNCHANGED <<registry, budget>>
          /\ mode = "down" \/ config \notin {Original, RegistryReadOnlyConfig}
       \/ /\ pc[c] = "rec_verify" /\ UNCHANGED registry
          /\ Spend("fails") \/ (mode # "rw" /\ UNCHANGED budget)
    /\ SetMaintenanceError /\ Ends(c)
    /\ UNCHANGED <<file, up, recent, opts, done, wanted>>
-----------------------------------------------------------------------------
(* The environment *)

\* The process ends anywhere; what it started inside the container goes on.
Crash ==
    /\ up /\ Spend("crashes")
    /\ up' = FALSE /\ blocked' = FALSE /\ holder' = None /\ recent' = {}
    /\ pc' = [c \in Clients |-> "idle"]
    /\ opts' = [c \in Clients |-> {}] /\ done' = [c \in Clients |-> {}]
    /\ UNCHANGED <<registry, file, wanted>>

\* main recovers an interrupted window, then serves and starts the worker.
Boot ==
    /\ ~up /\ up' = TRUE
    /\ pc' = [pc EXCEPT !["main"] = IF file = None THEN "idle" ELSE "rec_restart"]
    /\ holder' = IF file = None THEN None ELSE "main"
    /\ UNCHANGED <<registry, file, blocked, recent, opts, done, wanted, budget>>

\* A day passes since the last completed task.
DayPasses ==
    /\ recent # {} /\ recent' = {}
    /\ UNCHANGED <<registry, file, up, blocked, holder, window, wanted, budget>>

CollectorEnds ==
    /\ gc /\ \A c \in Clients : pc[c] # "collecting"
    /\ gc' = FALSE
    /\ UNCHANGED <<config, mode, file, memory, window, wanted, budget>>

\* An operator replaces the configuration; the container reads it on a restart.
EditConfig ==
    /\ EditDuring \/ holder = None
    /\ Spend("edits")
    /\ \E b \in Bases \ {config.base} : config' = [base |-> b, ro |-> FALSE] /\ wanted' = b
    /\ UNCHANGED <<mode, gc, file, memory, window>>

\* The Docker daemon restarts the container, or an operator does.
ContainerRestarts ==
    /\ Spend("restarts") /\ Restarted
    /\ UNCHANGED <<config, file, memory, window, wanted>>

Step(c) ==
    \/ TryLock(c) \/ LockToRecover(c)
    \/ RefuseTarget(c) \/ RecordWindow(c) \/ ApplyReadOnly(c) \/ RestartReadOnly(c)
    \/ VerifyReadOnly(c) \/ Retain(c) \/ GarbageCollect(c) \/ Collected(c) \/ CollectorGone(c)
    \/ TerminateGarbageCollector(c) \/ RestoreConfig(c) \/ RestartWritable(c) \/ Restored(c)
    \/ RecoverRestart(c) \/ RecoverConfig(c) \/ RecoverRestartAgain(c) \/ Recovered(c)
    \/ WindowFails(c) \/ RestoreFails(c) \/ RecoveryFails(c)

Next ==
    \/ StartManual \/ WorkerPass \/ Crash \/ Boot \/ DayPasses \/ CollectorEnds
    \/ EditConfig \/ ContainerRestarts
    \/ \E c \in Clients : Step(c)

\* Steps of a client end (every call has a deadline), the process is restarted
\* by its supervisor and the worker passes every hour.
Fairness == WF_vars(Boot) /\ WF_vars(WorkerPass) /\ \A c \in Clients : WF_vars(Step(c))

Spec == Init /\ [][Next]_vars
FairSpec == Spec /\ Fairness
-----------------------------------------------------------------------------
(* Properties *)

\* The collector never runs beside a registry that accepts pushes: it would
\* remove blobs of an image that is just being uploaded.
GCReadOnly == gc => mode # "rw"

\* Whenever the registry is read-only, or will be after its next start, the
\* state file says how to undo it: a crash can leave nothing unrecorded.
ReadOnlyIsRecorded == (mode = "ro" \/ config.ro) => file # None

\* A window that could not be undone blocks the next one ("maintenance actions
\* stay blocked and the Registry page reports the problem").
LeftWindowIsBlocked == up /\ holder = None /\ file # None => blocked

\* What the operator wrote last is never replaced by an older configuration.
EditsKept == config.base = wanted

\* A scheduled window does not repeat within a day what a window, manual or
\* scheduled, completed ("each due at most once every 24 hours").
NotRepeated ==
    \A t \in Tasks : t \in done'["worker"] /\ t \notin done["worker"] => t \notin recent

OncePerDay == [][NotRepeated]_vars
-----------------------------------------------------------------------------
(* The inductive invariant *)

BudgetOK == budget \in [{"fails", "crashes", "edits", "restarts"} -> Int]

\* Who holds the lock is in a window or a recovery; without a process nobody is.
LockTaken ==
    /\ holder # None => pc[holder] \in Windowed \cup Recovering
    /\ ~up => ~blocked /\ \A c \in Clients : pc[c] = "idle" /\ opts[c] = {}

\* From its record to its end a window is on file, its base the operator's.
WindowOnFile ==
    \A c \in Clients : /\ pc[c] = "target" => file = None
                       /\ pc[c] \in (Windowed \ {"target"}) \cup Recovering => file # None
                       /\ ~EditDuring /\ pc[c] \in Windowed \ {"target"} => config.base = file

\* Once the original is written again, the next start is writable.
UndoneIsWritable ==
    \A c \in Clients :
        pc[c] \in {"restart2", "verify2", "rec_restart2", "rec_verify"} => ~config.ro

\* Read-only once verified; without an edit also after a restart.
ReadOnlyWhileOpen ==
    /\ gc => mode = "ro"
    /\ Restarts = 0 => budget["restarts"] = 0
    /\ \A c \in Clients :
         /\ pc[c] \in {"retain", "collect"} => mode = "ro"
         /\ ~EditDuring /\ pc[c] \in {"restart", "verify", "retain", "collect"} => config.ro

\* The holder does what it was asked for, the worker what is due.
AskedAndDue ==
    \A c \in Clients :
        /\ holder = c /\ opts[c] # {} => done[c] \subseteq opts[c]
        /\ pc[c] \in Windowed => opts[c] # {}
        /\ pc[c] = "retain" => "retention" \in opts[c]
        /\ pc[c] \in {"collect", "collecting"} => "gc" \in opts[c]
        /\ holder = "worker" => opts["worker"] \cap recent = {}

IInv ==
    /\ TypeOK /\ BudgetOK /\ LockTaken /\ WindowOnFile /\ UndoneIsWritable
    /\ ReadOnlyIsRecorded /\ LeftWindowIsBlocked /\ AskedAndDue
    /\ ~EditDuring => EditsKept
    /\ ~EditDuring \/ Restarts = 0 => ReadOnlyWhileOpen
=============================================================================
