------------------------- MODULE ApplicationLifecycle -------------------------
(***************************************************************************)
(* Creating, cloning, renaming and deleting an application                 *)
(* (internal/service/applications.go, applications_clone.go).  One         *)
(* operation changes SQLite, a directory, Docker, the systemd timers and   *)
(* the proxy in turn.  Creation and cloning undo what they did when a step *)
(* fails; deletion records a durable intent, checkpoints every stage and   *)
(* is resumed by the next request.  The manager may die between any two    *)
(* steps.  Leases of the project locks are taken as one step (ProjectLocks *)
(* shows that they exclude); the locks are "application:<id>" and          *)
(* "application-folder:<name>".                                            *)
(***************************************************************************)
EXTENDS Integers, Sequences

CONSTANTS Requests,     \* HTTP requests and the jobs they start
          Folders,      \* folder names
          MaxId,        \* the AUTOINCREMENT identifiers the run may use
          MaxCrashes,   \* bound: deaths of the manager
          MaxFailures,  \* bound: steps that report an error
          None

Ids == 1 .. MaxId
Pending == 0  \* the owner of a directory whose application has no row yet
AppKey(i) == <<"application", i>>
FolderKey(f) == <<"application-folder", f>>
Keys == {AppKey(i) : i \in Ids} \cup {FolderKey(f) : f \in Folders}

Stages == <<"schedules", "resources", "metadata", "routing", "folder", "complete">>
StageNames == {Stages[n] : n \in 1 .. Len(Stages)}
Rank(s) == CHOOSE n \in 1 .. Len(Stages) : Stages[n] = s

VARIABLES rows,        \* applications: id -> folder, or None
          nextId,      \* the next identifier SQLite hands out
          services,    \* the applications with a database service row
          routes,      \* the applications with a routing row
          intents,     \* application_deletion_intents: id -> record, or None
          lease,       \* backup_leases: id -> who holds the service's lease
          dirs,        \* folder -> the application it was made for, Pending, or None
          containers,  \* the applications with a container
          caddy,       \* the applications the running proxy serves
          timers,      \* the applications with an enabled backup timer
          locks,       \* project lock key -> holder
          pc, op,      \* request -> step and arguments
          crashes, failures

database == <<rows, nextId, services, routes, intents, lease>>
outside == <<dirs, containers, caddy, timers>>
vars == <<database, outside, locks, pc, op, crashes, failures>>

Idle == [kind |-> "none", id |-> None, folder |-> None, source |-> None]
Intent(f) == [folder |-> f, stage |-> "schedules", state |-> "running"]

TypeOK ==
    /\ rows \in [Ids -> Folders \cup {None}]
    /\ nextId \in 1 .. MaxId + 1
    /\ services \in SUBSET Ids /\ routes \in SUBSET Ids
    /\ \A i \in Ids : intents[i] # None =>
         intents[i] \in [folder : Folders, stage : StageNames,
                         state : {"running", "failed", "complete"}]
    /\ lease \in [Ids -> {"free", "backup", "deletion", "dead"}]
    /\ dirs \in [Folders -> Ids \cup {Pending, None}]
    /\ containers \in SUBSET Ids /\ caddy \in SUBSET Ids /\ timers \in SUBSET Ids
    /\ locks \in [Keys -> Requests \cup {None}]

\* None is none of the values it stands beside.
ConstantsOK ==
    /\ Folders # {} /\ MaxId \in Nat \ {0}
    /\ None \notin Requests \cup Folders /\ None \notin 0 .. MaxId
    /\ None \notin [folder : Folders, stage : StageNames, state : {"running", "failed", "complete"}]

\* An installation with one application, its service published and scheduled.
Init ==
    /\ rows = [i \in Ids |-> IF i = 1 THEN CHOOSE f \in Folders : TRUE ELSE None]
    /\ nextId = 2
    /\ services = {1} /\ routes = {1}
    /\ intents = [i \in Ids |-> None]
    /\ lease = [i \in Ids |-> "free"]
    /\ dirs = [f \in Folders |-> IF f = rows[1] THEN 1 ELSE None]
    /\ containers = {1} /\ caddy = {1} /\ timers = {1}
    /\ locks = [k \in Keys |-> None]
    /\ pc = [r \in Requests |-> "idle"]
    /\ op = [r \in Requests |-> Idle]
    /\ crashes = 0 /\ failures = 0

-----------------------------------------------------------------------------
(* What the store answers and writes.                                      *)

Registered(i) == rows[i] # None

\* Mutant: the reservation of a folder ends with the application's row.
FolderReservedByRow(f) ==
    \E i \in Ids : intents[i] # None /\ intents[i].folder = f
                   /\ intents[i].state # "complete" /\ Registered(i)

\* IsApplicationFolderDeletionActive: an incomplete tombstone keeps the name.
FolderReserved(f) ==
    \E i \in Ids : intents[i] # None /\ intents[i].folder = f
                   /\ intents[i].state # "complete"

\* IsApplicationDeletionActive.
DeletionActive(i) == intents[i] # None /\ intents[i].state # "complete"

\* Store.Create: names and folders are unique, identifiers are never reused.
InsertApplication(i, f) ==
    /\ i = nextId /\ i \in Ids
    /\ \A j \in Ids : rows[j] # f
    /\ rows' = [rows EXCEPT ![i] = f]
    /\ nextId' = nextId + 1

\* ... or refuses: ErrAlreadyExists (or the run's identifiers are used up).
RowRefused(f) == nextId \notin Ids \/ \E j \in Ids : rows[j] = f

\* Store.DeleteApplication: services, routings, leases go by cascade.
DeleteRow(i) ==
    /\ rows' = [rows EXCEPT ![i] = None]
    /\ services' = services \ {i}
    /\ routes' = routes \ {i}
    /\ lease' = [lease EXCEPT ![i] = "free"]

\* Mutant: stage and state change places in the statement.
CheckpointedSwapped(i, stage, state) ==
    [intents EXCEPT ![i].stage = state, ![i].state = stage]

\* UpdateApplicationDeletion.
Checkpointed(i, stage, state) ==
    [intents EXCEPT ![i].stage = stage, ![i].state = state]

-----------------------------------------------------------------------------
(* Requests: steps, locks, ends.                                           *)

At(r, step) == pc[r] = step
Go(r, step) == pc' = [pc EXCEPT ![r] = step]
Held(r) == {k \in Keys : locks[k] = r}
Freed(r) == [k \in Keys |-> IF locks[k] = r THEN None ELSE locks[k]]
Fails == failures < MaxFailures /\ failures' = failures + 1
Succeeds == UNCHANGED failures

\* The deferred releases of a handler that returns.
Return(r) == Go(r, "idle") /\ locks' = Freed(r) /\ op' = [op EXCEPT ![r] = Idle]

TakeLock(r, k, from, to) ==
    /\ At(r, from)
    /\ locks[k] = None
    /\ locks' = [locks EXCEPT ![k] = r]
    /\ Go(r, to)
    /\ UNCHANGED <<database, outside, op, crashes, failures>>

\* A validated request is admitted when it gets its first lock.
Begin(r, o, k, to) ==
    /\ At(r, "idle")
    /\ locks[k] = None
    /\ locks' = [locks EXCEPT ![k] = r]
    /\ op' = [op EXCEPT ![r] = o]
    /\ Go(r, to)
    /\ UNCHANGED <<database, outside, crashes, failures>>

CreateApplication(r) ==
    \E f \in Folders :
        Begin(r, [Idle EXCEPT !.kind = "create", !.folder = f], FolderKey(f), "create_check")

CloneApplication(r) ==
    \E f \in Folders, i \in Ids :
        Begin(r, [Idle EXCEPT !.kind = "clone", !.folder = f, !.source = i],
              FolderKey(f), "clone_reserved")

\* deleteApplication: the row, or the tombstone once the row is gone.
DeleteApplication(r) ==
    \E i \in Ids :
        /\ Registered(i) \/ intents[i] # None
        /\ Begin(r, [Idle EXCEPT !.kind = "delete", !.id = i], AppKey(i), "delete_begin")

-----------------------------------------------------------------------------
(* Create.                                                                 *)

\* ensureFolderNotReserved, Lstat and Mkdir; each refusal returns.
CreateCheck(r) ==
    /\ At(r, "create_check")
    /\ IF FolderReserved(op[r].folder) \/ dirs[op[r].folder] # None
         THEN Return(r) /\ UNCHANGED dirs
         ELSE /\ dirs' = [dirs EXCEPT ![op[r].folder] = Pending]
              /\ Go(r, "create_row") /\ UNCHANGED <<locks, op>>
    /\ UNCHANGED <<database, containers, caddy, timers, crashes, failures>>

\* The files are written and the row inserted: the application exists.
CreateRow(r) ==
    /\ At(r, "create_row")
    /\ InsertApplication(nextId, op[r].folder)
    /\ dirs' = [dirs EXCEPT ![op[r].folder] = nextId]
    /\ Return(r)
    /\ UNCHANGED <<services, routes, intents, lease, containers, caddy, timers, crashes, failures>>

\* A file, or the row (its name is taken), cannot be written: the deferred
\* function removes what this operation made.
CreateUndo(r) ==
    /\ At(r, "create_row")
    /\ Fails \/ (RowRefused(op[r].folder) /\ Succeeds)
    /\ dirs' = [dirs EXCEPT ![op[r].folder] = None]
    /\ Return(r)
    /\ UNCHANGED <<database, containers, caddy, timers, crashes>>

\* RenameApplication: the name only; no lock is taken and no folder changes,
\* so that no variable of this model changes either.

-----------------------------------------------------------------------------
(* Clone: the folder's lock first, the source's lock second.               *)

CloneReserved(r) ==
    /\ At(r, "clone_reserved")
    /\ IF FolderReserved(op[r].folder)
         THEN Return(r)
         ELSE Go(r, "clone_source") /\ UNCHANGED <<locks, op>>
    /\ UNCHANGED <<database, outside, crashes, failures>>

CloneSource(r) == TakeLock(r, AppKey(op[r].source), "clone_source", "clone_check")

\* The request's context ends while it waits for the source.
CloneCancelled(r) ==
    /\ At(r, "clone_source")
    /\ Return(r)
    /\ UNCHANGED <<database, outside, crashes, failures>>

\* The source is registered, not being deleted and has its directory; the
\* destination has none yet.
CloneCheck(r) ==
    LET s == op[r].source IN
    /\ At(r, "clone_check")
    /\ IF Registered(s) /\ ~DeletionActive(s) /\ dirs[rows[s]] # None
          /\ dirs[op[r].folder] = None
         THEN /\ dirs' = [dirs EXCEPT ![op[r].folder] = Pending]
              /\ Go(r, "clone_row") /\ UNCHANGED <<locks, op>>
         ELSE Return(r) /\ UNCHANGED dirs
    /\ UNCHANGED <<database, containers, caddy, timers, crashes, failures>>

CloneRow(r) ==
    /\ At(r, "clone_row")
    /\ InsertApplication(nextId, op[r].folder)
    /\ dirs' = [dirs EXCEPT ![op[r].folder] = nextId]
    /\ op' = [op EXCEPT ![r].id = nextId]
    /\ Go(r, "clone_contents")
    /\ UNCHANGED <<services, routes, intents, lease, containers, caddy, timers, locks, crashes, failures>>

\* Compose file, environment files, service rows and domains; no routing.
CloneContents(r) ==
    /\ At(r, "clone_contents")
    /\ services' = IF op[r].source \in services /\ Registered(op[r].id)
                     THEN services \cup {op[r].id} ELSE services
    /\ Go(r, "clone_validate")
    /\ UNCHANGED <<rows, nextId, routes, intents, lease, outside, locks, op, crashes, failures>>

\* validateStagedCompose accepts: the clone is committed, stopped.
CloneCommit(r) ==
    /\ At(r, "clone_validate")
    /\ Return(r)
    /\ UNCHANGED <<database, outside, crashes, failures>>

\* Mutant: the compensation forgets the row.
CloneUndoKeepingRow(r) ==
    /\ pc[r] \in {"clone_row", "clone_contents", "clone_validate"}
    /\ Fails \/ (At(r, "clone_row") /\ RowRefused(op[r].folder) /\ Succeeds)
    /\ dirs' = [dirs EXCEPT ![op[r].folder] = None]
    /\ Return(r)
    /\ UNCHANGED <<database, containers, caddy, timers, crashes>>

\* Any step fails: services, domains and the row go, then the directory.
CloneUndo(r) ==
    /\ pc[r] \in {"clone_row", "clone_contents", "clone_validate"}
    /\ Fails \/ (At(r, "clone_row") /\ RowRefused(op[r].folder) /\ Succeeds)
    /\ IF op[r].id = None
         THEN UNCHANGED database
         ELSE DeleteRow(op[r].id) /\ UNCHANGED <<nextId, intents>>
    /\ dirs' = [dirs EXCEPT ![op[r].folder] = None]
    /\ Return(r)
    /\ UNCHANGED <<containers, caddy, timers, crashes>>

-----------------------------------------------------------------------------
(* Delete: the application's lock, the intent, the folder's lock, the      *)
(* backup leases, and then the stages from the last checkpoint on.         *)

\* Get, and BeginApplicationDeletion when the row is still there; a completed
\* intent ends the request.
DeleteBegin(r) ==
    LET i == op[r].id IN
    /\ At(r, "delete_begin")
    /\ \/ /\ ~Registered(i) /\ intents[i] = None
          /\ Return(r) /\ UNCHANGED intents
       \/ /\ intents[i] # None /\ intents[i].state = "complete"
          /\ Return(r) /\ UNCHANGED intents
       \/ /\ Registered(i) \/ intents[i] # None
          /\ intents[i] # None => intents[i].state # "complete"
          /\ intents' = IF intents[i] = None
                          THEN [intents EXCEPT ![i] = Intent(rows[i])] ELSE intents
          /\ op' = [op EXCEPT ![r].folder = intents'[i].folder]
          /\ Go(r, "delete_folder") /\ UNCHANGED locks
    /\ UNCHANGED <<rows, nextId, services, routes, lease, outside, crashes, failures>>

DeleteFolderLock(r) == TakeLock(r, FolderKey(op[r].folder), "delete_folder", "delete_leases")

\* The tracked job's deadline ends a deletion that waits for the folder.
DeleteDeadline(r) ==
    /\ At(r, "delete_folder")
    /\ Return(r)
    /\ UNCHANGED <<database, outside, crashes, failures>>

Stage(r) == intents[op[r].id].stage

\* Mutant: a refused lease is checkpointed as the first stage.
FailedAtStart(r) == Checkpointed(op[r].id, "schedules", "failed")

\* failApplicationDeletion at the intent's own stage.
FailedAt(r) == Checkpointed(op[r].id, Stage(r), "failed")

\* AcquireBackupLease for the service: an expired row is reclaimed.
LeaseFree(i) == lease[i] = "free"

\* acquireApplicationBackupLeases.
LeaseAvailable(i) == i \notin services \/ LeaseFree(i)

\* Mutant: the stages begin without the lease.
DeleteWithoutLeases(r) ==
    /\ At(r, "delete_leases") /\ Go(r, "delete_stage")
    /\ UNCHANGED <<database, outside, locks, op, crashes, failures>>

\* Every service's lease, or the attempt fails at the intent's stage.
DeleteLeases(r) ==
    LET i == op[r].id IN
    /\ At(r, "delete_leases")
    /\ IF LeaseAvailable(i)
         THEN /\ lease' = IF i \in services THEN [lease EXCEPT ![i] = "deletion"] ELSE lease
              /\ Go(r, "delete_stage") /\ UNCHANGED <<intents, locks, op>>
         ELSE intents' = FailedAt(r) /\ Return(r) /\ UNCHANGED lease
    /\ UNCHANGED <<rows, nextId, services, routes, outside, crashes, failures>>

\* leases.release and the deferred releases.
DeleteReturn(r) ==
    /\ Return(r)
    /\ lease' = [i \in Ids |-> IF i = op[r].id /\ lease[i] = "deletion" THEN "free" ELSE lease[i]]

\* verifyApplicationFolderOwnership: another application claims the folder.
FolderClaimed(r) == \E j \in Ids \ {op[r].id} : rows[j] = op[r].folder

\* A stage's work reports an error: the checkpoint says failed and a retry
\* starts at the same stage.
DeleteFail(r) ==
    /\ At(r, "delete_stage") /\ Stage(r) # "complete"
    /\ Fails \/ (Stage(r) = "folder" /\ FolderClaimed(r) /\ Succeeds)
    /\ intents' = FailedAt(r)
    /\ DeleteReturn(r)
    /\ UNCHANGED <<rows, nextId, services, routes, outside, crashes>>

\* A stage is done; its checkpoint is the next step.
Work(r, stage) == At(r, "delete_stage") /\ Stage(r) = stage /\ Go(r, "delete_checkpoint")

\* DisableApplicationSchedules.
DeleteSchedules(r) ==
    /\ Work(r, "schedules")
    /\ timers' = timers \ {op[r].id}
    /\ UNCHANGED <<database, dirs, containers, caddy, locks, op, crashes, failures>>

\* docker compose down in the application's directory, if there is one.
DeleteResources(r) ==
    /\ Work(r, "resources")
    /\ containers' = IF dirs[op[r].folder] = None THEN containers ELSE containers \ {op[r].id}
    /\ UNCHANGED <<database, dirs, caddy, timers, locks, op, crashes, failures>>

DeleteMetadata(r) ==
    /\ Work(r, "metadata")
    /\ DeleteRow(op[r].id)
    /\ UNCHANGED <<nextId, intents, outside, locks, op, crashes, failures>>

\* Mutant: the proxy is reloaded only when the application still has routings.
ProxyAfterDeletionIfRouted(r) == IF op[r].id \in routes THEN routes ELSE caddy

\* refreshProxyAfterApplicationDeletion: the proxy serves the remaining rows.
ProxyAfterDeletion(r) == routes

DeleteRouting(r) ==
    /\ Work(r, "routing")
    /\ caddy' = ProxyAfterDeletion(r)
    /\ UNCHANGED <<database, dirs, containers, timers, locks, op, crashes, failures>>

\* RemoveAll; a missing directory is no error.
DeleteFolder(r) ==
    /\ Work(r, "folder") /\ ~FolderClaimed(r)
    /\ dirs' = [dirs EXCEPT ![op[r].folder] = None]
    /\ UNCHANGED <<database, containers, caddy, timers, locks, op, crashes, failures>>

\* checkpointApplicationDeletion: the next stage, or the completed tombstone.
DeleteCheckpoint(r) ==
    LET next == Stages[Rank(Stage(r)) + 1] IN
    /\ At(r, "delete_checkpoint")
    /\ IF next = "complete"
         THEN intents' = Checkpointed(op[r].id, next, "complete") /\ DeleteReturn(r)
         ELSE /\ intents' = Checkpointed(op[r].id, next, "running")
              /\ Go(r, "delete_stage") /\ UNCHANGED <<locks, op, lease>>
    /\ UNCHANGED <<rows, nextId, services, routes, outside, crashes, failures>>

\* The checkpoint itself cannot be written: the stage is repeated later.
DeleteCheckpointFails(r) ==
    /\ At(r, "delete_checkpoint")
    /\ Fails
    /\ DeleteReturn(r)
    /\ UNCHANGED <<rows, nextId, services, routes, intents, outside, crashes>>

-----------------------------------------------------------------------------
(* What the rest of the manager does to an application.  Each of these     *)
(* holds the application's lock throughout.                                *)

Usable(i) == Registered(i) /\ locks[AppKey(i)] = None /\ dirs[rows[i]] # None

\* StartService, RestartService: no check for a deletion that has begun.
StartService(i) ==
    /\ Usable(i) /\ i \in services
    /\ containers' = containers \cup {i}
    /\ UNCHANGED <<database, dirs, caddy, timers, locks, pc, op, crashes, failures>>

\* CreateRouting: the row and the proxy.
CreateRouting(i) ==
    /\ Usable(i) /\ i \in services
    /\ routes' = routes \cup {i}
    /\ caddy' = routes'
    /\ UNCHANGED <<rows, nextId, services, intents, lease, dirs, containers, timers, locks, pc, op, crashes, failures>>

\* SaveSchedule refuses an application that is being deleted.
SaveSchedule(i) ==
    /\ Registered(i) /\ i \in services /\ lease[i] = "free" /\ ~DeletionActive(i)
    /\ timers' = timers \cup {i}
    /\ UNCHANGED <<database, dirs, containers, caddy, locks, pc, op, crashes, failures>>

\* A backup runs under the service's lease, here or in a systemd unit.
BackupBegin(i) ==
    /\ Registered(i) /\ i \in services /\ lease[i] = "free" /\ ~DeletionActive(i)
    /\ lease' = [lease EXCEPT ![i] = "backup"]
    /\ UNCHANGED <<rows, nextId, services, routes, intents, outside, locks, pc, op, crashes, failures>>

BackupEnd(i) ==
    /\ lease[i] = "backup"
    /\ lease' = [lease EXCEPT ![i] = "free"]
    /\ UNCHANGED <<rows, nextId, services, routes, intents, outside, locks, pc, op, crashes, failures>>

\* The lease of a dead process passes its thirty minutes.
LeaseExpires(i) ==
    /\ lease[i] = "dead"
    /\ lease' = [lease EXCEPT ![i] = "free"]
    /\ UNCHANGED <<rows, nextId, services, routes, intents, outside, locks, pc, op, crashes, failures>>

\* The manager dies: locks and requests are gone, its lease rows stay.
Crash ==
    /\ crashes < MaxCrashes
    /\ crashes' = crashes + 1
    /\ locks' = [k \in Keys |-> None]
    /\ pc' = [r \in Requests |-> "idle"]
    /\ op' = [r \in Requests |-> Idle]
    /\ lease' = [i \in Ids |-> IF lease[i] = "deletion" THEN "dead" ELSE lease[i]]
    /\ UNCHANGED <<rows, nextId, services, routes, intents, outside, failures>>

CreateStep(r) == CreateCheck(r) \/ CreateRow(r) \/ CreateUndo(r)
CloneStep(r) ==
    \/ CloneReserved(r) \/ CloneSource(r) \/ CloneCheck(r)
    \/ CloneRow(r) \/ CloneContents(r) \/ CloneCommit(r) \/ CloneUndo(r)
DeleteStep(r) ==
    \/ DeleteBegin(r) \/ DeleteFolderLock(r) \/ DeleteLeases(r)
    \/ DeleteSchedules(r) \/ DeleteResources(r) \/ DeleteMetadata(r) \/ DeleteRouting(r)
    \/ DeleteFolder(r) \/ DeleteCheckpoint(r) \/ DeleteFail(r) \/ DeleteCheckpointFails(r)

Next ==
    \/ \E r \in Requests :
         \/ CreateApplication(r) \/ CloneApplication(r) \/ DeleteApplication(r)
         \/ CreateStep(r) \/ CloneStep(r) \/ DeleteStep(r)
         \/ CloneCancelled(r) \/ DeleteDeadline(r)
    \/ \E i \in Ids :
         \/ StartService(i) \/ CreateRouting(i) \/ SaveSchedule(i)
         \/ BackupBegin(i) \/ BackupEnd(i) \/ LeaseExpires(i)
    \/ Crash

Spec == Init /\ [][Next]_vars

\* The steps of an operation that is not waiting are taken; a deletion's wait
\* for the folder ends by the tracked job's deadline.  The context of a
\* clone's request has no deadline, so its cancellation is not assumed.
Fairness ==
    \A r \in Requests :
        /\ WF_vars(CreateStep(r)) /\ WF_vars(CloneStep(r)) /\ WF_vars(DeleteStep(r))
        /\ WF_vars(DeleteDeadline(r))
        /\ SF_vars(CloneSource(r))

-----------------------------------------------------------------------------
(* Properties.                                                             *)

\* Every registered application that is not being deleted has the directory
\* that was made for it, whatever failed or crashed between the directory and
\* the row (Create, CloneApplication and their compensations).
RegisteredHasFolder ==
    \A i \in Ids : Registered(i) /\ ~DeletionActive(i) => dirs[rows[i]] = i

\* A deletion reported complete left nothing behind: no row, no directory of
\* its own, no timer and no route in the running proxy, however often it was
\* interrupted and resumed (resumeApplicationDeletion).
CompleteIsClean ==
    \A i \in Ids : intents[i] # None /\ intents[i].state = "complete" =>
        /\ ~Registered(i)
        /\ \A f \in Folders : dirs[f] # i
        /\ i \notin timers
        /\ i \notin caddy

\* While a deletion works on an application no backup holds the lease of its
\* service (acquireApplicationBackupLeases).
DeletionExcludesBackup ==
    \A r \in Requests : pc[r] \in {"delete_stage", "delete_checkpoint"} =>
        lease[op[r].id] # "backup"

\* A directory goes away only in the folder stage of the application it was
\* made for, or by the operation that has just made it: a resumed deletion
\* never removes a replacement (README.md:594-595).
FolderOwned ==
    \A f \in Folders : dirs[f] # None /\ dirs'[f] # dirs[f] =>
      \/ dirs[f] # Pending /\ intents[dirs[f]] # None /\ intents[dirs[f]].stage = "folder"
      \/ \E r \in Requests : op[r].folder = f /\ op[r].kind \in {"create", "clone"}
OnlyOwnFolderRemoved == [][FolderOwned]_vars

\* A deletion only moves forward: no failure, refused lease or restart sends
\* the intent back to an earlier stage or reopens a completed one.
IntentsAdvance ==
    \A i \in Ids : intents[i] # None =>
      /\ intents'[i] # None
      /\ Rank(intents'[i].stage) >= Rank(intents[i].stage)
      /\ intents[i].state = "complete" => intents'[i] = intents[i]
StagesAdvance == [][IntentsAdvance]_vars

\* The comment of DeleteApplication: it "removes all containers and
\* Compose-managed resources for an application".
\* The code does not keep this: README, "Disagreements".
DeletedHasNoContainer ==
    \A i \in Ids : intents[i] # None /\ intents[i].state = "complete" => i \notin containers

=============================================================================
