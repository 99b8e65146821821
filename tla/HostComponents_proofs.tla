------------------------ MODULE HostComponents_proofs ------------------------
(***************************************************************************)
(* Four components that change the host beside the release update or let   *)
(* somebody in to do so: the accounts and sign-ins, whose module this one  *)
(* extends, the access-mode restart, the maintenance window of the         *)
(* registry and the SSH keys.  Each has its own variables; what is proved  *)
(* of one holds whatever the others do, for any values of its constants.   *)
(***************************************************************************)
EXTENDS Authentication, FiniteSetTheorems, TLAPS

CONSTANTS
  None,
  Modes, MaxOp, Faults, Updates, MaxDeaths,                  \* of the restart
  Bases, EditDuring, Fails, Crashes, Edits, Restarts,        \* of the window
  Procs, Unmanaged, MaxKeys, MaxEdits, MaxFaults, MaxLosses, \* of the keys
  WriteFaults

VARIABLES
  env, live, phase, lock, marker, recreator, change, queued, prune, nextOp, deaths,
  config, mode, gc, file, up, blocked, holder, recent, stage, opts, done, wanted, budget,
  rows, nextKey, lines, kept, revoked, keyMutex, proc, edits, faults, losses

Access == INSTANCE AccessRestart WITH
  helper <- recreator, req <- change, crashes <- deaths, MaxCrashes <- MaxDeaths

Maintenance == INSTANCE RegistryMaintenance WITH pc <- stage

Authorized == INSTANCE SSHKeys WITH
  next <- nextKey, mu <- keyMutex, wanted <- kept, crashes <- losses, MaxCrashes <- MaxLosses
-----------------------------------------------------------------------------
(* Who may replace the manager and what is left behind when somebody dies  *)
(* on the way, for any number of operations, any modes, and the faults an  *)
(* instance allows.                                                        *)

LEMMA RestartInitIInv == ASSUME Access!ConstantsOK, Access!Init PROVE Access!IInv
  <1> USE DEF Access!Init, Access!NoHelper, Access!NoRequest, Access!HelperRunning,
              Access!ConstantsOK
  <1>0. queued \in BOOLEAN
    OBVIOUS
  <1>1. Access!TypeOK
    BY <1>0 DEF Access!TypeOK
  <1>2. recreator \in [pc : Access!HelperPcs, op : 0..MaxOp, kind : {"restart", "update", None}]
    BY DEF Access!HelperPcs
  <1>3. change \in [pc : {"idle", "acquired", "saved", "marked"}, op : 0..MaxOp,
                mode : Modes \cup {None}, old : Modes \cup {None}]
    OBVIOUS
  <1>4. Access!HoldersWork /\ Access!HelperApart /\ Access!ModesAgree /\ Access!LocksOwned
    BY DEF Access!HoldersWork, Access!HelperApart, Access!ModesAgree, Access!LocksOwned
  <1> QED  BY <1>1, <1>2, <1>3, <1>4 DEF Access!IInv, Access!Typed

\* The steps of a request.
LEMMA RequestTyped ==
  ASSUME Access!ConstantsOK, Access!IInv,
         \/ \E m \in Modes : Access!QueueAccessMode(m)
         \/ Access!SaveEnvironment \/ Access!RefuseRequest \/ Access!WriteMarker
         \/ Access!RequestFails \/ Access!HandOver \/ Access!HandOverFails
  PROVE  Access!Typed' /\ Access!HoldersWork' /\ Access!HelperApart'
  <1> USE DEF Access!IInv, Access!Typed, Access!TypeOK, Access!HoldersWork,
              Access!HelperApart, Access!ConstantsOK, Access!Holds, Access!Owns,
              Access!HelperRunning, Access!Owners, Access!HelperPcs, Access!files,
              Access!manager
  <1>1. ASSUME NEW m \in Modes, Access!QueueAccessMode(m)
        PROVE Access!Typed' /\ Access!HoldersWork' /\ Access!HelperApart'
    BY <1>1 DEF Access!QueueAccessMode, Access!Acquire
  <1>2. CASE Access!SaveEnvironment
    BY <1>2 DEF Access!SaveEnvironment, Access!HelperAbsent, Access!NoHelper
  <1>3. CASE Access!RefuseRequest
    BY <1>3 DEF Access!RefuseRequest, Access!Released, Access!NoRequest
  <1>4. CASE Access!WriteMarker
    BY <1>4 DEF Access!WriteMarker
  <1>5. ASSUME change.pc \in {"saved", "marked"}, Access!Rollback, recreator' = recreator
        PROVE  Access!Typed' /\ Access!HoldersWork' /\ Access!HelperApart'
    BY <1>5 DEF Access!Rollback, Access!RollbackEnvironment, Access!Released, Access!NoRequest
  <1>6. ASSUME change.pc = "marked", ~Access!HelperRunning, change' = Access!NoRequest,
               recreator' \in {recreator, Access!HelperFor(change.op, "restart")},
               UNCHANGED <<live, phase, prune, nextOp, deaths>>,
               \/ UNCHANGED <<env, lock, marker>> /\ queued' = TRUE
               \/ lock' = None /\ marker' = None /\ env' \in Modes /\ queued' = queued
        PROVE  Access!Typed' /\ Access!HoldersWork' /\ Access!HelperApart'
    <2>1. queued' \in BOOLEAN
      <3>1. queued \in BOOLEAN /\ (queued' = TRUE \/ queued' = queued)
        BY <1>6
      <3> QED  BY ONLY <3>1
    <2>2. recreator' = recreator
          \/ recreator' = [pc |-> "start", op |-> change.op, kind |-> "restart"]
      BY <1>6 DEF Access!HelperFor
    <2>3. change.op = lock.op /\ change.op < nextOp
      BY <1>6
    <2>4. recreator' \in [pc : Access!HelperPcs, op : 0..MaxOp, kind : {"restart", "update", None}]
          /\ recreator'.op < nextOp
             /\ (recreator'.pc \in {"none", "exited"} \/ recreator'.pc = "start")
          /\ (recreator'.pc = "start" => recreator'.kind = "restart")
      BY <1>6, <2>2, <2>3
    <2>5. Access!Typed'
      BY <1>6, <2>1, <2>4 DEF Access!NoRequest
    <2>6. Access!HoldersWork'
      <3>1. prune = 0 /\ prune' = 0 /\ change'.pc = "idle"
        BY <1>6 DEF Access!NoRequest
      <3>2. ~(recreator'.kind = "update" /\ Access!HelperRunning') /\ recreator'.pc # "recreate"
        BY <2>4
      <3> QED  BY ONLY <3>1, <3>2 DEF Access!HoldersWork
    <2>7. Access!HelperApart'
      <3>1. change'.pc = "idle" /\ (Access!HelperRunning' => recreator'.kind = "restart")
            /\ recreator'.pc # "clear"
        BY <1>6, <2>4 DEF Access!NoRequest
      <3> QED  BY ONLY <3>1 DEF Access!HelperApart
    <2> QED  BY <2>5, <2>6, <2>7
  <1>7. CASE Access!HandOver
    BY <1>6, <1>7 DEF Access!HandOver
  <1>8. CASE Access!HandOverFails
    BY <1>6, <1>8 DEF Access!HandOverFails, Access!Rollback, Access!RollbackEnvironment,
                      Access!Released
  <1> QED  BY <1>1, <1>2, <1>3, <1>4, <1>5, <1>7, <1>8 DEF Access!RequestFails

\* The steps of the helper of a restart and of an update.
LEMMA HelperTyped ==
  ASSUME Access!ConstantsOK, Access!IInv,
         \/ Access!Validate \/ Access!BeginRecreate \/ Access!Recreate
            \/ Access!HelperReleases \/ Access!HelperClears
         \/ Access!HelperExits \/ Access!UpdateRecreates \/ Access!UpdateEnds
  PROVE  Access!Typed' /\ Access!HoldersWork' /\ Access!HelperApart'
  <1> USE DEF Access!IInv, Access!Typed, Access!TypeOK, Access!HoldersWork,
              Access!HelperApart, Access!ConstantsOK, Access!Holds, Access!Owns,
              Access!HelperRunning, Access!Owners,
              Access!HelperPcs, Access!files, Access!manager
  <1>1. ASSUME Access!HelperRunning, NEW at \in Access!HelperPcs,
        recreator' = [recreator EXCEPT !.pc = at],
               UNCHANGED <<Access!files, Access!manager, nextOp, deaths>>,
               \/ at \in {"delay", "exited"}
               \/ at = "recreate" /\ recreator.kind = "restart"
                  /\ Access!Holds(recreator.op, "management-access")
        PROVE  Access!Typed' /\ Access!HoldersWork' /\ Access!HelperApart'
    BY <1>1
  <1>2. CASE Access!Validate \/ Access!BeginRecreate \/ Access!HelperExits
    BY <1>1, <1>2 DEF Access!Validate, Access!BeginRecreate, Access!HelperExits,
                      Access!HelperStep, Access!ValidateOwnership, Access!OwnsOperation
  <1>3. CASE Access!Recreate \/ Access!UpdateRecreates
    <2>1. queued' \in BOOLEAN
      <3>1. queued' = FALSE
        BY <1>3 DEF Access!Recreate, Access!UpdateRecreates, Access!NewManager
      <3> QED  BY ONLY <3>1
    <2>2. recreator' = [recreator EXCEPT !.pc = "release"] /\ Access!HelperRunning
          /\ (recreator.kind = "update" => Access!Holds(recreator.op, "manager"))
      BY <1>3 DEF Access!Recreate, Access!UpdateRecreates, Access!HelperStep
    <2>3. live' = env /\ phase' = "starting" /\ change' = Access!NoRequest /\ prune' = 0
          /\ UNCHANGED <<env, lock, marker, nextOp>>
      BY <1>3 DEF Access!Recreate, Access!UpdateRecreates, Access!NewManager
    <2> QED  BY <2>1, <2>2, <2>3 DEF Access!NoRequest
  <1>4. CASE Access!HelperReleases
    BY <1>4 DEF Access!HelperReleases, Access!HelperStep, Access!OwnsOperation
  <1>5. CASE Access!HelperClears
    BY <1>5 DEF Access!HelperClears, Access!HelperStep
  <1>6. CASE Access!UpdateEnds
    BY <1>6 DEF Access!UpdateEnds, Access!Released
  <1> QED  BY <1>2, <1>3, <1>4, <1>5, <1>6

\* Prunes and updates that take the lock, the ends and starts of the manager,
\* and the operator who removes a lock.
LEMMA OtherTyped ==
  ASSUME Access!ConstantsOK, Access!IInv,
         \/ Access!StartPrune \/ Access!EndPrune \/ Access!StartUpdate
         \/ Access!Crash \/ Access!Boot \/ Access!StartupRestart \/ Access!StartupUpdate
            \/ Access!OperatorClears
  PROVE  Access!Typed' /\ Access!HoldersWork' /\ Access!HelperApart'
  <1> USE DEF Access!IInv, Access!Typed, Access!TypeOK, Access!HoldersWork,
              Access!HelperApart, Access!ConstantsOK, Access!Holds, Access!Owns,
              Access!HelperRunning, Access!Owners,
              Access!HelperPcs, Access!files, Access!manager
  <1>1. CASE Access!StartPrune
    BY <1>1 DEF Access!StartPrune, Access!Acquire
  <1>2. CASE Access!EndPrune
    BY <1>2 DEF Access!EndPrune, Access!Released
  <1>3. CASE Access!StartUpdate
    BY <1>3 DEF Access!StartUpdate, Access!Acquire, Access!HelperFor
  <1>4. CASE Access!Crash
    <2>1. queued' \in BOOLEAN
      <3>1. queued' = FALSE
        BY <1>4 DEF Access!Crash
      <3> QED  BY ONLY <3>1
    <2> QED  BY <1>4, <2>1 DEF Access!Crash, Access!NoRequest
  <1>5. CASE Access!Boot
    BY <1>5 DEF Access!Boot
  <1>6. CASE Access!StartupRestart
    BY <1>6 DEF Access!StartupRestart, Access!ReconcileManagementRestart,
                Access!RequestedModeRuns
  <1>7. CASE Access!StartupUpdate
    BY <1>7 DEF Access!StartupUpdate, Access!ReconcileUpdateState
  <1>8. CASE Access!OperatorClears
    BY <1>8 DEF Access!OperatorClears
  <1> QED  BY <1>1, <1>2, <1>3, <1>4, <1>5, <1>6, <1>7, <1>8
-----------------------------------------------------------------------------
(* .env and the container.                                                 *)

\* While nobody but the code removes locks and no request dies with its
\* process, every step keeps .env, container, marker and lock in agreement.
LEMMA StepModes ==
  ASSUME Access!ConstantsOK, Access!IInv, Access!Next,
         {"crash_request", "operator"} \cap Faults = {} PROVE Access!ModesAgree'
  <1> USE DEF Access!Typed, Access!TypeOK, Access!HoldersWork, Access!HelperApart,
              Access!ModesAgree, Access!Explained, Access!Holds, Access!Owns,
              Access!HelperRunning,
              Access!files, Access!manager
  <1>0. Access!Typed /\ Access!HoldersWork /\ Access!HelperApart /\ Access!ModesAgree
        /\ ~Access!May("crash_request") /\ ~Access!May("operator")
    BY DEF Access!IInv, Access!May
  <1>1. ASSUME NEW m \in Modes, Access!QueueAccessMode(m) PROVE Access!ModesAgree'
    BY ONLY <1>0, <1>1 DEF Access!QueueAccessMode, Access!Acquire
  <1>2. CASE Access!SaveEnvironment
    BY ONLY <1>0, <1>2 DEF Access!SaveEnvironment, Access!HelperAbsent, Access!NoHelper
  <1>3. CASE Access!RefuseRequest
    BY ONLY <1>0, <1>3 DEF Access!RefuseRequest, Access!Released, Access!NoRequest
  <1>4. CASE Access!WriteMarker
    BY ONLY <1>0, <1>4 DEF Access!WriteMarker
  <1>5. CASE Access!RequestFails
    BY ONLY <1>0, <1>5 DEF Access!RequestFails, Access!Rollback, Access!RollbackEnvironment,
                           Access!Released, Access!NoRequest
  <1>6. CASE Access!HandOver
    BY ONLY <1>0, <1>6 DEF Access!HandOver, Access!NoRequest, Access!HelperFor
  <1>7. CASE Access!HandOverFails
    BY ONLY <1>0, <1>7 DEF Access!HandOverFails, Access!Rollback, Access!RollbackEnvironment,
                           Access!Released, Access!NoRequest, Access!HelperFor
  <1>8. CASE Access!Validate
    BY ONLY <1>0, <1>8 DEF Access!Validate, Access!HelperStep
  <1>9. CASE Access!BeginRecreate
    BY ONLY <1>0, <1>9 DEF Access!BeginRecreate, Access!HelperStep
  <1>10. CASE Access!Recreate
    BY ONLY <1>0, <1>10 DEF Access!Recreate, Access!NewManager, Access!NoRequest,
                            Access!HelperStep
  <1>11. CASE Access!HelperReleases
    BY ONLY <1>0, <1>11 DEF Access!HelperReleases, Access!HelperStep, Access!OwnsOperation
  <1>12. CASE Access!HelperClears
    BY ONLY <1>0, <1>12 DEF Access!HelperClears, Access!HelperStep
  <1>13. CASE Access!HelperExits
    BY ONLY <1>0, <1>13 DEF Access!HelperExits
  <1>14. CASE Access!StartPrune \/ Access!EndPrune
    BY ONLY <1>0, <1>14 DEF Access!StartPrune, Access!Acquire, Access!EndPrune, Access!Released
  <1>15. CASE Access!StartUpdate
    BY ONLY <1>0, <1>15 DEF Access!StartUpdate, Access!Acquire, Access!HelperFor
  <1>16. CASE Access!UpdateRecreates
    BY ONLY <1>0, <1>16 DEF Access!UpdateRecreates, Access!NewManager, Access!NoRequest
  <1>17. CASE Access!UpdateEnds
    BY ONLY <1>0, <1>17 DEF Access!UpdateEnds, Access!Released
  <1>18. CASE Access!Crash
    BY ONLY <1>0, <1>18 DEF Access!Crash, Access!NoRequest
  <1>19. CASE Access!Boot
    BY ONLY <1>0, <1>19 DEF Access!Boot
  <1>20. CASE Access!StartupRestart
    BY ONLY <1>0, <1>20 DEF Access!StartupRestart, Access!ReconcileManagementRestart,
                            Access!RequestedModeRuns
  <1>21. CASE Access!StartupUpdate
    BY ONLY <1>0, <1>21 DEF Access!StartupUpdate, Access!ReconcileUpdateState
  <1>22. CASE Access!OperatorClears
    BY ONLY <1>0, <1>22 DEF Access!OperatorClears
  <1> QED
    BY ONLY Access!Next, <1>1, <1>2, <1>3, <1>4, <1>5, <1>6, <1>7, <1>8, <1>9, <1>10, <1>11,
       <1>12, <1>13, <1>14,
         <1>15, <1>16, <1>17, <1>18, <1>19, <1>20, <1>21, <1>22 DEF Access!Next
-----------------------------------------------------------------------------
(* The lock of a process that died.                                        *)

\* Only a request and a prune can leave a lock that nothing explains, and only
\* when their process dies in the middle.
LEMMA StepOwned ==
  ASSUME Access!ConstantsOK, Access!IInv, Access!Next,
         {"crash_request", "crash_prune"} \cap Faults = {} PROVE Access!LocksOwned'
  <1> USE DEF Access!Typed, Access!TypeOK, Access!HoldersWork, Access!HelperApart,
              Access!LocksOwned, Access!Holds, Access!Owns, Access!HelperRunning,
              Access!files, Access!manager
  <1>0. Access!Typed /\ Access!HoldersWork /\ Access!HelperApart /\ Access!LocksOwned
        /\ ~Access!May("crash_request") /\ ~Access!May("crash_prune")
        /\ MaxOp \in Nat
    BY DEF Access!IInv, Access!May, Access!ConstantsOK
  <1>1. ASSUME NEW m \in Modes, Access!QueueAccessMode(m) PROVE Access!LocksOwned'
    BY ONLY <1>0, <1>1 DEF Access!QueueAccessMode, Access!Acquire
  <1>2. CASE Access!SaveEnvironment \/ Access!RefuseRequest \/ Access!WriteMarker
    BY ONLY <1>0, <1>2 DEF Access!SaveEnvironment, Access!RefuseRequest, Access!Released,
                           Access!NoRequest, Access!WriteMarker
  <1>3. CASE Access!RequestFails \/ Access!HandOver \/ Access!HandOverFails
    BY ONLY <1>0, <1>3 DEF Access!RequestFails, Access!HandOver, Access!HandOverFails,
                           Access!Rollback, Access!Released, Access!NoRequest
  <1>4. CASE Access!Validate \/ Access!BeginRecreate \/ Access!HelperExits
    BY ONLY <1>0, <1>4 DEF Access!Validate, Access!BeginRecreate, Access!HelperExits
  <1>5. CASE Access!Recreate \/ Access!UpdateRecreates
    BY ONLY <1>0, <1>5 DEF Access!Recreate, Access!UpdateRecreates, Access!NewManager,
                           Access!NoRequest, Access!HelperStep
  <1>6. CASE Access!HelperReleases \/ Access!HelperClears
    BY ONLY <1>0, <1>6 DEF Access!HelperReleases, Access!HelperClears, Access!HelperStep
  <1>7. CASE Access!StartPrune \/ Access!EndPrune \/ Access!StartUpdate
    BY ONLY <1>0, <1>7 DEF Access!StartPrune, Access!EndPrune, Access!StartUpdate,
                           Access!Acquire, Access!Released
  <1>8. CASE Access!UpdateEnds \/ Access!Crash \/ Access!Boot \/ Access!OperatorClears
    BY ONLY <1>0, <1>8 DEF Access!UpdateEnds, Access!Released, Access!Crash, Access!NoRequest,
                           Access!Boot, Access!OperatorClears
  <1>9. CASE Access!StartupRestart
    BY ONLY <1>0, <1>9 DEF Access!StartupRestart, Access!ReconcileManagementRestart
  <1>10. CASE Access!StartupUpdate
    BY ONLY <1>0, <1>10 DEF Access!StartupUpdate, Access!ReconcileUpdateState
  <1> QED
    BY ONLY Access!Next, <1>1, <1>2, <1>3, <1>4, <1>5, <1>6, <1>7, <1>8, <1>9, <1>10
       DEF Access!Next
-----------------------------------------------------------------------------
\* The invariant is inductive for every set of faults.
LEMMA RestartNextIInv == ASSUME Access!ConstantsOK, Access!IInv, [Access!Next]_Access!vars
  PROVE Access!IInv'
  <1>1. CASE UNCHANGED Access!vars
    <2>1. Access!Typed' /\ Access!HoldersWork' /\ Access!HelperApart'
      BY <1>1 DEF Access!vars, Access!files, Access!manager, Access!IInv, Access!Typed,
                  Access!TypeOK, Access!HoldersWork, Access!HelperApart, Access!Holds,
                  Access!Owns, Access!HelperRunning
    <2>2. Access!ModesAgree' = Access!ModesAgree /\ Access!LocksOwned' = Access!LocksOwned
      BY <1>1 DEF Access!vars, Access!files, Access!manager, Access!ModesAgree,
                  Access!Explained, Access!LocksOwned, Access!Owns
    <2> QED  BY <2>1, <2>2 DEF Access!IInv
  <1>2. CASE Access!Next
    <2>1. Access!Typed' /\ Access!HoldersWork' /\ Access!HelperApart'
      BY <1>2, RequestTyped, HelperTyped, OtherTyped DEF Access!Next
    <2> QED  BY <1>2, <2>1, StepModes, StepOwned DEF Access!IInv
  <1> QED  BY <1>1, <1>2

LEMMA RestartInvariant == ASSUME Access!ConstantsOK PROVE Access!Spec => []Access!IInv
  <1>1. Access!Init => Access!IInv
    BY RestartInitIInv
  <1>2. Access!IInv /\ [Access!Next]_Access!vars => Access!IInv'
    BY RestartNextIInv
  <1> QED  BY <1>1, <1>2, PTL DEF Access!Spec

\* What the parts of the invariant mean for the properties.
LEMMA RestartIInvAlone == ASSUME Access!IInv PROVE Access!TypeOK /\ Access!RecreatesAlone
  BY DEF Access!IInv, Access!Typed, Access!HoldersWork, Access!HelperApart,
         Access!HelperRunning, Access!RecreatesAlone, Access!Holds, Access!Owns

LEMMA RestartIInvInSync == ASSUME Access!IInv, {"crash_request", "operator"} \cap Faults = {}
  PROVE Access!InSync
  BY DEF Access!IInv, Access!ModesAgree, Access!Explained, Access!InSync, Access!Owns

LEMMA RestartIInvExplained == ASSUME Access!IInv,
  {"crash_request", "crash_prune"} \cap Faults = {} PROVE Access!LockExplained
  BY DEF Access!IInv, Access!Typed, Access!LocksOwned, Access!LockExplained, Access!Owners

\* requireOwnership, and the fixed name of the helper's container: whatever
\* fails, and whatever an operator removes by hand, the manager is replaced
\* only under the replacing operation's own lock, with no prune and no other
\* request beside it.
THEOREM RestartIsAlone == ASSUME Access!ConstantsOK
  PROVE Access!Spec => [](Access!TypeOK /\ Access!RecreatesAlone)
  BY RestartInvariant, RestartIInvAlone, PTL

\* rollback and ReconcileManagementRestart: once nothing is under way .env and
\* the container agree, after any number of failed steps, killed helpers and
\* restarts of the manager between requests.
THEOREM ModesInSync ==
  ASSUME Access!ConstantsOK, {"crash_request", "operator"} \cap Faults = {}
         PROVE Access!Spec => []Access!InSync
  BY RestartInvariant, RestartIInvInSync, PTL

\* ReconcileUpdateState: once changes are admitted, no lock is left behind
\* that neither somebody at work nor a marker explains, unless a process died
\* in the middle of a request or a prune.
THEOREM LocksExplained ==
  ASSUME Access!ConstantsOK, {"crash_request", "crash_prune"} \cap Faults = {}
         PROVE Access!Spec => []Access!LockExplained
  BY RestartInvariant, RestartIInvExplained, PTL
-----------------------------------------------------------------------------
(* Proofs about RegistryMaintenance, for any configurations and any number *)
(* of failures, crashes, edits and restarts: a read-only registry can      *)
(* always be undone, and the collector excludes pushes.                    *)

-----------------------------------------------------------------------------
LEMMA Configurations ==
  \A b \in Bases : /\ [base |-> b, ro |-> TRUE] \in [base: Bases, ro: BOOLEAN]
                   /\ [base |-> b, ro |-> FALSE] \in [base: Bases, ro: BOOLEAN]
OBVIOUS

\* A request or a pass of the worker.
LEMMA RequestsKeep ==
  ASSUME Maintenance!ConstantsOK, Maintenance!IInv,
         Maintenance!StartManual \/ Maintenance!WorkerPass
  PROVE  Maintenance!IInv'
  <1> USE DEF Maintenance!ConstantsOK, Maintenance!Clients, Maintenance!Tasks, Maintenance!Windowed, Maintenance!Recovering,
              Maintenance!registry, Maintenance!memory, Maintenance!window, Maintenance!Move,
              Maintenance!StartManual, Maintenance!WorkerPass, Maintenance!NotDue
  <1>0. /\ Maintenance!TypeOK /\ Maintenance!BudgetOK /\ Maintenance!LockTaken /\ Maintenance!WindowOnFile
           /\ Maintenance!UndoneIsWritable
        /\ Maintenance!ReadOnlyIsRecorded /\ Maintenance!LeftWindowIsBlocked /\ Maintenance!AskedAndDue
    BY DEF Maintenance!IInv
  <1>1. Maintenance!TypeOK'
    <2>1. config' \in [base: Bases, ro: BOOLEAN]
      BY <1>0 DEF Maintenance!TypeOK
    <2>2. /\ mode' \in {"rw", "ro", "down"} /\ file' \in Bases \cup {None} /\ wanted' \in Bases
          /\ holder' \in Maintenance!Clients \cup {None} /\ recent' \subseteq Maintenance!Tasks
      BY <1>0 DEF Maintenance!TypeOK
    <2>3. /\ stage' \in [Maintenance!Clients -> {"idle", "try", "lock"} \cup Maintenance!Windowed
             \cup Maintenance!Recovering]
          /\ opts' \in [Maintenance!Clients -> SUBSET Maintenance!Tasks]
             /\ done' \in [Maintenance!Clients -> SUBSET Maintenance!Tasks]
      BY <1>0 DEF Maintenance!TypeOK
    <2>4. gc' \in BOOLEAN /\ up' \in BOOLEAN /\ blocked' \in BOOLEAN
      BY <1>0 DEF Maintenance!TypeOK
    <2>5. \A d \in Maintenance!Clients : stage'[d] \in Maintenance!Windowed \cup Maintenance!Recovering
          => holder' = d
      BY <1>0 DEF Maintenance!TypeOK, Maintenance!LockTaken
    <2> QED  BY <2>1, <2>2, <2>3, <2>4, <2>5 DEF Maintenance!TypeOK
  <1>2. Maintenance!BudgetOK'
    BY <1>0 DEF Maintenance!BudgetOK
  <1>3. Maintenance!LockTaken'
    BY <1>0 DEF Maintenance!TypeOK, Maintenance!LockTaken
  <1>4. Maintenance!WindowOnFile'
    BY <1>0 DEF Maintenance!TypeOK, Maintenance!LockTaken, Maintenance!WindowOnFile, Maintenance!ReadOnlyIsRecorded
  <1>5. Maintenance!UndoneIsWritable'
    BY <1>0 DEF Maintenance!TypeOK, Maintenance!LockTaken, Maintenance!WindowOnFile, Maintenance!UndoneIsWritable
  <1>6. Maintenance!ReadOnlyIsRecorded'
    BY <1>0 DEF Maintenance!TypeOK, Maintenance!LockTaken, Maintenance!WindowOnFile, Maintenance!UndoneIsWritable,
                Maintenance!ReadOnlyIsRecorded
  <1>7. Maintenance!LeftWindowIsBlocked'
    BY <1>0 DEF Maintenance!TypeOK, Maintenance!LockTaken, Maintenance!WindowOnFile, Maintenance!LeftWindowIsBlocked
  <1>8. Maintenance!AskedAndDue'
    BY <1>0 DEF Maintenance!TypeOK, Maintenance!LockTaken, Maintenance!AskedAndDue
  <1>9. ASSUME ~EditDuring PROVE Maintenance!EditsKept'
    <2>1. Maintenance!EditsKept
      BY <1>9 DEF Maintenance!IInv
    <2> QED  BY <1>0, <1>9, <2>1 DEF Maintenance!TypeOK, Maintenance!WindowOnFile, Maintenance!EditsKept
  <1>10. ASSUME ~EditDuring \/ Restarts = 0 PROVE Maintenance!ReadOnlyWhileOpen'
    <2>1. Maintenance!ReadOnlyWhileOpen
      BY <1>10 DEF Maintenance!IInv
    <2> QED  BY <1>0, <1>10, <2>1
       DEF Maintenance!TypeOK, Maintenance!LockTaken, Maintenance!BudgetOK, Maintenance!ReadOnlyWhileOpen
  <1> QED
    BY <1>1, <1>2, <1>3, <1>4, <1>5, <1>6, <1>7, <1>8, <1>9, <1>10 DEF Maintenance!IInv

\* A client is admitted, or is not.
LEMMA AdmissionKeeps ==
  ASSUME Maintenance!ConstantsOK, Maintenance!IInv, NEW c \in Maintenance!Clients,
         Maintenance!TryLock(c) \/ Maintenance!LockToRecover(c) \/ Maintenance!RefuseTarget(c)
  PROVE  Maintenance!IInv'
  <1> USE DEF Maintenance!ConstantsOK, Maintenance!Clients, Maintenance!Tasks, Maintenance!Windowed, Maintenance!Recovering,
              Maintenance!registry, Maintenance!memory, Maintenance!window, Maintenance!Ends,
              Maintenance!TryLock, Maintenance!LockFree, Maintenance!DueMaintenance, Maintenance!LockToRecover,
                 Maintenance!RefuseTarget
  <1>0. /\ Maintenance!TypeOK /\ Maintenance!BudgetOK /\ Maintenance!LockTaken /\ Maintenance!WindowOnFile
           /\ Maintenance!UndoneIsWritable
        /\ Maintenance!ReadOnlyIsRecorded /\ Maintenance!LeftWindowIsBlocked /\ Maintenance!AskedAndDue
    BY DEF Maintenance!IInv
  <1>1. Maintenance!TypeOK'
    <2>1. config' \in [base: Bases, ro: BOOLEAN]
      BY <1>0 DEF Maintenance!TypeOK
    <2>2. /\ mode' \in {"rw", "ro", "down"} /\ file' \in Bases \cup {None} /\ wanted' \in Bases
          /\ holder' \in Maintenance!Clients \cup {None} /\ recent' \subseteq Maintenance!Tasks
      BY <1>0 DEF Maintenance!TypeOK
    <2>3. /\ stage' \in [Maintenance!Clients -> {"idle", "try", "lock"} \cup Maintenance!Windowed
             \cup Maintenance!Recovering]
          /\ opts' \in [Maintenance!Clients -> SUBSET Maintenance!Tasks]
             /\ done' \in [Maintenance!Clients -> SUBSET Maintenance!Tasks]
      BY <1>0 DEF Maintenance!TypeOK
    <2>4. gc' \in BOOLEAN /\ up' \in BOOLEAN /\ blocked' \in BOOLEAN
      BY <1>0 DEF Maintenance!TypeOK
    <2>5. \A d \in Maintenance!Clients : stage'[d] \in Maintenance!Windowed \cup Maintenance!Recovering
          => holder' = d
      BY <1>0 DEF Maintenance!TypeOK, Maintenance!LockTaken
    <2> QED  BY <2>1, <2>2, <2>3, <2>4, <2>5 DEF Maintenance!TypeOK
  <1>2. Maintenance!BudgetOK'
    BY <1>0 DEF Maintenance!BudgetOK
  <1>3. Maintenance!LockTaken'
    BY <1>0 DEF Maintenance!TypeOK, Maintenance!LockTaken
  <1>4. Maintenance!WindowOnFile'
    BY <1>0 DEF Maintenance!TypeOK, Maintenance!LockTaken, Maintenance!WindowOnFile, Maintenance!ReadOnlyIsRecorded
  <1>5. Maintenance!UndoneIsWritable'
    BY <1>0 DEF Maintenance!TypeOK, Maintenance!LockTaken, Maintenance!WindowOnFile, Maintenance!UndoneIsWritable
  <1>6. Maintenance!ReadOnlyIsRecorded'
    BY <1>0 DEF Maintenance!TypeOK, Maintenance!LockTaken, Maintenance!WindowOnFile, Maintenance!UndoneIsWritable,
                Maintenance!ReadOnlyIsRecorded
  <1>7. Maintenance!LeftWindowIsBlocked'
    BY <1>0 DEF Maintenance!TypeOK, Maintenance!LockTaken, Maintenance!WindowOnFile, Maintenance!LeftWindowIsBlocked
  <1>8. Maintenance!AskedAndDue'
    BY <1>0 DEF Maintenance!TypeOK, Maintenance!LockTaken, Maintenance!AskedAndDue
  <1>9. ASSUME ~EditDuring PROVE Maintenance!EditsKept'
    <2>1. Maintenance!EditsKept
      BY <1>9 DEF Maintenance!IInv
    <2> QED  BY <1>0, <1>9, <2>1 DEF Maintenance!TypeOK, Maintenance!WindowOnFile, Maintenance!EditsKept
  <1>10. ASSUME ~EditDuring \/ Restarts = 0 PROVE Maintenance!ReadOnlyWhileOpen'
    <2>1. Maintenance!ReadOnlyWhileOpen
      BY <1>10 DEF Maintenance!IInv
    <2> QED  BY <1>0, <1>10, <2>1
       DEF Maintenance!TypeOK, Maintenance!LockTaken, Maintenance!BudgetOK, Maintenance!ReadOnlyWhileOpen
  <1> QED
    BY <1>1, <1>2, <1>3, <1>4, <1>5, <1>6, <1>7, <1>8, <1>9, <1>10 DEF Maintenance!IInv

\* The window opens.
LEMMA OpeningKeeps ==
  ASSUME Maintenance!ConstantsOK, Maintenance!IInv, NEW c \in Maintenance!Clients,
         Maintenance!RecordWindow(c) \/ Maintenance!ApplyReadOnly(c) \/ Maintenance!RestartReadOnly(c)
            \/ Maintenance!VerifyReadOnly(c)
  PROVE  Maintenance!IInv'
  <1> USE DEF Maintenance!ConstantsOK, Maintenance!Clients, Maintenance!Tasks, Maintenance!Windowed, Maintenance!Recovering,
              Maintenance!registry, Maintenance!memory, Maintenance!window, Maintenance!Move,
              Maintenance!Restarted, Maintenance!RecordWindow, Maintenance!ApplyReadOnly,
                 Maintenance!RegistryReadOnlyConfig, Maintenance!RestartReadOnly,
              Maintenance!VerifyReadOnly, Maintenance!AfterVerify
  <1>0. /\ Maintenance!TypeOK /\ Maintenance!BudgetOK /\ Maintenance!LockTaken /\ Maintenance!WindowOnFile
           /\ Maintenance!UndoneIsWritable
        /\ Maintenance!ReadOnlyIsRecorded /\ Maintenance!LeftWindowIsBlocked /\ Maintenance!AskedAndDue
    BY DEF Maintenance!IInv
  <1>1. Maintenance!TypeOK'
    <2>1. config' \in [base: Bases, ro: BOOLEAN]
      <3>1. file # None => file \in Bases
        BY <1>0 DEF Maintenance!TypeOK
      <3>2. \/ config' = config
            \/ \E b \in Bases : config' = [base |-> b, ro |-> TRUE]
               \/ config' = [base |-> b, ro |-> FALSE]
        BY <1>0, <3>1 DEF Maintenance!WindowOnFile
      <3> QED  BY <1>0, <3>2, Configurations DEF Maintenance!TypeOK
    <2>2. /\ mode' \in {"rw", "ro", "down"} /\ file' \in Bases \cup {None} /\ wanted' \in Bases
          /\ holder' \in Maintenance!Clients \cup {None} /\ recent' \subseteq Maintenance!Tasks
      BY <1>0 DEF Maintenance!TypeOK
    <2>3. /\ stage' \in [Maintenance!Clients -> {"idle", "try", "lock"} \cup Maintenance!Windowed
             \cup Maintenance!Recovering]
          /\ opts' \in [Maintenance!Clients -> SUBSET Maintenance!Tasks]
             /\ done' \in [Maintenance!Clients -> SUBSET Maintenance!Tasks]
      BY <1>0 DEF Maintenance!TypeOK
    <2>4. gc' \in BOOLEAN /\ up' \in BOOLEAN /\ blocked' \in BOOLEAN
      BY <1>0 DEF Maintenance!TypeOK
    <2>5. \A d \in Maintenance!Clients : stage'[d] \in Maintenance!Windowed \cup Maintenance!Recovering
          => holder' = d
      BY <1>0 DEF Maintenance!TypeOK, Maintenance!LockTaken
    <2> QED  BY <2>1, <2>2, <2>3, <2>4, <2>5 DEF Maintenance!TypeOK
  <1>2. Maintenance!BudgetOK'
    BY <1>0 DEF Maintenance!BudgetOK
  <1>3. Maintenance!LockTaken'
    BY <1>0 DEF Maintenance!TypeOK, Maintenance!LockTaken
  <1>4. Maintenance!WindowOnFile'
    BY <1>0 DEF Maintenance!TypeOK, Maintenance!LockTaken, Maintenance!WindowOnFile, Maintenance!ReadOnlyIsRecorded
  <1>5. Maintenance!UndoneIsWritable'
    BY <1>0 DEF Maintenance!TypeOK, Maintenance!LockTaken, Maintenance!WindowOnFile, Maintenance!UndoneIsWritable
  <1>6. Maintenance!ReadOnlyIsRecorded'
    BY <1>0 DEF Maintenance!TypeOK, Maintenance!LockTaken, Maintenance!WindowOnFile, Maintenance!UndoneIsWritable,
                Maintenance!ReadOnlyIsRecorded
  <1>7. Maintenance!LeftWindowIsBlocked'
    BY <1>0 DEF Maintenance!TypeOK, Maintenance!LockTaken, Maintenance!WindowOnFile, Maintenance!LeftWindowIsBlocked
  <1>8. Maintenance!AskedAndDue'
    BY <1>0 DEF Maintenance!TypeOK, Maintenance!LockTaken, Maintenance!AskedAndDue
  <1>9. ASSUME ~EditDuring PROVE Maintenance!EditsKept'
    <2>1. Maintenance!EditsKept
      BY <1>9 DEF Maintenance!IInv
    <2> QED  BY <1>0, <1>9, <2>1 DEF Maintenance!TypeOK, Maintenance!WindowOnFile, Maintenance!EditsKept
  <1>10. ASSUME ~EditDuring \/ Restarts = 0 PROVE Maintenance!ReadOnlyWhileOpen'
    <2>1. Maintenance!ReadOnlyWhileOpen
      BY <1>10 DEF Maintenance!IInv
    <2> QED  BY <1>0, <1>10, <2>1
       DEF Maintenance!TypeOK, Maintenance!LockTaken, Maintenance!BudgetOK, Maintenance!ReadOnlyWhileOpen
  <1> QED
    BY <1>1, <1>2, <1>3, <1>4, <1>5, <1>6, <1>7, <1>8, <1>9, <1>10 DEF Maintenance!IInv

\* Retention and collection.
LEMMA MaintainingKeeps ==
  ASSUME Maintenance!ConstantsOK, Maintenance!IInv, NEW c \in Maintenance!Clients,
         Maintenance!Retain(c) \/ Maintenance!GarbageCollect(c) \/ Maintenance!Collected(c)
            \/ Maintenance!CollectorGone(c)
  PROVE  Maintenance!IInv'
  <1> USE DEF Maintenance!ConstantsOK, Maintenance!Clients, Maintenance!Tasks, Maintenance!Windowed, Maintenance!Recovering,
              Maintenance!registry, Maintenance!memory, Maintenance!window, Maintenance!Move,
              Maintenance!Retain, Maintenance!GarbageCollect, Maintenance!Collected, Maintenance!CollectorGone
  <1>0. /\ Maintenance!TypeOK /\ Maintenance!BudgetOK /\ Maintenance!LockTaken /\ Maintenance!WindowOnFile
           /\ Maintenance!UndoneIsWritable
        /\ Maintenance!ReadOnlyIsRecorded /\ Maintenance!LeftWindowIsBlocked /\ Maintenance!AskedAndDue
    BY DEF Maintenance!IInv
  <1>1. Maintenance!TypeOK'
    <2>1. config' \in [base: Bases, ro: BOOLEAN]
      BY <1>0 DEF Maintenance!TypeOK
    <2>2. /\ mode' \in {"rw", "ro", "down"} /\ file' \in Bases \cup {None} /\ wanted' \in Bases
          /\ holder' \in Maintenance!Clients \cup {None} /\ recent' \subseteq Maintenance!Tasks
      BY <1>0 DEF Maintenance!TypeOK
    <2>3. /\ stage' \in [Maintenance!Clients -> {"idle", "try", "lock"} \cup Maintenance!Windowed
             \cup Maintenance!Recovering]
          /\ opts' \in [Maintenance!Clients -> SUBSET Maintenance!Tasks]
             /\ done' \in [Maintenance!Clients -> SUBSET Maintenance!Tasks]
      BY <1>0 DEF Maintenance!TypeOK
    <2>4. gc' \in BOOLEAN /\ up' \in BOOLEAN /\ blocked' \in BOOLEAN
      BY <1>0 DEF Maintenance!TypeOK
    <2>5. \A d \in Maintenance!Clients : stage'[d] \in Maintenance!Windowed \cup Maintenance!Recovering
          => holder' = d
      BY <1>0 DEF Maintenance!TypeOK, Maintenance!LockTaken
    <2> QED  BY <2>1, <2>2, <2>3, <2>4, <2>5 DEF Maintenance!TypeOK
  <1>2. Maintenance!BudgetOK'
    BY <1>0 DEF Maintenance!BudgetOK
  <1>3. Maintenance!LockTaken'
    BY <1>0 DEF Maintenance!TypeOK, Maintenance!LockTaken
  <1>4. Maintenance!WindowOnFile'
    BY <1>0 DEF Maintenance!TypeOK, Maintenance!LockTaken, Maintenance!WindowOnFile, Maintenance!ReadOnlyIsRecorded
  <1>5. Maintenance!UndoneIsWritable'
    BY <1>0 DEF Maintenance!TypeOK, Maintenance!LockTaken, Maintenance!WindowOnFile, Maintenance!UndoneIsWritable
  <1>6. Maintenance!ReadOnlyIsRecorded'
    BY <1>0 DEF Maintenance!TypeOK, Maintenance!LockTaken, Maintenance!WindowOnFile, Maintenance!UndoneIsWritable,
                Maintenance!ReadOnlyIsRecorded
  <1>7. Maintenance!LeftWindowIsBlocked'
    BY <1>0 DEF Maintenance!TypeOK, Maintenance!LockTaken, Maintenance!WindowOnFile, Maintenance!LeftWindowIsBlocked
  <1>8. Maintenance!AskedAndDue'
    BY <1>0 DEF Maintenance!TypeOK, Maintenance!LockTaken, Maintenance!AskedAndDue
  <1>9. ASSUME ~EditDuring PROVE Maintenance!EditsKept'
    <2>1. Maintenance!EditsKept
      BY <1>9 DEF Maintenance!IInv
    <2> QED  BY <1>0, <1>9, <2>1 DEF Maintenance!TypeOK, Maintenance!WindowOnFile, Maintenance!EditsKept
  <1>10. ASSUME ~EditDuring \/ Restarts = 0 PROVE Maintenance!ReadOnlyWhileOpen'
    <2>1. Maintenance!ReadOnlyWhileOpen
      BY <1>10 DEF Maintenance!IInv
    <2> QED  BY <1>0, <1>10, <2>1
       DEF Maintenance!TypeOK, Maintenance!LockTaken, Maintenance!BudgetOK, Maintenance!ReadOnlyWhileOpen
  <1> QED
    BY <1>1, <1>2, <1>3, <1>4, <1>5, <1>6, <1>7, <1>8, <1>9, <1>10 DEF Maintenance!IInv

\* A step of the window fails.
LEMMA FailingKeeps ==
  ASSUME Maintenance!ConstantsOK, Maintenance!IInv, NEW c \in Maintenance!Clients,
         Maintenance!WindowFails(c)
  PROVE  Maintenance!IInv'
  <1> USE DEF Maintenance!ConstantsOK, Maintenance!Clients, Maintenance!Tasks, Maintenance!Windowed, Maintenance!Recovering,
              Maintenance!registry, Maintenance!memory, Maintenance!window,
              Maintenance!Spend, Maintenance!Restarted, Maintenance!RestartFails, Maintenance!WindowFails,
                 Maintenance!RegistryReadOnlyConfig
  <1>0. /\ Maintenance!TypeOK /\ Maintenance!BudgetOK /\ Maintenance!LockTaken /\ Maintenance!WindowOnFile
           /\ Maintenance!UndoneIsWritable
        /\ Maintenance!ReadOnlyIsRecorded /\ Maintenance!LeftWindowIsBlocked /\ Maintenance!AskedAndDue
    BY DEF Maintenance!IInv
  <1>1. Maintenance!TypeOK'
    <2>1. config' \in [base: Bases, ro: BOOLEAN]
      <3>1. file # None => file \in Bases
        BY <1>0 DEF Maintenance!TypeOK
      <3>2. \/ config' = config
            \/ \E b \in Bases : config' = [base |-> b, ro |-> TRUE]
               \/ config' = [base |-> b, ro |-> FALSE]
        BY <1>0, <3>1 DEF Maintenance!WindowOnFile
      <3> QED  BY <1>0, <3>2, Configurations DEF Maintenance!TypeOK
    <2>2. /\ mode' \in {"rw", "ro", "down"} /\ file' \in Bases \cup {None} /\ wanted' \in Bases
          /\ holder' \in Maintenance!Clients \cup {None} /\ recent' \subseteq Maintenance!Tasks
      BY <1>0 DEF Maintenance!TypeOK
    <2>3. /\ stage' \in [Maintenance!Clients -> {"idle", "try", "lock"} \cup Maintenance!Windowed
             \cup Maintenance!Recovering]
          /\ opts' \in [Maintenance!Clients -> SUBSET Maintenance!Tasks]
             /\ done' \in [Maintenance!Clients -> SUBSET Maintenance!Tasks]
      BY <1>0 DEF Maintenance!TypeOK
    <2>4. gc' \in BOOLEAN /\ up' \in BOOLEAN /\ blocked' \in BOOLEAN
      BY <1>0 DEF Maintenance!TypeOK
    <2>5. \A d \in Maintenance!Clients : stage'[d] \in Maintenance!Windowed \cup Maintenance!Recovering
          => holder' = d
      BY <1>0 DEF Maintenance!TypeOK, Maintenance!LockTaken
    <2> QED  BY <2>1, <2>2, <2>3, <2>4, <2>5 DEF Maintenance!TypeOK
  <1>2. Maintenance!BudgetOK'
    BY <1>0 DEF Maintenance!BudgetOK
  <1>3. Maintenance!LockTaken'
    BY <1>0 DEF Maintenance!TypeOK, Maintenance!LockTaken
  <1>4. Maintenance!WindowOnFile'
    BY <1>0 DEF Maintenance!TypeOK, Maintenance!LockTaken, Maintenance!WindowOnFile, Maintenance!ReadOnlyIsRecorded
  <1>5. Maintenance!UndoneIsWritable'
    BY <1>0 DEF Maintenance!TypeOK, Maintenance!LockTaken, Maintenance!WindowOnFile, Maintenance!UndoneIsWritable
  <1>6. Maintenance!ReadOnlyIsRecorded'
    BY <1>0 DEF Maintenance!TypeOK, Maintenance!LockTaken, Maintenance!WindowOnFile, Maintenance!UndoneIsWritable,
                Maintenance!ReadOnlyIsRecorded
  <1>7. Maintenance!LeftWindowIsBlocked'
    BY <1>0 DEF Maintenance!TypeOK, Maintenance!LockTaken, Maintenance!WindowOnFile, Maintenance!LeftWindowIsBlocked
  <1>8. Maintenance!AskedAndDue'
    BY <1>0 DEF Maintenance!TypeOK, Maintenance!LockTaken, Maintenance!AskedAndDue
  <1>9. ASSUME ~EditDuring PROVE Maintenance!EditsKept'
    <2>1. Maintenance!EditsKept
      BY <1>9 DEF Maintenance!IInv
    <2> QED  BY <1>0, <1>9, <2>1 DEF Maintenance!TypeOK, Maintenance!WindowOnFile, Maintenance!EditsKept
  <1>10. ASSUME ~EditDuring \/ Restarts = 0 PROVE Maintenance!ReadOnlyWhileOpen'
    <2>1. Maintenance!ReadOnlyWhileOpen
      BY <1>10 DEF Maintenance!IInv
    <2> QED  BY <1>0, <1>10, <2>1
       DEF Maintenance!TypeOK, Maintenance!LockTaken, Maintenance!BudgetOK, Maintenance!ReadOnlyWhileOpen
  <1> QED
    BY <1>1, <1>2, <1>3, <1>4, <1>5, <1>6, <1>7, <1>8, <1>9, <1>10 DEF Maintenance!IInv

\* The window is undone.
LEMMA RestoringKeeps ==
  ASSUME Maintenance!ConstantsOK, Maintenance!IInv, NEW c \in Maintenance!Clients,
         Maintenance!TerminateGarbageCollector(c) \/ Maintenance!RestoreConfig(c)
            \/ Maintenance!RestartWritable(c) \/ Maintenance!Restored(c)
  PROVE  Maintenance!IInv'
  <1> USE DEF Maintenance!ConstantsOK, Maintenance!Clients, Maintenance!Tasks, Maintenance!Windowed, Maintenance!Recovering,
              Maintenance!registry, Maintenance!memory, Maintenance!window, Maintenance!Move,
              Maintenance!Ends, Maintenance!Restarted, Maintenance!TerminateGarbageCollector,
                 Maintenance!RestoreConfig, Maintenance!Original,
              Maintenance!RestartWritable, Maintenance!Restored
  <1>0. /\ Maintenance!TypeOK /\ Maintenance!BudgetOK /\ Maintenance!LockTaken /\ Maintenance!WindowOnFile
           /\ Maintenance!UndoneIsWritable
        /\ Maintenance!ReadOnlyIsRecorded /\ Maintenance!LeftWindowIsBlocked /\ Maintenance!AskedAndDue
    BY DEF Maintenance!IInv
  <1>1. Maintenance!TypeOK'
    <2>1. config' \in [base: Bases, ro: BOOLEAN]
      <3>1. file # None => file \in Bases
        BY <1>0 DEF Maintenance!TypeOK
      <3>2. \/ config' = config
            \/ \E b \in Bases : config' = [base |-> b, ro |-> TRUE]
               \/ config' = [base |-> b, ro |-> FALSE]
        BY <1>0, <3>1 DEF Maintenance!WindowOnFile
      <3> QED  BY <1>0, <3>2, Configurations DEF Maintenance!TypeOK
    <2>2. /\ mode' \in {"rw", "ro", "down"} /\ file' \in Bases \cup {None} /\ wanted' \in Bases
          /\ holder' \in Maintenance!Clients \cup {None} /\ recent' \subseteq Maintenance!Tasks
      BY <1>0 DEF Maintenance!TypeOK
    <2>3. /\ stage' \in [Maintenance!Clients -> {"idle", "try", "lock"} \cup Maintenance!Windowed
             \cup Maintenance!Recovering]
          /\ opts' \in [Maintenance!Clients -> SUBSET Maintenance!Tasks]
             /\ done' \in [Maintenance!Clients -> SUBSET Maintenance!Tasks]
      BY <1>0 DEF Maintenance!TypeOK
    <2>4. gc' \in BOOLEAN /\ up' \in BOOLEAN /\ blocked' \in BOOLEAN
      BY <1>0 DEF Maintenance!TypeOK
    <2>5. \A d \in Maintenance!Clients : stage'[d] \in Maintenance!Windowed \cup Maintenance!Recovering
          => holder' = d
      BY <1>0 DEF Maintenance!TypeOK, Maintenance!LockTaken
    <2> QED  BY <2>1, <2>2, <2>3, <2>4, <2>5 DEF Maintenance!TypeOK
  <1>2. Maintenance!BudgetOK'
    BY <1>0 DEF Maintenance!BudgetOK
  <1>3. Maintenance!LockTaken'
    BY <1>0 DEF Maintenance!TypeOK, Maintenance!LockTaken
  <1>4. Maintenance!WindowOnFile'
    BY <1>0 DEF Maintenance!TypeOK, Maintenance!LockTaken, Maintenance!WindowOnFile, Maintenance!ReadOnlyIsRecorded
  <1>5. Maintenance!UndoneIsWritable'
    BY <1>0 DEF Maintenance!TypeOK, Maintenance!LockTaken, Maintenance!WindowOnFile, Maintenance!UndoneIsWritable
  <1>6. Maintenance!ReadOnlyIsRecorded'
    BY <1>0 DEF Maintenance!TypeOK, Maintenance!LockTaken, Maintenance!WindowOnFile, Maintenance!UndoneIsWritable,
                Maintenance!ReadOnlyIsRecorded
  <1>7. Maintenance!LeftWindowIsBlocked'
    BY <1>0 DEF Maintenance!TypeOK, Maintenance!LockTaken, Maintenance!WindowOnFile, Maintenance!LeftWindowIsBlocked
  <1>8. Maintenance!AskedAndDue'
    BY <1>0 DEF Maintenance!TypeOK, Maintenance!LockTaken, Maintenance!AskedAndDue
  <1>9. ASSUME ~EditDuring PROVE Maintenance!EditsKept'
    <2>1. Maintenance!EditsKept
      BY <1>9 DEF Maintenance!IInv
    <2> QED  BY <1>0, <1>9, <2>1 DEF Maintenance!TypeOK, Maintenance!WindowOnFile, Maintenance!EditsKept
  <1>10. ASSUME ~EditDuring \/ Restarts = 0 PROVE Maintenance!ReadOnlyWhileOpen'
    <2>1. Maintenance!ReadOnlyWhileOpen
      BY <1>10 DEF Maintenance!IInv
    <2> QED  BY <1>0, <1>10, <2>1
       DEF Maintenance!TypeOK, Maintenance!LockTaken, Maintenance!BudgetOK, Maintenance!ReadOnlyWhileOpen
  <1> QED
    BY <1>1, <1>2, <1>3, <1>4, <1>5, <1>6, <1>7, <1>8, <1>9, <1>10 DEF Maintenance!IInv

\* Or it is not.
LEMMA RestoreFailsKeeps ==
  ASSUME Maintenance!ConstantsOK, Maintenance!IInv, NEW c \in Maintenance!Clients,
         Maintenance!RestoreFails(c)
  PROVE  Maintenance!IInv'
  <1> USE DEF Maintenance!ConstantsOK, Maintenance!Clients, Maintenance!Tasks, Maintenance!Windowed, Maintenance!Recovering,
              Maintenance!registry, Maintenance!memory, Maintenance!window,
              Maintenance!Spend, Maintenance!Ends, Maintenance!Restarted, Maintenance!RestartFails,
                 Maintenance!RestoreFails, Maintenance!SetMaintenanceError, Maintenance!Original
  <1>0. /\ Maintenance!TypeOK /\ Maintenance!BudgetOK /\ Maintenance!LockTaken /\ Maintenance!WindowOnFile
           /\ Maintenance!UndoneIsWritable
        /\ Maintenance!ReadOnlyIsRecorded /\ Maintenance!LeftWindowIsBlocked /\ Maintenance!AskedAndDue
    BY DEF Maintenance!IInv
  <1>1. Maintenance!TypeOK'
    <2>1. config' \in [base: Bases, ro: BOOLEAN]
      <3>1. file # None => file \in Bases
        BY <1>0 DEF Maintenance!TypeOK
      <3>2. \/ config' = config
            \/ \E b \in Bases : config' = [base |-> b, ro |-> TRUE]
               \/ config' = [base |-> b, ro |-> FALSE]
        BY <1>0, <3>1 DEF Maintenance!WindowOnFile
      <3> QED  BY <1>0, <3>2, Configurations DEF Maintenance!TypeOK
    <2>2. /\ mode' \in {"rw", "ro", "down"} /\ file' \in Bases \cup {None} /\ wanted' \in Bases
          /\ holder' \in Maintenance!Clients \cup {None} /\ recent' \subseteq Maintenance!Tasks
      BY <1>0 DEF Maintenance!TypeOK
    <2>3. /\ stage' \in [Maintenance!Clients -> {"idle", "try", "lock"} \cup Maintenance!Windowed
             \cup Maintenance!Recovering]
          /\ opts' \in [Maintenance!Clients -> SUBSET Maintenance!Tasks]
             /\ done' \in [Maintenance!Clients -> SUBSET Maintenance!Tasks]
      BY <1>0 DEF Maintenance!TypeOK
    <2>4. gc' \in BOOLEAN /\ up' \in BOOLEAN /\ blocked' \in BOOLEAN
      BY <1>0 DEF Maintenance!TypeOK
    <2>5. \A d \in Maintenance!Clients : stage'[d] \in Maintenance!Windowed \cup Maintenance!Recovering
          => holder' = d
      BY <1>0 DEF Maintenance!TypeOK, Maintenance!LockTaken
    <2> QED  BY <2>1, <2>2, <2>3, <2>4, <2>5 DEF Maintenance!TypeOK
  <1>2. Maintenance!BudgetOK'
    BY <1>0 DEF Maintenance!BudgetOK
  <1>3. Maintenance!LockTaken'
    BY <1>0 DEF Maintenance!TypeOK, Maintenance!LockTaken
  <1>4. Maintenance!WindowOnFile'
    BY <1>0 DEF Maintenance!TypeOK, Maintenance!LockTaken, Maintenance!WindowOnFile, Maintenance!ReadOnlyIsRecorded
  <1>5. Maintenance!UndoneIsWritable'
    BY <1>0 DEF Maintenance!TypeOK, Maintenance!LockTaken, Maintenance!WindowOnFile, Maintenance!UndoneIsWritable
  <1>6. Maintenance!ReadOnlyIsRecorded'
    BY <1>0 DEF Maintenance!TypeOK, Maintenance!LockTaken, Maintenance!WindowOnFile, Maintenance!UndoneIsWritable,
                Maintenance!ReadOnlyIsRecorded
  <1>7. Maintenance!LeftWindowIsBlocked'
    BY <1>0 DEF Maintenance!TypeOK, Maintenance!LockTaken, Maintenance!WindowOnFile, Maintenance!LeftWindowIsBlocked
  <1>8. Maintenance!AskedAndDue'
    BY <1>0 DEF Maintenance!TypeOK, Maintenance!LockTaken, Maintenance!AskedAndDue
  <1>9. ASSUME ~EditDuring PROVE Maintenance!EditsKept'
    <2>1. Maintenance!EditsKept
      BY <1>9 DEF Maintenance!IInv
    <2> QED  BY <1>0, <1>9, <2>1 DEF Maintenance!TypeOK, Maintenance!WindowOnFile, Maintenance!EditsKept
  <1>10. ASSUME ~EditDuring \/ Restarts = 0 PROVE Maintenance!ReadOnlyWhileOpen'
    <2>1. Maintenance!ReadOnlyWhileOpen
      BY <1>10 DEF Maintenance!IInv
    <2> QED  BY <1>0, <1>10, <2>1
       DEF Maintenance!TypeOK, Maintenance!LockTaken, Maintenance!BudgetOK, Maintenance!ReadOnlyWhileOpen
  <1> QED
    BY <1>1, <1>2, <1>3, <1>4, <1>5, <1>6, <1>7, <1>8, <1>9, <1>10 DEF Maintenance!IInv

\* A recovery.
LEMMA RecoveringKeeps ==
  ASSUME Maintenance!ConstantsOK, Maintenance!IInv, NEW c \in Maintenance!Clients,
         Maintenance!RecoverRestart(c) \/ Maintenance!RecoverConfig(c) \/ Maintenance!RecoverRestartAgain(c)
            \/ Maintenance!Recovered(c)
  PROVE  Maintenance!IInv'
  <1> USE DEF Maintenance!ConstantsOK, Maintenance!Clients, Maintenance!Tasks, Maintenance!Windowed, Maintenance!Recovering,
              Maintenance!registry, Maintenance!memory, Maintenance!window, Maintenance!Move,
              Maintenance!Ends, Maintenance!Restarted, Maintenance!RecoverRestart, Maintenance!RecoverConfig,
                 Maintenance!RecoverKnown,
              Maintenance!RegistryReadOnlyConfig, Maintenance!Original, Maintenance!RecoverRestartAgain,
                 Maintenance!Recovered
  <1>0. /\ Maintenance!TypeOK /\ Maintenance!BudgetOK /\ Maintenance!LockTaken /\ Maintenance!WindowOnFile
           /\ Maintenance!UndoneIsWritable
        /\ Maintenance!ReadOnlyIsRecorded /\ Maintenance!LeftWindowIsBlocked /\ Maintenance!AskedAndDue
    BY DEF Maintenance!IInv
  <1>1. Maintenance!TypeOK'
    <2>1. config' \in [base: Bases, ro: BOOLEAN]
      <3>1. file # None => file \in Bases
        BY <1>0 DEF Maintenance!TypeOK
      <3>2. \/ config' = config
            \/ \E b \in Bases : config' = [base |-> b, ro |-> TRUE]
               \/ config' = [base |-> b, ro |-> FALSE]
        BY <1>0, <3>1 DEF Maintenance!WindowOnFile
      <3> QED  BY <1>0, <3>2, Configurations DEF Maintenance!TypeOK
    <2>2. /\ mode' \in {"rw", "ro", "down"} /\ file' \in Bases \cup {None} /\ wanted' \in Bases
          /\ holder' \in Maintenance!Clients \cup {None} /\ recent' \subseteq Maintenance!Tasks
      BY <1>0 DEF Maintenance!TypeOK
    <2>3. /\ stage' \in [Maintenance!Clients -> {"idle", "try", "lock"} \cup Maintenance!Windowed
             \cup Maintenance!Recovering]
          /\ opts' \in [Maintenance!Clients -> SUBSET Maintenance!Tasks]
             /\ done' \in [Maintenance!Clients -> SUBSET Maintenance!Tasks]
      BY <1>0 DEF Maintenance!TypeOK
    <2>4. gc' \in BOOLEAN /\ up' \in BOOLEAN /\ blocked' \in BOOLEAN
      BY <1>0 DEF Maintenance!TypeOK
    <2>5. \A d \in Maintenance!Clients : stage'[d] \in Maintenance!Windowed \cup Maintenance!Recovering
          => holder' = d
      BY <1>0 DEF Maintenance!TypeOK, Maintenance!LockTaken
    <2> QED  BY <2>1, <2>2, <2>3, <2>4, <2>5 DEF Maintenance!TypeOK
  <1>2. Maintenance!BudgetOK'
    BY <1>0 DEF Maintenance!BudgetOK
  <1>3. Maintenance!LockTaken'
    BY <1>0 DEF Maintenance!TypeOK, Maintenance!LockTaken
  <1>4. Maintenance!WindowOnFile'
    BY <1>0 DEF Maintenance!TypeOK, Maintenance!LockTaken, Maintenance!WindowOnFile, Maintenance!ReadOnlyIsRecorded
  <1>5. Maintenance!UndoneIsWritable'
    BY <1>0 DEF Maintenance!TypeOK, Maintenance!LockTaken, Maintenance!WindowOnFile, Maintenance!UndoneIsWritable
  <1>6. Maintenance!ReadOnlyIsRecorded'
    BY <1>0 DEF Maintenance!TypeOK, Maintenance!LockTaken, Maintenance!WindowOnFile, Maintenance!UndoneIsWritable,
                Maintenance!ReadOnlyIsRecorded
  <1>7. Maintenance!LeftWindowIsBlocked'
    BY <1>0 DEF Maintenance!TypeOK, Maintenance!LockTaken, Maintenance!WindowOnFile, Maintenance!LeftWindowIsBlocked
  <1>8. Maintenance!AskedAndDue'
    BY <1>0 DEF Maintenance!TypeOK, Maintenance!LockTaken, Maintenance!AskedAndDue
  <1>9. ASSUME ~EditDuring PROVE Maintenance!EditsKept'
    <2>1. Maintenance!EditsKept
      BY <1>9 DEF Maintenance!IInv
    <2> QED  BY <1>0, <1>9, <2>1 DEF Maintenance!TypeOK, Maintenance!WindowOnFile, Maintenance!EditsKept
  <1>10. ASSUME ~EditDuring \/ Restarts = 0 PROVE Maintenance!ReadOnlyWhileOpen'
    <2>1. Maintenance!ReadOnlyWhileOpen
      BY <1>10 DEF Maintenance!IInv
    <2> QED  BY <1>0, <1>10, <2>1
       DEF Maintenance!TypeOK, Maintenance!LockTaken, Maintenance!BudgetOK, Maintenance!ReadOnlyWhileOpen
  <1> QED
    BY <1>1, <1>2, <1>3, <1>4, <1>5, <1>6, <1>7, <1>8, <1>9, <1>10 DEF Maintenance!IInv

\* Or it fails.
LEMMA RecoveryFailsKeeps ==
  ASSUME Maintenance!ConstantsOK, Maintenance!IInv, NEW c \in Maintenance!Clients,
         Maintenance!RecoveryFails(c)
  PROVE  Maintenance!IInv'
  <1> USE DEF Maintenance!ConstantsOK, Maintenance!Clients, Maintenance!Tasks, Maintenance!Windowed, Maintenance!Recovering,
              Maintenance!registry, Maintenance!memory, Maintenance!window,
              Maintenance!Spend, Maintenance!Ends, Maintenance!Restarted, Maintenance!RestartFails,
                 Maintenance!RecoveryFails, Maintenance!SetMaintenanceError,
              Maintenance!RegistryReadOnlyConfig, Maintenance!Original
  <1>0. /\ Maintenance!TypeOK /\ Maintenance!BudgetOK /\ Maintenance!LockTaken /\ Maintenance!WindowOnFile
           /\ Maintenance!UndoneIsWritable
        /\ Maintenance!ReadOnlyIsRecorded /\ Maintenance!LeftWindowIsBlocked /\ Maintenance!AskedAndDue
    BY DEF Maintenance!IInv
  <1>1. Maintenance!TypeOK'
    <2>1. config' \in [base: Bases, ro: BOOLEAN]
      <3>1. file # None => file \in Bases
        BY <1>0 DEF Maintenance!TypeOK
      <3>2. \/ config' = config
            \/ \E b \in Bases : config' = [base |-> b, ro |-> TRUE]
               \/ config' = [base |-> b, ro |-> FALSE]
        BY <1>0, <3>1 DEF Maintenance!WindowOnFile
      <3> QED  BY <1>0, <3>2, Configurations DEF Maintenance!TypeOK
    <2>2. /\ mode' \in {"rw", "ro", "down"} /\ file' \in Bases \cup {None} /\ wanted' \in Bases
          /\ holder' \in Maintenance!Clients \cup {None} /\ recent' \subseteq Maintenance!Tasks
      BY <1>0 DEF Maintenance!TypeOK
    <2>3. /\ stage' \in [Maintenance!Clients -> {"idle", "try", "lock"} \cup Maintenance!Windowed
             \cup Maintenance!Recovering]
          /\ opts' \in [Maintenance!Clients -> SUBSET Maintenance!Tasks]
             /\ done' \in [Maintenance!Clients -> SUBSET Maintenance!Tasks]
      BY <1>0 DEF Maintenance!TypeOK
    <2>4. gc' \in BOOLEAN /\ up' \in BOOLEAN /\ blocked' \in BOOLEAN
      BY <1>0 DEF Maintenance!TypeOK
    <2>5. \A d \in Maintenance!Clients : stage'[d] \in Maintenance!Windowed \cup Maintenance!Recovering
          => holder' = d
      BY <1>0 DEF Maintenance!TypeOK, Maintenance!LockTaken
    <2> QED  BY <2>1, <2>2, <2>3, <2>4, <2>5 DEF Maintenance!TypeOK
  <1>2. Maintenance!BudgetOK'
    BY <1>0 DEF Maintenance!BudgetOK
  <1>3. Maintenance!LockTaken'
    BY <1>0 DEF Maintenance!TypeOK, Maintenance!LockTaken
  <1>4. Maintenance!WindowOnFile'
    BY <1>0 DEF Maintenance!TypeOK, Maintenance!LockTaken, Maintenance!WindowOnFile, Maintenance!ReadOnlyIsRecorded
  <1>5. Maintenance!UndoneIsWritable'
    BY <1>0 DEF Maintenance!TypeOK, Maintenance!LockTaken, Maintenance!WindowOnFile, Maintenance!UndoneIsWritable
  <1>6. Maintenance!ReadOnlyIsRecorded'
    BY <1>0 DEF Maintenance!TypeOK, Maintenance!LockTaken, Maintenance!WindowOnFile, Maintenance!UndoneIsWritable,
                Maintenance!ReadOnlyIsRecorded
  <1>7. Maintenance!LeftWindowIsBlocked'
    BY <1>0 DEF Maintenance!TypeOK, Maintenance!LockTaken, Maintenance!WindowOnFile, Maintenance!LeftWindowIsBlocked
  <1>8. Maintenance!AskedAndDue'
    BY <1>0 DEF Maintenance!TypeOK, Maintenance!LockTaken, Maintenance!AskedAndDue
  <1>9. ASSUME ~EditDuring PROVE Maintenance!EditsKept'
    <2>1. Maintenance!EditsKept
      BY <1>9 DEF Maintenance!IInv
    <2> QED  BY <1>0, <1>9, <2>1 DEF Maintenance!TypeOK, Maintenance!WindowOnFile, Maintenance!EditsKept
  <1>10. ASSUME ~EditDuring \/ Restarts = 0 PROVE Maintenance!ReadOnlyWhileOpen'
    <2>1. Maintenance!ReadOnlyWhileOpen
      BY <1>10 DEF Maintenance!IInv
    <2> QED  BY <1>0, <1>10, <2>1
       DEF Maintenance!TypeOK, Maintenance!LockTaken, Maintenance!BudgetOK, Maintenance!ReadOnlyWhileOpen
  <1> QED
    BY <1>1, <1>2, <1>3, <1>4, <1>5, <1>6, <1>7, <1>8, <1>9, <1>10 DEF Maintenance!IInv

\* The process ends and starts, time passes, a collector ends.
LEMMA ProcessKeeps ==
  ASSUME Maintenance!ConstantsOK, Maintenance!IInv,
         Maintenance!Crash \/ Maintenance!Boot \/ Maintenance!DayPasses \/ Maintenance!CollectorEnds
  PROVE  Maintenance!IInv'
  <1> USE DEF Maintenance!ConstantsOK, Maintenance!Clients, Maintenance!Tasks, Maintenance!Windowed, Maintenance!Recovering,
              Maintenance!registry, Maintenance!memory, Maintenance!window,
              Maintenance!Spend, Maintenance!Crash, Maintenance!Boot, Maintenance!DayPasses, Maintenance!CollectorEnds
  <1>0. /\ Maintenance!TypeOK /\ Maintenance!BudgetOK /\ Maintenance!LockTaken /\ Maintenance!WindowOnFile
           /\ Maintenance!UndoneIsWritable
        /\ Maintenance!ReadOnlyIsRecorded /\ Maintenance!LeftWindowIsBlocked /\ Maintenance!AskedAndDue
    BY DEF Maintenance!IInv
  <1>1. Maintenance!TypeOK'
    <2>1. config' \in [base: Bases, ro: BOOLEAN]
      BY <1>0 DEF Maintenance!TypeOK
    <2>2. /\ mode' \in {"rw", "ro", "down"} /\ file' \in Bases \cup {None} /\ wanted' \in Bases
          /\ holder' \in Maintenance!Clients \cup {None} /\ recent' \subseteq Maintenance!Tasks
      BY <1>0 DEF Maintenance!TypeOK
    <2>3. /\ stage' \in [Maintenance!Clients -> {"idle", "try", "lock"} \cup Maintenance!Windowed
             \cup Maintenance!Recovering]
          /\ opts' \in [Maintenance!Clients -> SUBSET Maintenance!Tasks]
             /\ done' \in [Maintenance!Clients -> SUBSET Maintenance!Tasks]
      BY <1>0 DEF Maintenance!TypeOK
    <2>4. gc' \in BOOLEAN /\ up' \in BOOLEAN /\ blocked' \in BOOLEAN
      BY <1>0 DEF Maintenance!TypeOK
    <2>5. \A d \in Maintenance!Clients : stage'[d] \in Maintenance!Windowed \cup Maintenance!Recovering
          => holder' = d
      BY <1>0 DEF Maintenance!TypeOK, Maintenance!LockTaken
    <2> QED  BY <2>1, <2>2, <2>3, <2>4, <2>5 DEF Maintenance!TypeOK
  <1>2. Maintenance!BudgetOK'
    BY <1>0 DEF Maintenance!BudgetOK
  <1>3. Maintenance!LockTaken'
    BY <1>0 DEF Maintenance!TypeOK, Maintenance!LockTaken
  <1>4. Maintenance!WindowOnFile'
    BY <1>0 DEF Maintenance!TypeOK, Maintenance!LockTaken, Maintenance!WindowOnFile, Maintenance!ReadOnlyIsRecorded
  <1>5. Maintenance!UndoneIsWritable'
    BY <1>0 DEF Maintenance!TypeOK, Maintenance!LockTaken, Maintenance!WindowOnFile, Maintenance!UndoneIsWritable
  <1>6. Maintenance!ReadOnlyIsRecorded'
    BY <1>0 DEF Maintenance!TypeOK, Maintenance!LockTaken, Maintenance!WindowOnFile, Maintenance!UndoneIsWritable,
                Maintenance!ReadOnlyIsRecorded
  <1>7. Maintenance!LeftWindowIsBlocked'
    BY <1>0 DEF Maintenance!TypeOK, Maintenance!LockTaken, Maintenance!WindowOnFile, Maintenance!LeftWindowIsBlocked
  <1>8. Maintenance!AskedAndDue'
    <2>1. CASE Maintenance!Crash
      BY <1>0, <2>1 DEF Maintenance!TypeOK, Maintenance!LockTaken, Maintenance!AskedAndDue
    <2>2. CASE Maintenance!Boot
      BY <1>0, <2>2 DEF Maintenance!TypeOK, Maintenance!LockTaken, Maintenance!AskedAndDue
    <2>3. CASE Maintenance!DayPasses
      BY <1>0, <2>3 DEF Maintenance!TypeOK, Maintenance!LockTaken, Maintenance!AskedAndDue
    <2>4. CASE Maintenance!CollectorEnds
      BY <1>0, <2>4 DEF Maintenance!TypeOK, Maintenance!LockTaken, Maintenance!AskedAndDue
    <2> QED  BY <2>1, <2>2, <2>3, <2>4
  <1>9. ASSUME ~EditDuring PROVE Maintenance!EditsKept'
    <2>1. Maintenance!EditsKept
      BY <1>9 DEF Maintenance!IInv
    <2> QED  BY <1>0, <1>9, <2>1 DEF Maintenance!TypeOK, Maintenance!WindowOnFile, Maintenance!EditsKept
  <1>10. ASSUME ~EditDuring \/ Restarts = 0 PROVE Maintenance!ReadOnlyWhileOpen'
    <2>1. Maintenance!ReadOnlyWhileOpen
      BY <1>10 DEF Maintenance!IInv
    <2> QED  BY <1>0, <1>10, <2>1
       DEF Maintenance!TypeOK, Maintenance!LockTaken, Maintenance!BudgetOK, Maintenance!ReadOnlyWhileOpen
  <1> QED
    BY <1>1, <1>2, <1>3, <1>4, <1>5, <1>6, <1>7, <1>8, <1>9, <1>10 DEF Maintenance!IInv

\* The operator and Docker.
LEMMA OutsideKeeps ==
  ASSUME Maintenance!ConstantsOK, Maintenance!IInv,
         Maintenance!EditConfig \/ Maintenance!ContainerRestarts
  PROVE  Maintenance!IInv'
  <1> USE DEF Maintenance!ConstantsOK, Maintenance!Clients, Maintenance!Tasks, Maintenance!Windowed, Maintenance!Recovering,
              Maintenance!registry, Maintenance!memory, Maintenance!window,
              Maintenance!Spend, Maintenance!Restarted, Maintenance!EditConfig, Maintenance!ContainerRestarts
  <1>0. /\ Maintenance!TypeOK /\ Maintenance!BudgetOK /\ Maintenance!LockTaken /\ Maintenance!WindowOnFile
           /\ Maintenance!UndoneIsWritable
        /\ Maintenance!ReadOnlyIsRecorded /\ Maintenance!LeftWindowIsBlocked /\ Maintenance!AskedAndDue
    BY DEF Maintenance!IInv
  <1>1. Maintenance!TypeOK'
    <2>1. config' \in [base: Bases, ro: BOOLEAN]
      <3>1. file # None => file \in Bases
        BY <1>0 DEF Maintenance!TypeOK
      <3>2. \/ config' = config
            \/ \E b \in Bases : config' = [base |-> b, ro |-> TRUE]
               \/ config' = [base |-> b, ro |-> FALSE]
        BY <1>0, <3>1 DEF Maintenance!WindowOnFile
      <3> QED  BY <1>0, <3>2, Configurations DEF Maintenance!TypeOK
    <2>2. /\ mode' \in {"rw", "ro", "down"} /\ file' \in Bases \cup {None} /\ wanted' \in Bases
          /\ holder' \in Maintenance!Clients \cup {None} /\ recent' \subseteq Maintenance!Tasks
      BY <1>0 DEF Maintenance!TypeOK
    <2>3. /\ stage' \in [Maintenance!Clients -> {"idle", "try", "lock"} \cup Maintenance!Windowed
             \cup Maintenance!Recovering]
          /\ opts' \in [Maintenance!Clients -> SUBSET Maintenance!Tasks]
             /\ done' \in [Maintenance!Clients -> SUBSET Maintenance!Tasks]
      BY <1>0 DEF Maintenance!TypeOK
    <2>4. gc' \in BOOLEAN /\ up' \in BOOLEAN /\ blocked' \in BOOLEAN
      BY <1>0 DEF Maintenance!TypeOK
    <2>5. \A d \in Maintenance!Clients : stage'[d] \in Maintenance!Windowed \cup Maintenance!Recovering
          => holder' = d
      BY <1>0 DEF Maintenance!TypeOK, Maintenance!LockTaken
    <2> QED  BY <2>1, <2>2, <2>3, <2>4, <2>5 DEF Maintenance!TypeOK
  <1>2. Maintenance!BudgetOK'
    BY <1>0 DEF Maintenance!BudgetOK
  <1>3. Maintenance!LockTaken'
    BY <1>0 DEF Maintenance!TypeOK, Maintenance!LockTaken
  <1>4. Maintenance!WindowOnFile'
    BY <1>0 DEF Maintenance!TypeOK, Maintenance!LockTaken, Maintenance!WindowOnFile, Maintenance!ReadOnlyIsRecorded
  <1>5. Maintenance!UndoneIsWritable'
    BY <1>0 DEF Maintenance!TypeOK, Maintenance!LockTaken, Maintenance!WindowOnFile, Maintenance!UndoneIsWritable
  <1>6. Maintenance!ReadOnlyIsRecorded'
    BY <1>0 DEF Maintenance!TypeOK, Maintenance!LockTaken, Maintenance!WindowOnFile, Maintenance!UndoneIsWritable,
                Maintenance!ReadOnlyIsRecorded
  <1>7. Maintenance!LeftWindowIsBlocked'
    BY <1>0 DEF Maintenance!TypeOK, Maintenance!LockTaken, Maintenance!WindowOnFile, Maintenance!LeftWindowIsBlocked
  <1>8. Maintenance!AskedAndDue'
    BY <1>0 DEF Maintenance!TypeOK, Maintenance!LockTaken, Maintenance!AskedAndDue
  <1>9. ASSUME ~EditDuring PROVE Maintenance!EditsKept'
    <2>1. Maintenance!EditsKept
      BY <1>9 DEF Maintenance!IInv
    <2> QED  BY <1>0, <1>9, <2>1 DEF Maintenance!TypeOK, Maintenance!WindowOnFile, Maintenance!EditsKept
  <1>10. ASSUME ~EditDuring \/ Restarts = 0 PROVE Maintenance!ReadOnlyWhileOpen'
    <2>1. Maintenance!ReadOnlyWhileOpen
      BY <1>10 DEF Maintenance!IInv
    <2> QED  BY <1>0, <1>10, <2>1
       DEF Maintenance!TypeOK, Maintenance!LockTaken, Maintenance!BudgetOK, Maintenance!ReadOnlyWhileOpen
  <1> QED
    BY <1>1, <1>2, <1>3, <1>4, <1>5, <1>6, <1>7, <1>8, <1>9, <1>10 DEF Maintenance!IInv

\* The invariant holds at the start.
LEMMA WindowInitIInv == ASSUME Maintenance!ConstantsOK, Maintenance!Init PROVE Maintenance!IInv
  <1> USE DEF Maintenance!ConstantsOK, Maintenance!Init, Maintenance!Clients, Maintenance!Tasks, Maintenance!Windowed,
              Maintenance!Recovering
  <1>1. Maintenance!TypeOK
    <2>1. config \in [base: Bases, ro: BOOLEAN]
      BY Configurations
    <2>2. gc \in BOOLEAN /\ up \in BOOLEAN /\ blocked \in BOOLEAN
      OBVIOUS
    <2> QED  BY <2>1, <2>2 DEF Maintenance!TypeOK
  <1>2. Maintenance!BudgetOK
    BY DEF Maintenance!BudgetOK
  <1>3. Maintenance!LockTaken /\ Maintenance!WindowOnFile /\ Maintenance!UndoneIsWritable
        /\ Maintenance!ReadOnlyIsRecorded /\ Maintenance!LeftWindowIsBlocked /\ Maintenance!AskedAndDue
    BY DEF Maintenance!LockTaken, Maintenance!WindowOnFile, Maintenance!UndoneIsWritable,
           Maintenance!ReadOnlyIsRecorded, Maintenance!LeftWindowIsBlocked, Maintenance!AskedAndDue
  <1>4. Maintenance!EditsKept /\ Maintenance!ReadOnlyWhileOpen
    BY DEF Maintenance!EditsKept, Maintenance!ReadOnlyWhileOpen
  <1> QED  BY <1>1, <1>2, <1>3, <1>4 DEF Maintenance!IInv

\* Every step preserves it.
LEMMA WindowNextIInv == ASSUME Maintenance!ConstantsOK, Maintenance!IInv, [Maintenance!Next]_Maintenance!vars
  PROVE Maintenance!IInv'
  <1>1. CASE UNCHANGED Maintenance!vars
    BY <1>1 DEF Maintenance!vars, Maintenance!registry, Maintenance!memory, Maintenance!window, Maintenance!IInv,
                Maintenance!TypeOK, Maintenance!BudgetOK, Maintenance!LockTaken, Maintenance!WindowOnFile,
                Maintenance!UndoneIsWritable,
        Maintenance!ReadOnlyIsRecorded, Maintenance!LeftWindowIsBlocked, Maintenance!AskedAndDue,
           Maintenance!EditsKept, Maintenance!ReadOnlyWhileOpen
  <1>2. ASSUME NEW c \in Maintenance!Clients, Maintenance!Step(c) PROVE Maintenance!IInv'
    BY <1>2, AdmissionKeeps, OpeningKeeps, MaintainingKeeps, FailingKeeps, RestoringKeeps,
       RestoreFailsKeeps,
       RecoveringKeeps, RecoveryFailsKeeps DEF Maintenance!Step
  <1> QED
    BY <1>1, <1>2, RequestsKeep, ProcessKeeps, OutsideKeeps DEF Maintenance!Next

\* What a client completes in a step it had been asked for, while it held
\* the lock.
LEMMA WindowCompletesAsked ==
  ASSUME Maintenance!ConstantsOK, Maintenance!IInv, [Maintenance!Next]_Maintenance!vars, NEW t \in Maintenance!Tasks,
         t \in done'["worker"], t \notin done["worker"]
  PROVE  holder = "worker" /\ t \in opts["worker"]
  <1> USE DEF Maintenance!Clients, Maintenance!registry, Maintenance!memory, Maintenance!window
  <1>1. Maintenance!TypeOK /\ Maintenance!AskedAndDue
    BY DEF Maintenance!IInv
  <1>2. ASSUME NEW c \in Maintenance!Clients, Maintenance!Step(c), done' # done
        PROVE  holder = "worker" /\ t \in opts["worker"]
    <2>1. CASE Maintenance!Retain(c) \/ Maintenance!Collected(c)
      BY <1>1, <2>1 DEF Maintenance!Retain, Maintenance!Collected, Maintenance!Move, Maintenance!TypeOK,
                        Maintenance!AskedAndDue, Maintenance!Windowed
    <2>2. CASE Maintenance!TryLock(c)
      BY <1>1, <2>2 DEF Maintenance!TryLock, Maintenance!TypeOK
    <2> QED
      BY <1>2, <2>1, <2>2
         DEF Maintenance!Step, Maintenance!LockToRecover, Maintenance!RefuseTarget, Maintenance!RecordWindow,
             Maintenance!ApplyReadOnly, Maintenance!RestartReadOnly, Maintenance!VerifyReadOnly,
             Maintenance!GarbageCollect, Maintenance!CollectorGone, Maintenance!TerminateGarbageCollector,
                Maintenance!RestoreConfig, Maintenance!RestartWritable, Maintenance!Restored,
             Maintenance!RecoverRestart, Maintenance!RecoverConfig, Maintenance!RecoverRestartAgain,
                Maintenance!Recovered, Maintenance!WindowFails, Maintenance!RestoreFails, Maintenance!RecoveryFails
  <1>3. CASE Maintenance!Crash
    BY <1>3 DEF Maintenance!Crash
  <1> QED
    BY <1>2, <1>3 DEF Maintenance!Next, Maintenance!vars, Maintenance!StartManual, Maintenance!WorkerPass, Maintenance!Boot,
                      Maintenance!DayPasses, Maintenance!CollectorEnds, Maintenance!EditConfig,
           Maintenance!ContainerRestarts

LEMMA WindowStepOnce == ASSUME Maintenance!ConstantsOK, Maintenance!IInv, [Maintenance!Next]_Maintenance!vars
  PROVE Maintenance!NotRepeated
  BY WindowCompletesAsked DEF Maintenance!NotRepeated, Maintenance!IInv, Maintenance!AskedAndDue, Maintenance!Clients

\* Whenever the registry is read-only, or will be after its next start, the
\* state file says how to undo it, and a window that was left open blocks the
\* next one (registry_maintenance.go, writeMaintenanceState).
THEOREM WindowsRecorded ==
  ASSUME Maintenance!ConstantsOK
         PROVE Maintenance!Spec => [](Maintenance!TypeOK /\ Maintenance!ReadOnlyIsRecorded
         /\ Maintenance!LeftWindowIsBlocked)
  <1>1. Maintenance!Init => Maintenance!IInv
    BY WindowInitIInv
  <1>2. Maintenance!IInv /\ [Maintenance!Next]_Maintenance!vars => Maintenance!IInv'
    BY WindowNextIInv
  <1>3. Maintenance!IInv => Maintenance!TypeOK /\ Maintenance!ReadOnlyIsRecorded /\ Maintenance!LeftWindowIsBlocked
    BY DEF Maintenance!IInv
  <1> QED  BY <1>1, <1>2, <1>3, PTL DEF Maintenance!Spec

\* As long as nobody edits the configuration during a window, no window and
\* no recovery replaces what the operator wrote by an older configuration.
THEOREM EditsStay == ASSUME Maintenance!ConstantsOK, ~EditDuring PROVE Maintenance!Spec => []Maintenance!EditsKept
  <1>1. Maintenance!Init => Maintenance!IInv
    BY WindowInitIInv
  <1>2. Maintenance!IInv /\ [Maintenance!Next]_Maintenance!vars => Maintenance!IInv'
    BY WindowNextIInv
  <1>3. Maintenance!IInv => Maintenance!EditsKept
    BY DEF Maintenance!IInv
  <1> QED  BY <1>1, <1>2, <1>3, PTL DEF Maintenance!Spec

\* The collector never runs beside a registry that accepts pushes, unless the
\* configuration is edited during a window and the container restarted too.
THEOREM CollectsReadOnly ==
  ASSUME Maintenance!ConstantsOK, ~EditDuring \/ Restarts = 0 PROVE Maintenance!Spec => []Maintenance!GCReadOnly
  <1>1. Maintenance!Init => Maintenance!IInv
    BY WindowInitIInv
  <1>2. Maintenance!IInv /\ [Maintenance!Next]_Maintenance!vars => Maintenance!IInv'
    BY WindowNextIInv
  <1>3. Maintenance!IInv => Maintenance!GCReadOnly
    BY DEF Maintenance!IInv, Maintenance!ReadOnlyWhileOpen, Maintenance!GCReadOnly
  <1> QED  BY <1>1, <1>2, <1>3, PTL DEF Maintenance!Spec

\* A scheduled window does not repeat within a day what a window, manual or
\* scheduled, completed (registry_retention.go).
THEOREM ScheduledOnce == ASSUME Maintenance!ConstantsOK PROVE Maintenance!Spec => Maintenance!OncePerDay
  <1>1. Maintenance!Init => Maintenance!IInv
    BY WindowInitIInv
  <1>2. Maintenance!IInv /\ [Maintenance!Next]_Maintenance!vars => Maintenance!IInv'
    BY WindowNextIInv
  <1>3. Maintenance!IInv /\ [Maintenance!Next]_Maintenance!vars => [Maintenance!NotRepeated]_Maintenance!vars
    BY WindowStepOnce
  <1> QED  BY <1>1, <1>2, <1>3, PTL DEF Maintenance!Spec, Maintenance!OncePerDay
-----------------------------------------------------------------------------
(* What a key of the table and a line of authorized_keys have to do with   *)
(* each other, for any requests, keys, lines of the operator, numbers of   *)
(* failures and deaths of the manager.                                     *)

LEMMA KeysInitIInv == ASSUME Authorized!ConstantsOK, Authorized!Init PROVE Authorized!IInv
  <1>1. Authorized!Ids \cap Unmanaged = {} /\ 1 \in 1..MaxKeys + 1
    BY DEF Authorized!ConstantsOK
  <1>2. lines \cap Authorized!Ids = {}
    BY <1>1 DEF Authorized!Init
  <1>3. proc \in [Procs -> [pc : Authorized!Pcs, id : 0..MaxKeys, keys : SUBSET Authorized!Ids]]
    BY DEF Authorized!Init, Authorized!Idle, Authorized!Pcs, Authorized!ConstantsOK
  <1> QED  BY <1>1, <1>2, <1>3
     DEF Authorized!Init, Authorized!IInv, Authorized!TypeOK, Authorized!Idle, Authorized!AtWork, Authorized!IdsOnce, Authorized!RevokedOut,
         Authorized!UnmanagedKept,
                     Authorized!FileMirrorsRows, Authorized!Apart, Authorized!ConstantsOK

\* What a write of the keys ks may leave in the file: managed lines of ks, or
\* of what was there, and the operator's lines unless it was cut off.
LEMMA WriteLeaves ==
  ASSUME Authorized!ConstantsOK, Authorized!IInv, NEW ks \in SUBSET Authorized!Ids, NEW ok \in BOOLEAN,
         Authorized!Write(ks, ok)
  PROVE  /\ lines' \subseteq Authorized!Ids \cup Unmanaged
         /\ lines' \subseteq lines \cup ks
         /\ "cut" \notin WriteFaults => lines \cap Unmanaged \subseteq lines'
         /\ ok => lines' \cap Authorized!Ids = ks /\ faults' = faults
         /\ ~ok => faults < MaxFaults /\ faults' = faults + 1
         /\ ~ok /\ Authorized!AllOrNothing => lines' = lines
  <1>1. Authorized!Ids \cap Unmanaged = {} /\ lines \subseteq Authorized!Ids \cup Unmanaged
    BY DEF Authorized!ConstantsOK, Authorized!IInv, Authorized!TypeOK
  <1>2. CASE ok
    BY <1>1, <1>2 DEF Authorized!Write, Authorized!Contents
  <1>3. CASE ~ok
    <2>1. PICK f \in WriteFaults : lines' \in CASE f = "refused" -> {lines}
                                                [] f = "cut" -> {{}, lines \cap Unmanaged}
                                                [] f = "sync" -> {Authorized!Contents(ks)}
      BY <1>3 DEF Authorized!Write, Authorized!LeftBehind
    <2>2. f \in {"refused", "cut", "sync"}
      BY DEF Authorized!ConstantsOK
    <2>3. faults < MaxFaults /\ faults' = faults + 1
      BY <1>3 DEF Authorized!Write, Authorized!Faulty
    <2>4. Authorized!AllOrNothing => f = "refused"
      BY DEF Authorized!AllOrNothing
    <2>5. CASE f = "refused"
      BY <1>1, <1>3, <2>1, <2>3, <2>5
    <2>6. CASE f = "cut"
      BY <1>1, <1>3, <2>1, <2>3, <2>4, <2>6
    <2>7. CASE f = "sync"
      BY <1>1, <1>3, <2>1, <2>3, <2>4, <2>7 DEF Authorized!Contents
    <2> QED  BY <2>2, <2>5, <2>6, <2>7
  <1> QED  BY <1>2, <1>3

\* A row's keys, and what an operation carries with it.
LEMMA KeysFacts ==
  ASSUME Authorized!ConstantsOK, Authorized!IInv, NEW p \in Procs
  PROVE  /\ Authorized!Ids \cap Unmanaged = {} /\ rows \subseteq Authorized!Ids /\ p # None
         /\ proc[p] \in [pc : Authorized!Pcs, id : 0..MaxKeys, keys : SUBSET Authorized!Ids]
         /\ Authorized!AtWork(p, proc[p])
         /\ rows \cap revoked = {} /\ revoked \cap lines = {}
  BY DEF Authorized!ConstantsOK, Authorized!IInv, Authorized!TypeOK, Authorized!IdsOnce, Authorized!RevokedOut

\* A step of the holder of the mutex: the others have nothing in hand, so
\* that it leaves them alone.
LEMMA HolderStep ==
  ASSUME Authorized!ConstantsOK, Authorized!IInv, NEW p \in Procs, NEW q,
         q \in [pc : Authorized!Pcs, id : 0..MaxKeys, keys : SUBSET Authorized!Ids],
         proc' = [proc EXCEPT ![p] = q],
         keyMutex = p \/ keyMutex = None, keyMutex' = IF q.pc = "idle" THEN None ELSE p,
         Authorized!TypeOK', faults' \in Nat, kept' = kept, losses' = losses,
         Authorized!AtWork(p, q)', Authorized!IdsOnce', Authorized!RevokedOut',
         "cut" \notin WriteFaults => Authorized!UnmanagedKept',
         Authorized!AllOrNothing => Authorized!FileMirrorsRows' /\ Authorized!Apart(q)'
  PROVE  Authorized!IInv'
  <1>1. \A r \in Procs : proc'[r] = IF r = p THEN q ELSE proc[r]
    BY DEF Authorized!IInv
  <1>2. ASSUME NEW r \in Procs, r # p
        PROVE proc[r].pc = "idle" /\ keyMutex # r /\ keyMutex' # r /\ proc'[r] = proc[r]
    BY <1>1, <1>2 DEF Authorized!IInv, Authorized!AtWork, Authorized!ConstantsOK
  <1>3. \A r \in Procs : Authorized!AtWork(r, proc[r])'
    BY <1>1, <1>2 DEF Authorized!AtWork
  <1>4. Authorized!AllOrNothing => \A r \in Procs : Authorized!Apart(proc[r])'
    BY <1>1, <1>2 DEF Authorized!Apart
  <1>5. proc' \in [Procs -> [pc : Authorized!Pcs, id : 0..MaxKeys, keys : SUBSET Authorized!Ids]]
    BY DEF Authorized!IInv
  <1>6. "cut" \in WriteFaults \/ Authorized!UnmanagedKept'
    OBVIOUS
  <1>7. Authorized!AllOrNothing' <=> Authorized!AllOrNothing
    BY DEF Authorized!AllOrNothing
  <1> QED  BY <1>3, <1>4, <1>5, <1>6, <1>7 DEF Authorized!IInv

\* What a step that ends its operation leaves in hand.
LEMMA IdleAtEnd ==
  ASSUME Authorized!ConstantsOK, NEW p \in Procs, keyMutex' = None
  PROVE  /\ Authorized!Idle \in [pc : Authorized!Pcs, id : 0..MaxKeys, keys : SUBSET Authorized!Ids]
         /\ Authorized!AtWork(p, Authorized!Idle)' /\ Authorized!Apart(Authorized!Idle)' /\ Authorized!Idle.pc = "idle"
  BY DEF Authorized!Idle, Authorized!Pcs, Authorized!AtWork, Authorized!Apart, Authorized!ConstantsOK

\* CreateServerSSHKey with its row, listing and undoing.
LEMMA CreateSteps ==
  ASSUME Authorized!ConstantsOK, Authorized!IInv, NEW p \in Procs, UNCHANGED losses,
         Authorized!CreateServerSSHKey(p) \/ Authorized!ListServerSSHKeys(p) \/ Authorized!Undo(p)
  PROVE  Authorized!IInv'
  <1>0. /\ Authorized!Ids \cap Unmanaged = {} /\ rows \subseteq Authorized!Ids /\ p # None
        /\ Authorized!AtWork(p, proc[p])
           /\ proc[p] \in [pc : Authorized!Pcs, id : 0..MaxKeys, keys : SUBSET Authorized!Ids]
    BY KeysFacts
  <1>1. CASE Authorized!CreateServerSSHKey(p)
    <2> PICK q : q = [pc |-> "list", id |-> nextKey, keys |-> {}]
      OBVIOUS
    <2>1. nextKey \in Authorized!Ids /\ nextKey \notin rows \cup revoked
      BY <1>1 DEF Authorized!CreateServerSSHKey, Authorized!IInv, Authorized!TypeOK, Authorized!IdsOnce, Authorized!Ids,
                  Authorized!ConstantsOK
    <2>2. Authorized!TypeOK' /\ Authorized!IdsOnce' /\ Authorized!RevokedOut'
      BY <1>1, <2>1 DEF Authorized!CreateServerSSHKey, Authorized!IInv, Authorized!TypeOK, Authorized!IdsOnce, Authorized!Ids,
                        Authorized!ConstantsOK, Authorized!RevokedOut
    <2>3. Authorized!AllOrNothing => Authorized!FileMirrorsRows' /\ Authorized!Apart(q)'
      <3>1. keyMutex = None /\ keyMutex' # None /\ lines' = lines /\ rows' = rows \cup {nextKey}
        BY <1>0, <1>1 DEF Authorized!CreateServerSSHKey
      <3> QED  BY <2>1, <3>1 DEF Authorized!IInv, Authorized!FileMirrorsRows, Authorized!Apart
    <2>4. q \in [pc : Authorized!Pcs, id : 0..MaxKeys, keys : SUBSET Authorized!Ids]
      BY <2>1 DEF Authorized!Pcs, Authorized!Ids
    <2>5. Authorized!AtWork(p, q)'
      <3>1. nextKey \in Nat /\ nextKey' = nextKey + 1 /\ keyMutex' = p
        BY <1>1 DEF Authorized!CreateServerSSHKey, Authorized!IInv, Authorized!TypeOK
      <3> QED  BY <2>1, <3>1 DEF Authorized!AtWork, Authorized!Ids
    <2> QED  BY <1>1, <2>2, <2>3, <2>4, <2>5, HolderStep
       DEF Authorized!CreateServerSSHKey, Authorized!IInv, Authorized!UnmanagedKept
  <1>2. CASE Authorized!ListServerSSHKeys(p)
    <2>1. /\ proc[p].pc = "list" /\ keyMutex = p
             /\ UNCHANGED <<rows, nextKey, lines, kept, revoked, keyMutex>>
          /\ proc[p].id \in Authorized!Ids /\ proc[p].id < nextKey
      BY <1>0, <1>2 DEF Authorized!ListServerSSHKeys, Authorized!AtWork
    <2>2. Authorized!TypeOK' /\ Authorized!IdsOnce' /\ Authorized!RevokedOut'
          /\ (Authorized!UnmanagedKept' <=> Authorized!UnmanagedKept)
      BY <2>1 DEF Authorized!IInv, Authorized!TypeOK, Authorized!IdsOnce, Authorized!RevokedOut, Authorized!UnmanagedKept
    <2>3. Authorized!AllOrNothing => lines \cap Authorized!Ids = rows \ {proc[p].id} /\ Authorized!FileMirrorsRows'
      BY <1>0, <2>1 DEF Authorized!IInv, Authorized!Apart, Authorized!FileMirrorsRows
    <2>4. CASE proc' = [proc EXCEPT ![p].pc = "write", ![p].keys = rows] /\ UNCHANGED faults
      <3> PICK q : q = [proc[p] EXCEPT !.pc = "write", !.keys = rows]
        OBVIOUS
      <3>1. q \in [pc : Authorized!Pcs, id : 0..MaxKeys, keys : SUBSET Authorized!Ids] /\ q.pc = "write"
            /\ q.id = proc[p].id
            /\ q.keys = rows
        BY <1>0 DEF Authorized!Pcs
      <3>2. proc' = [proc EXCEPT ![p] = q]
        BY <2>4 DEF Authorized!IInv
      <3>3. Authorized!AtWork(p, q)' /\ (Authorized!AllOrNothing => Authorized!Apart(q)')
        BY <2>1, <2>3, <3>1 DEF Authorized!AtWork, Authorized!Apart
      <3> QED  BY <2>1, <2>2, <2>3, <2>4, <3>1, <3>2, <3>3, HolderStep DEF Authorized!IInv
    <2>5. CASE Authorized!Goto(p, "undo") /\ Authorized!Faulty
      <3> PICK q : q = [proc[p] EXCEPT !.pc = "undo"]
        OBVIOUS
      <3>1. q \in [pc : Authorized!Pcs, id : 0..MaxKeys, keys : SUBSET Authorized!Ids] /\ q.pc = "undo"
            /\ q.id = proc[p].id
        BY <1>0 DEF Authorized!Pcs
      <3>2. proc' = [proc EXCEPT ![p] = q] /\ faults' = faults + 1
        BY <2>5 DEF Authorized!IInv, Authorized!Goto, Authorized!Faulty
      <3>3. faults' \in Nat /\ (MaxFaults <= 1 => faults' >= MaxFaults)
        BY <3>2 DEF Authorized!IInv, Authorized!ConstantsOK
      <3>4. Authorized!AtWork(p, q)' /\ (Authorized!AllOrNothing => Authorized!Apart(q)')
        BY <2>1, <2>3, <3>1, <3>3 DEF Authorized!AtWork, Authorized!Apart, Authorized!AllOrNothing
      <3> QED  BY <2>1, <2>2, <2>3, <3>1, <3>2, <3>3, <3>4, HolderStep DEF Authorized!IInv
    <2> QED  BY <1>2, <2>4, <2>5 DEF Authorized!ListServerSSHKeys
  <1>3. CASE Authorized!Undo(p)
    <2>1. proc[p].pc = "undo" /\ keyMutex = p /\ keyMutex' = None
          /\ proc' = [proc EXCEPT ![p] = Authorized!Idle]
          /\ UNCHANGED <<nextKey, lines, kept, revoked>>
      BY <1>0, <1>3 DEF Authorized!Undo, Authorized!AtWork, Authorized!Ends
    <2>2. faults' \in Nat /\ rows' \subseteq rows
          /\ (Authorized!AllOrNothing => rows' = rows \ {proc[p].id}
             /\ lines \cap Authorized!Ids = rows \ {proc[p].id})
      BY <1>3, <2>1 DEF Authorized!Undo, Authorized!Faulty, Authorized!IInv, Authorized!Apart, Authorized!ConstantsOK
    <2>3. Authorized!TypeOK' /\ Authorized!IdsOnce' /\ Authorized!RevokedOut'
          /\ (Authorized!UnmanagedKept' <=> Authorized!UnmanagedKept)
      BY <2>1, <2>2 DEF Authorized!IInv, Authorized!TypeOK, Authorized!IdsOnce, Authorized!RevokedOut, Authorized!UnmanagedKept
    <2>4. Authorized!Idle \in [pc : Authorized!Pcs, id : 0..MaxKeys, keys : SUBSET Authorized!Ids]
          /\ Authorized!AtWork(p, Authorized!Idle)'
          /\ Authorized!Apart(Authorized!Idle)' /\ Authorized!Idle.pc = "idle"
      BY <2>1, IdleAtEnd
    <2>5. Authorized!AllOrNothing => Authorized!FileMirrorsRows'
      BY <2>1, <2>2 DEF Authorized!FileMirrorsRows
    <2> QED  BY <2>1, <2>2, <2>3, <2>4, <2>5, HolderStep DEF Authorized!IInv
  <1> QED  BY <1>1, <1>2, <1>3

\* A write of rows, whole or in part, by the holder: what stays in the file.
LEMMA WriteStep ==
  ASSUME Authorized!ConstantsOK, Authorized!IInv, NEW ks \in SUBSET rows, NEW ok \in BOOLEAN,
         Authorized!Write(ks, ok),
         UNCHANGED <<rows, nextKey, kept, revoked>>, keyMutex' \in Procs \cup {None}
  PROVE  /\ Authorized!TypeOK' /\ Authorized!IdsOnce' /\ Authorized!RevokedOut' /\ faults' \in Nat
         /\ "cut" \notin WriteFaults => Authorized!UnmanagedKept'
         /\ ok => lines' \cap Authorized!Ids = ks
         /\ ~ok /\ Authorized!AllOrNothing => lines' = lines /\ faults' >= MaxFaults
  <1>1. rows \subseteq Authorized!Ids /\ ks \subseteq Authorized!Ids
    BY DEF Authorized!IInv, Authorized!TypeOK
  <1>2. /\ lines' \subseteq Authorized!Ids \cup Unmanaged
        /\ lines' \subseteq lines \cup ks
        /\ "cut" \notin WriteFaults => lines \cap Unmanaged \subseteq lines'
        /\ ok => lines' \cap Authorized!Ids = ks /\ faults' = faults
        /\ ~ok => faults < MaxFaults /\ faults' = faults + 1
        /\ ~ok /\ Authorized!AllOrNothing => lines' = lines
    BY <1>1, WriteLeaves
  <1>3. faults' \in Nat /\ (~ok /\ MaxFaults <= 1 => faults' >= MaxFaults)
    BY <1>2 DEF Authorized!IInv, Authorized!ConstantsOK
  <1>4. Authorized!TypeOK' /\ Authorized!IdsOnce'
    BY <1>2 DEF Authorized!IInv, Authorized!TypeOK, Authorized!IdsOnce
  <1>5. Authorized!RevokedOut'
    BY <1>2 DEF Authorized!IInv, Authorized!RevokedOut, Authorized!IdsOnce
  <1>6. "cut" \notin WriteFaults => Authorized!UnmanagedKept'
    BY <1>2 DEF Authorized!IInv, Authorized!UnmanagedKept
  <1> QED  BY <1>2, <1>3, <1>4, <1>5, <1>6 DEF Authorized!AllOrNothing

\* The three writes of the file: of a new key, without a revoked one, and
\* with it again.
LEMMA WriteSteps ==
  ASSUME Authorized!ConstantsOK, Authorized!IInv, NEW p \in Procs, UNCHANGED losses,
         Authorized!Install(p) \/ Authorized!Remove(p) \/ Authorized!PutBack(p)
  PROVE  Authorized!IInv'
  <1>0. /\ Authorized!Ids \cap Unmanaged = {} /\ rows \subseteq Authorized!Ids /\ p # None
        /\ Authorized!AtWork(p, proc[p])
           /\ proc[p] \in [pc : Authorized!Pcs, id : 0..MaxKeys, keys : SUBSET Authorized!Ids]
    BY KeysFacts
  <1>1. /\ UNCHANGED <<rows, nextKey, kept, revoked>> /\ keyMutex = p /\ proc[p].keys = rows
        /\ proc[p].id \in Authorized!Ids /\ proc[p].id < nextKey
    BY <1>0 DEF Authorized!Install, Authorized!Remove, Authorized!PutBack, Authorized!AtWork
  <1>2. ASSUME NEW ks \in SUBSET rows, NEW ok \in BOOLEAN, Authorized!Write(ks, ok), Authorized!Ends(p),
               Authorized!AllOrNothing => IF ok THEN ks = rows ELSE lines \cap Authorized!Ids = rows
        PROVE  Authorized!IInv'
    <2>1. keyMutex' = None /\ proc' = [proc EXCEPT ![p] = Authorized!Idle]
      BY <1>2 DEF Authorized!Ends
    <2>2. /\ Authorized!TypeOK' /\ Authorized!IdsOnce' /\ Authorized!RevokedOut' /\ faults' \in Nat
          /\ "cut" \notin WriteFaults => Authorized!UnmanagedKept'
          /\ ok => lines' \cap Authorized!Ids = ks
          /\ ~ok /\ Authorized!AllOrNothing => lines' = lines
      BY <1>1, <1>2, <2>1, WriteStep
    <2>3. Authorized!AllOrNothing => Authorized!FileMirrorsRows'
      BY <1>1, <1>2, <2>2 DEF Authorized!FileMirrorsRows
    <2> QED  BY <1>1, <2>1, <2>2, <2>3, IdleAtEnd, HolderStep
  <1>3. ASSUME NEW ks \in SUBSET rows, NEW ok \in BOOLEAN, Authorized!Write(ks, ok),
               NEW at \in {"undo", "delete", "back"}, Authorized!Goto(p, at), keyMutex' = keyMutex,
               at = "undo" /\ Authorized!AllOrNothing => ~ok /\ lines \cap Authorized!Ids = rows \ {proc[p].id},
               at # "undo" => at = "delete" /\ ok /\ ks = rows \ {proc[p].id}
        PROVE  Authorized!IInv'
    <2> PICK q : q = [proc[p] EXCEPT !.pc = at]
      OBVIOUS
    <2>1. /\ q \in [pc : Authorized!Pcs, id : 0..MaxKeys, keys : SUBSET Authorized!Ids]
          /\ q.pc = at /\ q.id = proc[p].id /\ q.keys = proc[p].keys
      BY <1>0 DEF Authorized!Pcs
    <2>2. proc' = [proc EXCEPT ![p] = q]
      BY <1>3 DEF Authorized!Goto, Authorized!IInv
    <2>3. /\ Authorized!TypeOK' /\ Authorized!IdsOnce' /\ Authorized!RevokedOut' /\ faults' \in Nat
          /\ "cut" \notin WriteFaults => Authorized!UnmanagedKept'
          /\ ok => lines' \cap Authorized!Ids = ks
          /\ ~ok /\ Authorized!AllOrNothing => lines' = lines /\ faults' >= MaxFaults
      BY <1>1, <1>3, WriteStep
    <2>4. Authorized!AtWork(p, q)'
      BY <1>1, <1>3, <2>1, <2>3 DEF Authorized!AtWork
    <2>5. Authorized!AllOrNothing => Authorized!FileMirrorsRows' /\ Authorized!Apart(q)'
      BY <1>0, <1>1, <1>3, <2>1, <2>3 DEF Authorized!FileMirrorsRows, Authorized!Apart
    <2> QED  BY <1>0, <1>1, <1>3, <2>1, <2>2, <2>3, <2>4, <2>5, HolderStep
  <1>4. CASE Authorized!Install(p)
    <2>1. Authorized!AllOrNothing => lines \cap Authorized!Ids = rows \ {proc[p].id}
      BY <1>4 DEF Authorized!Install, Authorized!IInv, Authorized!Apart
    <2>2. CASE Authorized!Write(proc[p].keys, TRUE) /\ Authorized!Ends(p)
      BY <1>1, <1>2, <2>2
    <2>3. CASE Authorized!Write(proc[p].keys, FALSE) /\ Authorized!Goto(p, "undo") /\ UNCHANGED keyMutex
      BY <1>1, <1>3, <2>1, <2>3
    <2> QED  BY <1>4, <2>2, <2>3 DEF Authorized!Install
  <1>5. CASE Authorized!Remove(p)
    <2>1. Authorized!AllOrNothing => lines \cap Authorized!Ids = rows
      BY <1>5 DEF Authorized!Remove, Authorized!IInv, Authorized!Apart
    <2>2. Authorized!Remaining(proc[p].keys, proc[p].id) = rows \ {proc[p].id}
      BY <1>1 DEF Authorized!Remaining
    <2>3. CASE Authorized!Write(Authorized!Remaining(proc[p].keys, proc[p].id), TRUE)
          /\ Authorized!Goto(p, "delete") /\ UNCHANGED keyMutex
      BY <1>1, <1>3, <2>2, <2>3
    <2>4. CASE Authorized!Write(Authorized!Remaining(proc[p].keys, proc[p].id), FALSE) /\ Authorized!Ends(p)
      BY <1>1, <1>2, <2>1, <2>2, <2>4
    <2> QED  BY <1>5, <2>3, <2>4 DEF Authorized!Remove
  <1>6. CASE Authorized!PutBack(p)
    <2>1. proc[p].pc = "back" /\ Authorized!Ends(p)
      BY <1>6 DEF Authorized!PutBack
    <2>2. CASE Authorized!Write(proc[p].keys, TRUE)
      BY <1>1, <1>2, <2>1, <2>2
    <2>3. CASE Authorized!Write(proc[p].keys, FALSE)
      <3>1. faults < MaxFaults /\ (Authorized!AllOrNothing => faults >= MaxFaults)
        BY <2>1, <2>3 DEF Authorized!Write, Authorized!Faulty, Authorized!IInv, Authorized!Apart
      <3>2. ~Authorized!AllOrNothing
        BY <3>1 DEF Authorized!IInv, Authorized!ConstantsOK
      <3> QED  BY <1>1, <1>2, <2>1, <2>3, <3>2
    <2> QED  BY <1>6, <2>2, <2>3 DEF Authorized!PutBack
  <1> QED  BY <1>4, <1>5, <1>6

\* Revoke, with what the table shows, and the deletion of the row.
LEMMA RevokeSteps ==
  ASSUME Authorized!ConstantsOK, Authorized!IInv, NEW p \in Procs, UNCHANGED losses,
         Authorized!DeleteServerSSHKey(p) \/ \E id \in Authorized!Ids : Authorized!Revoke(p, id)
  PROVE  Authorized!IInv'
  <1>0. /\ Authorized!Ids \cap Unmanaged = {} /\ rows \subseteq Authorized!Ids /\ p # None
        /\ Authorized!AtWork(p, proc[p])
           /\ proc[p] \in [pc : Authorized!Pcs, id : 0..MaxKeys, keys : SUBSET Authorized!Ids]
    BY KeysFacts
  <1>1. ASSUME NEW id \in Authorized!Ids, Authorized!Revoke(p, id) PROVE Authorized!IInv'
    <2> PICK q : q = [pc |-> "remove", id |-> id, keys |-> rows]
      OBVIOUS
    <2>1. /\ keyMutex = None /\ keyMutex' = p /\ proc' = [proc EXCEPT ![p] = q]
          /\ UNCHANGED <<rows, nextKey, lines, kept, revoked, faults>>
      BY <1>1 DEF Authorized!Revoke
    <2>2. q \in [pc : Authorized!Pcs, id : 0..MaxKeys, keys : SUBSET Authorized!Ids] /\ q.pc # "idle"
      BY <1>0 DEF Authorized!Pcs, Authorized!Ids
    <2>3. Authorized!TypeOK' /\ Authorized!IdsOnce' /\ Authorized!RevokedOut'
          /\ (Authorized!UnmanagedKept' <=> Authorized!UnmanagedKept)
      BY <2>1 DEF Authorized!IInv, Authorized!TypeOK, Authorized!IdsOnce, Authorized!RevokedOut, Authorized!UnmanagedKept
    <2>4. Authorized!AtWork(p, q)'
      BY <1>1, <2>1 DEF Authorized!AtWork, Authorized!Revoke, Authorized!IInv, Authorized!IdsOnce
    <2>5. Authorized!AllOrNothing => Authorized!FileMirrorsRows' /\ Authorized!Apart(q)'
      BY <1>0, <2>1 DEF Authorized!IInv, Authorized!FileMirrorsRows, Authorized!Apart
    <2> QED  BY <2>1, <2>2, <2>3, <2>4, <2>5, HolderStep DEF Authorized!IInv
  <1>2. CASE Authorized!DeleteServerSSHKey(p)
    <2>1. /\ proc[p].pc = "delete" /\ keyMutex = p /\ UNCHANGED <<nextKey, lines, kept>>
          /\ proc[p].id \in Authorized!Ids /\ proc[p].id < nextKey /\ proc[p].id \notin lines
          /\ Authorized!AllOrNothing => lines \cap Authorized!Ids = rows \ {proc[p].id}
      BY <1>0, <1>2 DEF Authorized!DeleteServerSSHKey, Authorized!AtWork, Authorized!IInv, Authorized!Apart
    <2>2. CASE /\ rows' = rows \ {proc[p].id} /\ revoked' = revoked \cup {proc[p].id}
               /\ Authorized!Ends(p) /\ UNCHANGED faults
      <3>1. keyMutex' = None /\ proc' = [proc EXCEPT ![p] = Authorized!Idle]
            /\ rows' = rows \ {proc[p].id}
            /\ revoked' = revoked \cup {proc[p].id} /\ faults' = faults
        BY <2>2 DEF Authorized!Ends
      <3>2. Authorized!TypeOK' /\ Authorized!RevokedOut' /\ (Authorized!UnmanagedKept' <=> Authorized!UnmanagedKept)
        BY <2>1, <3>1 DEF Authorized!IInv, Authorized!TypeOK, Authorized!RevokedOut, Authorized!UnmanagedKept
      <3>3. Authorized!IdsOnce'
        BY <2>1, <3>1, <1>0 DEF Authorized!IInv, Authorized!IdsOnce, Authorized!AtWork
      <3>4. Authorized!AllOrNothing => Authorized!FileMirrorsRows'
        BY <2>1, <3>1 DEF Authorized!FileMirrorsRows
      <3> QED  BY <2>1, <3>1, <3>2, <3>3, <3>4, IdleAtEnd, HolderStep DEF Authorized!IInv
    <2>3. CASE Authorized!Goto(p, "back") /\ Authorized!Faulty /\ UNCHANGED <<rows, revoked, keyMutex>>
      <3> PICK q : q = [proc[p] EXCEPT !.pc = "back"]
        OBVIOUS
      <3>1. q \in [pc : Authorized!Pcs, id : 0..MaxKeys, keys : SUBSET Authorized!Ids] /\ q.pc = "back"
            /\ q.id = proc[p].id
            /\ q.keys = proc[p].keys
        BY <1>0 DEF Authorized!Pcs
      <3>2. proc' = [proc EXCEPT ![p] = q] /\ faults' = faults + 1
        BY <2>3 DEF Authorized!IInv, Authorized!Goto, Authorized!Faulty
      <3>3. faults' \in Nat /\ (MaxFaults <= 1 => faults' >= MaxFaults)
        BY <3>2 DEF Authorized!IInv, Authorized!ConstantsOK
      <3>4. Authorized!AtWork(p, q)' /\ (Authorized!AllOrNothing => Authorized!Apart(q)' /\ Authorized!FileMirrorsRows')
        BY <1>0, <2>1, <2>3, <3>1, <3>3
           DEF Authorized!AtWork, Authorized!Apart, Authorized!AllOrNothing, Authorized!FileMirrorsRows
      <3>5. Authorized!TypeOK' /\ Authorized!IdsOnce' /\ Authorized!RevokedOut'
            /\ (Authorized!UnmanagedKept' <=> Authorized!UnmanagedKept)
        BY <2>1, <2>3 DEF Authorized!IInv, Authorized!TypeOK, Authorized!IdsOnce, Authorized!RevokedOut, Authorized!UnmanagedKept
      <3> QED  BY <2>1, <2>3, <3>1, <3>2, <3>3, <3>4, <3>5, HolderStep DEF Authorized!IInv
    <2> QED  BY <1>2, <2>2, <2>3 DEF Authorized!DeleteServerSSHKey
  <1> QED  BY <1>1, <1>2

\* The operator edits the file; the manager dies.
LEMMA OutsideSteps ==
  ASSUME Authorized!ConstantsOK, Authorized!IInv, Authorized!Crash \/ \E l \in Unmanaged : Authorized!Edit(l)
  PROVE  Authorized!IInv'
  <1>0. Authorized!Ids \cap Unmanaged = {} /\ rows \subseteq Authorized!Ids /\ None \notin Procs
        /\ rows \cap revoked = {} /\ revoked \cap lines = {} /\ revoked \subseteq Authorized!Ids
    BY DEF Authorized!ConstantsOK, Authorized!IInv, Authorized!TypeOK, Authorized!IdsOnce, Authorized!RevokedOut
  <1>1. ASSUME NEW l \in Unmanaged, Authorized!Edit(l) PROVE Authorized!IInv'
    <2>1. UNCHANGED <<rows, nextKey, revoked, keyMutex, proc, faults, losses>>
      BY <1>1 DEF Authorized!Edit
    <2>2. /\ lines' \cap Authorized!Ids = lines \cap Authorized!Ids /\ lines' \subseteq Authorized!Ids \cup Unmanaged
          /\ kept' \subseteq Unmanaged
          /\ Authorized!UnmanagedKept => Authorized!UnmanagedKept'
      BY <1>0, <1>1 DEF Authorized!Edit, Authorized!IInv, Authorized!TypeOK, Authorized!UnmanagedKept
    <2>3. \A id \in Authorized!Ids : id \in lines' <=> id \in lines
      BY <2>2
    <2>4. Authorized!TypeOK' /\ Authorized!IdsOnce' /\ Authorized!RevokedOut'
          /\ (Authorized!FileMirrorsRows => Authorized!FileMirrorsRows')
      BY <1>0, <2>1, <2>2, <2>3
         DEF Authorized!IInv, Authorized!TypeOK, Authorized!IdsOnce, Authorized!RevokedOut, Authorized!FileMirrorsRows
    <2>5. ASSUME NEW p \in Procs
          PROVE Authorized!AtWork(p, proc[p])' /\ (Authorized!Apart(proc[p]) => Authorized!Apart(proc[p])')
      BY <2>1, <2>2, <2>3 DEF Authorized!IInv, Authorized!AtWork, Authorized!Apart
    <2> QED  BY <2>1, <2>2, <2>4, <2>5 DEF Authorized!IInv
  <1>2. CASE Authorized!Crash
    <2>1. ~Authorized!AllOrNothing /\ losses' \in Nat
      BY <1>2 DEF Authorized!Crash, Authorized!AllOrNothing, Authorized!IInv, Authorized!ConstantsOK
    <2>2. /\ keyMutex' = None /\ proc' = [p \in Procs |-> Authorized!Idle]
          /\ UNCHANGED <<rows, nextKey, kept, revoked, faults>>
      BY <1>2 DEF Authorized!Crash
    <2>3. /\ lines' \subseteq Authorized!Ids \cup Unmanaged /\ revoked \cap lines' = {}
          /\ "cut" \notin WriteFaults => lines \cap Unmanaged \subseteq lines'
      <3>1. ASSUME NEW ks \in SUBSET rows, lines' \in Authorized!LeftBehind(ks)
            PROVE  /\ lines' \subseteq Authorized!Ids \cup Unmanaged /\ revoked \cap lines' = {}
                   /\ "cut" \notin WriteFaults => lines \cap Unmanaged \subseteq lines'
        <4>1. PICK f \in WriteFaults : lines' \in CASE f = "refused" -> {lines}
                                                    [] f = "cut" -> {{}, lines \cap Unmanaged}
                                                    [] f = "sync" -> {Authorized!Contents(ks)}
          BY <3>1 DEF Authorized!LeftBehind
        <4>2. f \in {"refused", "cut", "sync"} /\ lines \subseteq Authorized!Ids \cup Unmanaged
          BY DEF Authorized!ConstantsOK, Authorized!IInv, Authorized!TypeOK
        <4>3. CASE f = "refused"
          BY <1>0, <4>1, <4>2, <4>3
        <4>4. CASE f = "cut"
          BY <1>0, <4>1, <4>2, <4>4
        <4>5. CASE f = "sync"
          BY <1>0, <4>1, <4>2, <4>5 DEF Authorized!Contents
        <4> QED  BY <4>2, <4>3, <4>4, <4>5
      <3>2. keyMutex \in Procs /\ Authorized!AtWork(keyMutex, proc[keyMutex])
        BY <1>2 DEF Authorized!Crash, Authorized!IInv, Authorized!TypeOK
      <3>3. CASE lines' = lines
        BY <1>0, <3>3 DEF Authorized!IInv, Authorized!TypeOK
      <3>4. CASE proc[keyMutex].pc \in {"write", "back"}
            /\ lines' \in Authorized!LeftBehind(proc[keyMutex].keys)
        BY <3>1, <3>2, <3>4 DEF Authorized!AtWork
      <3>5. CASE proc[keyMutex].pc = "remove"
            /\ lines' \in Authorized!LeftBehind(Authorized!Remaining(proc[keyMutex].keys, proc[keyMutex].id))
        <4>1. Authorized!Remaining(proc[keyMutex].keys, proc[keyMutex].id) \in SUBSET rows
          BY <3>2, <3>5 DEF Authorized!AtWork, Authorized!Remaining
        <4> QED  BY <3>1, <3>5, <4>1
      <3> QED  BY <1>2, <3>3, <3>4, <3>5 DEF Authorized!Crash
    <2>4. Authorized!TypeOK' /\ Authorized!IdsOnce' /\ Authorized!RevokedOut'
          /\ ("cut" \notin WriteFaults => Authorized!UnmanagedKept')
      BY <2>2, <2>3 DEF Authorized!IInv, Authorized!TypeOK, Authorized!IdsOnce, Authorized!RevokedOut, Authorized!UnmanagedKept
    <2>5. proc' \in [Procs -> [pc : Authorized!Pcs, id : 0..MaxKeys, keys : SUBSET Authorized!Ids]]
          /\ \A p \in Procs : Authorized!AtWork(p, proc[p])'
      BY <2>2, IdleAtEnd
    <2>6. ~Authorized!AllOrNothing'
      BY <2>1 DEF Authorized!AllOrNothing
    <2> QED  BY <2>1, <2>2, <2>4, <2>5, <2>6 DEF Authorized!IInv
  <1> QED  BY <1>1, <1>2

LEMMA KeysNextIInv == ASSUME Authorized!ConstantsOK, Authorized!IInv, [Authorized!Next]_Authorized!vars PROVE Authorized!IInv'
  <1>1. CASE UNCHANGED Authorized!vars
    <2>1. Authorized!AllOrNothing' <=> Authorized!AllOrNothing
      BY DEF Authorized!AllOrNothing
    <2>2. \A p \in Procs : Authorized!AtWork(p, proc[p])' /\ (Authorized!Apart(proc[p]) => Authorized!Apart(proc[p])')
      BY <1>1 DEF Authorized!vars, Authorized!IInv, Authorized!AtWork, Authorized!Apart
    <2> QED  BY <1>1, <2>1, <2>2
       DEF Authorized!vars, Authorized!IInv, Authorized!TypeOK, Authorized!IdsOnce, Authorized!RevokedOut, Authorized!UnmanagedKept,
           Authorized!FileMirrorsRows
  <1>2. ASSUME NEW p \in Procs, Authorized!Step(p) \/ Authorized!createServerSSHKey(p)
        \/ Authorized!revokeServerSSHKey(p),
               UNCHANGED <<edits, losses>>
        PROVE  Authorized!IInv'
    BY <1>2, CreateSteps, WriteSteps, RevokeSteps
       DEF Authorized!Step, Authorized!createServerSSHKey, Authorized!revokeServerSSHKey
  <1> QED  BY <1>1, <1>2, OutsideSteps DEF Authorized!Next

\* A key that was reported as revoked never opens the host again, whatever
\* fails, is retried or dies afterwards (ssh_keys.go).
THEOREM RevokedStaysOut == Authorized!ConstantsOK /\ Authorized!Spec => []Authorized!RevokedOut
  <1> SUFFICES ASSUME Authorized!ConstantsOK PROVE Authorized!Spec => []Authorized!RevokedOut
    OBVIOUS
  <1>1. Authorized!IInv => Authorized!RevokedOut
    BY DEF Authorized!IInv
  <1> QED  BY KeysInitIInv, KeysNextIInv, <1>1, PTL DEF Authorized!Spec

\* The operator's own lines survive whatever the manager does, as long as no
\* write is cut off.
THEOREM LinesKept ==
  ASSUME Authorized!ConstantsOK, "cut" \notin WriteFaults PROVE Authorized!Spec => []Authorized!UnmanagedKept
  <1>1. Authorized!IInv => Authorized!UnmanagedKept
    BY DEF Authorized!IInv
  <1> QED  BY KeysInitIInv, KeysNextIInv, <1>1, PTL DEF Authorized!Spec

\* Between operations the file holds exactly the keys of the table, also
\* after the one step that failed, when writes are all or nothing.
THEOREM FileMirrors ==
  ASSUME Authorized!ConstantsOK, Authorized!AllOrNothing PROVE Authorized!Spec => []Authorized!FileMirrorsRows
  <1>1. Authorized!IInv => Authorized!FileMirrorsRows
    BY DEF Authorized!IInv
  <1> QED  BY KeysInitIInv, KeysNextIInv, <1>1, PTL DEF Authorized!Spec
-----------------------------------------------------------------------------
(* Sessions, accounts and the limiter of sign-ins for any accounts, names, *)
(* requests, limits and lifetimes.                                         *)

(* The parts of the invariant that belong together.                        *)
AccountsRight ==
  /\ nextID \in 3 .. MaxAccounts + 1
  /\ users \in [IDs -> Accounts]
  /\ \A id \in IDs : Present(id) => /\ id < nextID /\ users[id].version > 0
                                    /\ (users[id].email = "none") # (users[id].name = "none")
  /\ \A a, b \in IDs : (Present(a) /\ Present(b) /\ a # b) =>
       \/ users[a].email # users[b].email
       \/ users[a].name # users[b].name
  /\ AnAccountRemains

Request == [pc : Pcs, user : Accounts, id : 0 .. MaxAccounts, guess : Nat,
            provider : Providers \cup {"none"}]
SessionValue == [id : IDs, provider : Providers, version : Nat, email : Emails \cup {"none"},
                 expires : Nat, guess : Nat]
History == [tried : [Keys -> [1 .. MaxTime -> Nat]], wrong : BOOLEAN]

SlotsRight ==
  /\ req \in [Requests -> Request]
  /\ slots \in 0 .. HashSlots
  /\ SlotsAreHashes

AttemptsRight ==
  /\ entries \in [Keys -> [count : Nat, expires : Nat]]
  /\ hist.tried \in [Keys -> [1 .. MaxTime -> Nat]]
  /\ IsFiniteSet(Used(entries)) /\ LimiterBounded /\ AttemptsCounted

SessionsRight ==
  /\ sessions \subseteq SessionValue
  /\ \A s \in sessions : s.provider = "password" => Known(s.id, s.version, s.guess)

Clocked == /\ nextPassword \in 2 .. MaxPasswords + 1 /\ now \in 1 .. MaxTime
           /\ google \in BOOLEAN

(* The invariant by what its parts are about.                              *)
Right ==
  /\ AccountsRight /\ SlotsRight /\ AttemptsRight /\ SessionsRight /\ Clocked
  /\ hist \in History /\ ~hist.wrong
  /\ \A r \in Requests : CopyKnown(req[r])

LEMMA Parts == IInv <=> Right
  <1>1. hist \in History => hist.tried \in [Keys -> [1 .. MaxTime -> Nat]]
    BY DEF History
  <1> QED
    BY <1>1, Zenon DEF IInv, Typed, TypeOK, CopiesKnown, ChangesEndSessions, AccountsRight, Right,
       SlotsRight, AttemptsRight, SessionsRight, Clocked, History, Request, SessionValue

LEMMA PartsNext == Right' => IInv'
  BY Parts, PTL

(* What was known of an account stays known.                               *)
KnownStays ==
  \A id \in Int, version \in Nat, password \in Nat :
    Known(id, version, password) => Known(id, version, password)'

LEMMA AbsentIsNoAccount ==
  ASSUME NEW u \in Accounts, u.version > 0
  PROVE  u # Absent
  BY DEF Absent, Accounts

LEMMA Constant ==
  ASSUME ConstantsOK
  PROVE  /\ MaxAccounts \in Nat /\ MaxAccounts >= 2 /\ MaxPasswords \in Nat /\ MaxPasswords >= 1
         /\ MaxTime \in Nat /\ MaxTime >= 1 /\ UserLimit \in Nat /\ AddressLimit \in Nat
         /\ MaxEntries \in Nat /\ HashSlots \in Nat /\ SessionDuration \in Nat
         /\ Window \in Nat /\ Window >= 1
         /\ "none" \notin Emails \cup Names /\ (Emails \cup Names) \cap Addresses = {}
         /\ IsFiniteSet(Requests)
         /\ IsFiniteSet(IDs)
  <1>1. MaxAccounts \in Nat
    BY DEF ConstantsOK
  <1>2. IsFiniteSet(IDs)
    BY <1>1, FS_Interval DEF IDs
  <1> QED  BY <1>2 DEF ConstantsOK
-----------------------------------------------------------------------------
(* Accounts.                                                               *)

LEMMA AccountsKept ==
  ASSUME AccountsRight, UNCHANGED <<users, nextID>>
  PROVE  AccountsRight' /\ KnownStays
  <1>1. Count' = Count
    BY DEF Count, Present
  <1> QED  BY <1>1 DEF AccountsRight, KnownStays, Known, Present, AnAccountRemains

\* At least as many accounts as before.
LEMMA MoreAccounts ==
  ASSUME ConstantsOK, AnAccountRemains, \A id \in IDs : Present(id) => Present(id)'
  PROVE  AnAccountRemains'
  <1>1. {id \in IDs : Present(id)} \subseteq {id \in IDs : Present(id)'}
    OBVIOUS
  <1>2. IsFiniteSet({id \in IDs : Present(id)'})
    BY Constant, FS_Subset
  <1>3. Cardinality({id \in IDs : Present(id)}) <= Cardinality({id \in IDs : Present(id)'})
    BY <1>1, <1>2, FS_Subset
  <1>4. Cardinality({id \in IDs : Present(id)}) \in Nat /\ Cardinality({id \in IDs : Present(id)'}) \in Nat
    BY <1>1, <1>2, FS_Subset, FS_CardinalityType
  <1> QED  BY <1>3, <1>4 DEF AnAccountRemains, Count

\* Every change of an account raises its version.
LEMMA AccountChanged ==
  ASSUME ConstantsOK, AccountsRight, NEW id \in IDs, Present(id), nextID' = nextID,
         NEW u \in Accounts, users' = [users EXCEPT ![id] = u],
         u.version = users[id].version + 1,
         (u.email = "none") # (u.name = "none"),
         \/ u.email = users[id].email /\ u.name = users[id].name
         \/ \A x \in IDs : users[x].email # u.email
  PROVE  AccountsRight' /\ KnownStays
  <1>1. \A x \in IDs : users'[x] = IF x = id THEN u ELSE users[x]
    BY DEF AccountsRight
  <1>2. users[id] \in Accounts /\ u.version > 0 /\ u # Absent
    BY AbsentIsNoAccount DEF AccountsRight, Accounts
  <1>3. \A x \in IDs : Present(x)' <=> Present(x)
    BY <1>1, <1>2 DEF Present, Absent
  <1>4. AnAccountRemains'
    BY <1>3, MoreAccounts DEF AccountsRight
  <1>5. users' \in [IDs -> Accounts]
    BY DEF AccountsRight
  <1>6. \A x \in IDs : Present(x)' => /\ x < nextID' /\ users'[x].version > 0
                                      /\ (users'[x].email = "none") # (users'[x].name = "none")
    BY <1>1, <1>2, <1>3 DEF AccountsRight
  <1>7. \A a, b \in IDs : (Present(a)' /\ Present(b)' /\ a # b) =>
          users'[a].email # users'[b].email \/ users'[a].name # users'[b].name
    BY <1>1, <1>3 DEF AccountsRight
  <1>8. KnownStays
    BY <1>1, <1>2, <1>3 DEF KnownStays, Known, Accounts
  <1> QED  BY <1>4, <1>5, <1>6, <1>7, <1>8 DEF AccountsRight

LEMMA AccountCreated ==
  ASSUME ConstantsOK, AccountsRight, nextID <= MaxAccounts, nextID' = nextID + 1,
         NEW u \in Accounts, users' = [users EXCEPT ![nextID] = u],
         u.version > 0, (u.email = "none") # (u.name = "none"),
         \A x \in IDs : users[x].email # u.email
  PROVE  AccountsRight' /\ KnownStays
  <1>1. nextID \in IDs /\ nextID' \in 3 .. MaxAccounts + 1
    BY Constant DEF AccountsRight, IDs
  <1>2. \A x \in IDs : users'[x] = IF x = nextID THEN u ELSE users[x]
    BY DEF AccountsRight
  <1>3. u # Absent /\ ~Present(nextID)
    BY <1>1, AbsentIsNoAccount DEF AccountsRight
  <1>4. \A x \in IDs : Present(x)' <=> (Present(x) \/ x = nextID)
    BY <1>2, <1>3 DEF Present, Absent
  <1>5. AnAccountRemains'
    BY <1>4, MoreAccounts DEF AccountsRight
  <1>6. users' \in [IDs -> Accounts]
    BY DEF AccountsRight
  <1>7. \A x \in IDs : Present(x)' => /\ x < nextID' /\ users'[x].version > 0
                                      /\ (users'[x].email = "none") # (users'[x].name = "none")
    BY <1>1, <1>2, <1>4 DEF AccountsRight, IDs
  <1>8. \A a, b \in IDs : (Present(a)' /\ Present(b)' /\ a # b) =>
          users'[a].email # users'[b].email \/ users'[a].name # users'[b].name
    BY <1>2, <1>4 DEF AccountsRight
  <1>9. KnownStays
    BY <1>1, <1>2, <1>3, <1>4 DEF KnownStays, Known
  <1> QED  BY <1>1, <1>5, <1>6, <1>7, <1>8, <1>9 DEF AccountsRight

\* A deletion counts the accounts again.
LEMMA AccountDeleted ==
  ASSUME ConstantsOK, AccountsRight, NEW id \in IDs, nextID' = nextID, users' = Deleted(id)
  PROVE  AccountsRight' /\ KnownStays
  <1>1. CASE ~(Count > 1)
    BY <1>1, AccountsKept DEF Deleted
  <1>2. CASE Count > 1
    <2> DEFINE S == {x \in IDs : Present(x)}
               T == {x \in IDs : Present(x)'}
    <2>1. users' = [users EXCEPT ![id] = Absent]
      BY <1>2 DEF Deleted
    <2>2. \A x \in IDs : users'[x] = IF x = id THEN Absent ELSE users[x]
      BY <2>1 DEF AccountsRight
    <2>3. \A x \in IDs : Present(x)' <=> Present(x) /\ x # id
      BY <2>2 DEF Present, Absent
    <2>4. AnAccountRemains'
      <3>1. T = S \ {id}
        BY <2>3
      <3>2. IsFiniteSet(S)
        BY Constant, FS_Subset
      <3>3. Cardinality(T) >= Cardinality(S) - 1 /\ Cardinality(S) \in Nat
        <4>1. Cardinality(S) \in Nat
          BY <3>2, FS_CardinalityType
        <4>2. CASE id \in S
          BY <3>1, <3>2, <4>1, <4>2, FS_RemoveElement
        <4>3. CASE id \notin S
          <5>1. T = S
            BY <3>1, <4>3
          <5> QED  BY <4>1, <5>1
        <4> QED  BY <4>2, <4>3
      <3>4. IsFiniteSet(T) /\ Cardinality(T) \in Nat
        BY <3>1, <3>2, FS_Subset, FS_CardinalityType
      <3> QED  BY <1>2, <3>3, <3>4 DEF AnAccountRemains, Count
    <2>5. users' \in [IDs -> Accounts]
      <3>1. Absent \in Accounts
        BY DEF Absent, Accounts
      <3> QED  BY <2>1, <3>1 DEF AccountsRight
    <2>6. \A x \in IDs : Present(x)' => /\ x < nextID' /\ users'[x].version > 0
                                        /\ (users'[x].email = "none") # (users'[x].name = "none")
      BY <2>2, <2>3 DEF AccountsRight
    <2>7. \A a, b \in IDs : (Present(a)' /\ Present(b)' /\ a # b) =>
            users'[a].email # users'[b].email \/ users'[a].name # users'[b].name
      BY <2>2, <2>3 DEF AccountsRight
    <2>8. KnownStays
      BY <2>2, <2>3 DEF KnownStays, Known
    <2> QED  BY <2>4, <2>5, <2>6, <2>7, <2>8 DEF AccountsRight
  <1> QED  BY <1>1, <1>2
-----------------------------------------------------------------------------
(* Requests and hash slots.                                                *)

\* The slots follow a request that enters or leaves the computation of a hash.
LEMMA SlotsFollow ==
  ASSUME ConstantsOK, SlotsRight, NEW r \in Requests, NEW q \in Request,
         req' = [req EXCEPT ![r] = q],
         \/ req[r].pc # "hash" /\ q.pc # "hash" /\ slots' = slots
         \/ req[r].pc # "hash" /\ q.pc = "hash" /\ slots < HashSlots /\ slots' = slots + 1
         \/ req[r].pc = "hash" /\ q.pc # "hash" /\ slots' = slots - 1
  PROVE  SlotsRight'
  <1> DEFINE S == {x \in Requests : req[x].pc = "hash"}
             T == {x \in Requests : req'[x].pc = "hash"}
  <1>1. \A x \in Requests : req'[x] = IF x = r THEN q ELSE req[x]
    BY DEF SlotsRight
  <1>2. req' \in [Requests -> Request]
    BY DEF SlotsRight
  <1>3. IsFiniteSet(S) /\ Cardinality(S) \in Nat /\ slots = Cardinality(S)
    BY Constant, FS_Subset, FS_CardinalityType DEF SlotsRight, SlotsAreHashes
  <1>4. HashSlots \in Nat /\ slots <= HashSlots
    BY Constant DEF SlotsRight
  <1>5. CASE req[r].pc # "hash" /\ q.pc # "hash" /\ slots' = slots
    <2>1. T = S
      BY <1>1, <1>5
    <2> QED  BY <1>2, <1>3, <1>4, <1>5, <2>1 DEF SlotsRight, SlotsAreHashes
  <1>6. CASE req[r].pc # "hash" /\ q.pc = "hash" /\ slots < HashSlots /\ slots' = slots + 1
    <2>1. T = S \cup {r} /\ r \notin S
      BY <1>1, <1>6
    <2>2. Cardinality(T) = Cardinality(S) + 1
      BY <1>3, <2>1, FS_AddElement
    <2> QED  BY <1>2, <1>3, <1>4, <1>6, <2>2 DEF SlotsRight, SlotsAreHashes
  <1>7. CASE req[r].pc = "hash" /\ q.pc # "hash" /\ slots' = slots - 1
    <2>1. T = S \ {r} /\ r \in S
      BY <1>1, <1>7
    <2>2. Cardinality(T) = Cardinality(S) - 1 /\ Cardinality(T) \in Nat
      BY <1>3, <2>1, FS_RemoveElement, FS_CardinalityType, FS_Subset
    <2> QED  BY <1>2, <1>3, <1>4, <1>7, <2>2 DEF SlotsRight, SlotsAreHashes
  <1> QED  BY <1>5, <1>6, <1>7

LEMMA IdleRequest ==
  ASSUME ConstantsOK
  PROVE  Idle \in Request /\ CopyKnown(Idle) /\ CopyKnown(Idle)' /\ Idle.pc = "idle"
  <1>1. Absent \in Accounts
    BY DEF Absent, Accounts
  <1>2. Idle \in Request /\ Idle.pc = "idle"
    BY <1>1, Constant DEF Idle, Request, Pcs
  <1> QED  BY <1>2 DEF CopyKnown

\* A copy of an account that was known stays known, and the other requests
\* keep theirs.
LEMMA CopiesStay ==
  ASSUME ConstantsOK, KnownStays, NEW q \in Request, CopyKnown(q)
  PROVE  CopyKnown(q)'
  <1>1. q.id \in Int /\ q.user.version \in Nat /\ q.user.password \in Nat
    BY Constant DEF Request, Accounts
  <1>2. Known(q.id, q.user.version, q.user.password) => Known(q.id, q.user.version, q.user.password)'
    BY <1>1 DEF KnownStays
  <1> QED  BY <1>2 DEF CopyKnown

LEMMA OthersStay ==
  ASSUME ConstantsOK, KnownStays, req \in [Requests -> Request],
         \A x \in Requests : CopyKnown(req[x]),
         NEW r \in Requests, NEW q, CopyKnown(q)', req' = [req EXCEPT ![r] = q]
  PROVE  \A x \in Requests : CopyKnown(req[x])'
  <1>1. ASSUME NEW x \in Requests PROVE CopyKnown(req[x])'
    <2>1. PICK c \in Request : c = req[x]
      OBVIOUS
    <2>2. CopyKnown(c)'
      BY <2>1, CopiesStay
    <2>3. CASE x = r
      <3>1. (req[x])' = q
        BY <2>3
      <3> QED  BY <3>1 DEF CopyKnown
    <2>4. CASE x # r
      <3>1. (req[x])' = c
        BY <2>1, <2>4
      <3> QED  BY <2>2, <3>1 DEF CopyKnown
    <2> QED  BY <2>3, <2>4
  <1> QED  BY <1>1
-----------------------------------------------------------------------------
(* The limiter.                                                            *)

LEMMA AttemptsKept ==
  ASSUME AttemptsRight, entries' = entries, now' = now, hist'.tried = hist.tried
  PROVE  AttemptsRight'
  <1>1. Used(entries)' = Used(entries)
    BY DEF Used
  <1> QED  BY <1>1 DEF AttemptsRight, LimiterBounded, AttemptsCounted

LEMMA AttemptsAge ==
  ASSUME AttemptsRight, Clocked, ConstantsOK, entries' = entries, now' = now + 1,
         hist'.tried = hist.tried
  PROVE  AttemptsRight'
  <1>1. Used(entries)' = Used(entries)
    BY DEF Used
  <1>2. now \in Nat
    BY Constant DEF Clocked
  <1>3. AttemptsCounted'
    BY <1>2 DEF AttemptsRight, AttemptsCounted
  <1> QED  BY <1>1, <1>3 DEF AttemptsRight, LimiterBounded

LEMMA AttemptsForgotten ==
  ASSUME ConstantsOK, entries' = [k \in Keys |-> NoEntry],
         hist'.tried = [k \in Keys |-> [t \in 1 .. MaxTime |-> 0]]
  PROVE  AttemptsRight'
  <1>1. Used(entries)' = {}
    BY DEF Used
  <1>2. IsFiniteSet({}) /\ Cardinality({}) = 0
    BY FS_EmptySet
  <1>3. LimiterBounded' /\ IsFiniteSet(Used(entries))'
    <2>1. MaxEntries \in Nat
      BY Constant
    <2>2. Cardinality(Used(entries)') = 0 /\ IsFiniteSet(Used(entries)')
      BY <1>1, <1>2
    <2>3. LimiterBounded' <=> Cardinality(Used(entries)') <= MaxEntries
      BY DEF LimiterBounded
    <2> QED  BY <2>1, <2>2, <2>3
  <1>4. AttemptsCounted'
    <2>1. \A k \in Keys, t \in 1 .. MaxTime : hist'.tried[k][t] = 0
      OBVIOUS
    <2> QED  BY <2>1, Constant DEF AttemptsCounted, Keys
  <1>5. entries' \in [Keys -> [count : Nat, expires : Nat]]
    BY DEF NoEntry
  <1> QED  BY <1>3, <1>4, <1>5 DEF AttemptsRight

\* What the limiter drops has expired.
LEMMA FreshEntries ==
  ASSUME ConstantsOK, AttemptsRight
  PROVE  /\ Fresh \in [Keys -> [count : Nat, expires : Nat]]
         /\ IsFiniteSet(Used(Fresh))
         /\ Cardinality(Used(Fresh)) \in Nat /\ Cardinality(Used(Fresh)) <= MaxEntries
         /\ \A k \in Keys : Fresh[k] = IF now < entries[k].expires THEN entries[k] ELSE NoEntry
  <1>1. Fresh \in [Keys -> [count : Nat, expires : Nat]]
    BY DEF AttemptsRight, Fresh, NoEntry
  <1>2. \A k \in Keys : Fresh[k] = IF now < entries[k].expires THEN entries[k] ELSE NoEntry
    BY DEF Fresh
  <1>3. Used(Fresh) \subseteq Used(entries)
    BY <1>2 DEF Used
  <1>4. IsFiniteSet(Used(Fresh)) /\ Cardinality(Used(Fresh)) <= Cardinality(Used(entries))
    BY <1>3, FS_Subset DEF AttemptsRight
  <1>5. Cardinality(Used(Fresh)) \in Nat /\ Cardinality(Used(entries)) \in Nat
    BY <1>4, FS_CardinalityType DEF AttemptsRight
  <1> QED  BY <1>1, <1>2, <1>4, <1>5, Constant DEF AttemptsRight, LimiterBounded

\* An attempt that is refused.
LEMMA AttemptRefused ==
  ASSUME ConstantsOK, AttemptsRight, entries' = Fresh, now' = now, hist'.tried = hist.tried
  PROVE  AttemptsRight'
  <1>1. Used(entries)' = Used(Fresh)
    BY DEF Used
  <1>2. AttemptsCounted'
    BY FreshEntries DEF AttemptsRight, AttemptsCounted, Keys
  <1> QED  BY <1>1, <1>2, FreshEntries DEF AttemptsRight, LimiterBounded

\* One cell of a table of numbers is raised by one.
LEMMA CellRaised ==
  ASSUME NEW S, NEW T, NEW h \in [S -> [T -> Nat]], NEW s \in S, NEW t \in T, NEW g,
         g = [h EXCEPT ![s] = [h[s] EXCEPT ![t] = h[s][t] + 1]]
  PROVE  /\ g \in [S -> [T -> Nat]]
         /\ \A x \in S, y \in T : g[x][y] = IF x = s /\ y = t THEN h[x][y] + 1 ELSE h[x][y]
  <1>1. PICK row : row = [h[s] EXCEPT ![t] = h[s][t] + 1]
    OBVIOUS
  <1>2. h[s] \in [T -> Nat] /\ h[s][t] + 1 \in Nat
    OBVIOUS
  <1>3. row \in [T -> Nat] /\ \A y \in T : row[y] = IF y = t THEN h[s][t] + 1 ELSE h[s][y]
    BY <1>1, <1>2
  <1>4. g = [h EXCEPT ![s] = row]
    BY <1>1
  <1>5. \A x \in S : g[x] = IF x = s THEN row ELSE h[x]
    BY <1>4
  <1>6. g \in [S -> [T -> Nat]]
    BY <1>3, <1>4
  <1> QED  BY <1>3, <1>5, <1>6

\* An attempt that is let through is counted for the name and the address.
LEMMA AttemptCounted ==
  ASSUME ConstantsOK, Clocked, AttemptsRight, NEW who \in Emails \cup Names,
         NEW address \in Addresses, Allowed(who, address), now' = now,
         entries' = [Fresh EXCEPT ![who] = Counted(who), ![address] = Counted(address)],
         hist'.tried = [hist.tried EXCEPT ![who] =
                          [hist.tried[who] EXCEPT ![now] = hist.tried[who][now] + 1]]
  PROVE  AttemptsRight'
  <1>1. who # address /\ who \in Keys /\ address \in Keys /\ now \in 1 .. MaxTime /\ now \in Nat
    BY Constant DEF Keys, Clocked
  <1>2. Counted(who) \in [count : Nat, expires : Nat] /\ Counted(address) \in [count : Nat, expires : Nat]
    BY <1>1, FreshEntries, Constant DEF Counted
  <1>3. \A k \in Keys : entries'[k] = CASE k = who -> Counted(who)
                                         [] k = address -> Counted(address)
                                         [] OTHER -> Fresh[k]
    BY <1>1, FreshEntries
  <1>4. entries' \in [Keys -> [count : Nat, expires : Nat]]
    BY <1>2, FreshEntries
  <1>5. IsFiniteSet(Used(entries))' /\ LimiterBounded'
    <2> DEFINE S == Used(Fresh) \cup {who, address}
    <2>1. Used(entries)' \subseteq S
      BY <1>3 DEF Used
    <2>2. IsFiniteSet({who}) /\ IsFiniteSet({address})
      BY FS_Singleton
    <2>3. IsFiniteSet({who} \cup {address})
      BY <2>2, FS_Union
    <2>4. IsFiniteSet(S)
      <3>1. S = Used(Fresh) \cup ({who} \cup {address})
        OBVIOUS
      <3> QED  BY <2>3, <3>1, FreshEntries, FS_Union
    <2>5. IsFiniteSet(Used(entries)') /\ Cardinality(Used(entries)') <= Cardinality(S)
      BY <2>1, <2>4, FS_Subset
    <2>6. Cardinality(Used(entries)') \in Nat /\ Cardinality(S) \in Nat
      BY <2>4, <2>5, FS_CardinalityType
    <2>7. Cardinality(S) <= MaxEntries
      BY DEF Allowed
    <2> QED  BY <2>5, <2>6, <2>7, Constant DEF LimiterBounded
  <1>6. /\ hist'.tried \in [Keys -> [1 .. MaxTime -> Nat]]
        /\ \A k \in Keys, t \in 1 .. MaxTime :
             hist'.tried[k][t] = IF k = who /\ t = now THEN hist.tried[k][t] + 1 ELSE hist.tried[k][t]
    <2> DEFINE h == hist.tried
               g == hist'.tried
               T == 1 .. MaxTime
    <2>1. h \in [Keys -> [T -> Nat]] /\ who \in Keys /\ now \in T
      BY <1>1 DEF AttemptsRight
    <2>2. g = [h EXCEPT ![who] = [h[who] EXCEPT ![now] = h[who][now] + 1]]
      OBVIOUS
    <2> HIDE DEF h, g, T
    <2>3. /\ g \in [Keys -> [T -> Nat]]
          /\ \A x \in Keys, y \in T : g[x][y] = IF x = who /\ y = now THEN h[x][y] + 1 ELSE h[x][y]
      BY <2>1, <2>2, CellRaised
    <2> QED  BY <2>3 DEF h, g, T
  <1>8. Fresh[who].count \in Nat /\ Fresh[who].count < UserLimit /\ Counted(who).count = Fresh[who].count + 1
        /\ now < Counted(who).expires /\ hist.tried[who][now] <= Fresh[who].count
    <2>1. Fresh[who] \in [count : Nat, expires : Nat]
      BY <1>1, FreshEntries
    <2>2. Fresh[who].count # 0 => now < Fresh[who].expires
      BY <1>1, FreshEntries DEF NoEntry
    <2>3. hist.tried[who][now] <= Fresh[who].count
      <3>1. hist.tried[who][now] \in Nat
        BY <1>1 DEF AttemptsRight
      <3>2. CASE hist.tried[who][now] = 0
        BY <2>1, <3>2
      <3>3. CASE hist.tried[who][now] > 0
        <4>1. now < entries[who].expires /\ hist.tried[who][now] <= entries[who].count
          BY <1>1, <3>3 DEF AttemptsRight, AttemptsCounted
        <4> QED  BY <1>1, <4>1, FreshEntries
      <3> QED  BY <3>1, <3>2, <3>3
    <2> QED  BY <1>1, <2>1, <2>2, <2>3, Constant DEF Allowed, Counted
  <1>9. AttemptsCounted'
    <2> SUFFICES ASSUME NEW k \in Emails \cup Names, NEW t \in 1 .. MaxTime
                 PROVE  /\ hist'.tried[k][t] <= UserLimit
                        /\ t > now => hist'.tried[k][t] = 0
                        /\ t = now /\ hist'.tried[k][t] > 0
                             => now < entries'[k].expires /\ hist'.tried[k][t] <= entries'[k].count
      BY DEF AttemptsCounted
    <2>1. k \in Keys /\ k # address
      BY Constant DEF Keys
    <2>2. hist.tried[k][t] \in Nat
      BY <2>1 DEF AttemptsRight
    <2>3. CASE k = who
      <3>1. entries'[k] = Counted(who)
        BY <1>3, <2>1, <2>3
      <3>2. CASE t = now
        <4>1. hist'.tried[k][t] = hist.tried[who][now] + 1
          BY <1>6, <2>1, <2>3, <3>2
        <4> QED  BY <1>1, <1>8, <2>2, <2>3, <3>1, <3>2, <4>1, Constant
      <3>3. CASE t # now
        <4>1. hist'.tried[k][t] = hist.tried[k][t]
          BY <1>6, <2>1, <3>3
        <4> QED  BY <3>3, <4>1 DEF AttemptsRight, AttemptsCounted
      <3> QED  BY <3>2, <3>3
    <2>4. CASE k # who
      <3>1. entries'[k] = Fresh[k] /\ hist'.tried[k][t] = hist.tried[k][t]
        BY <1>3, <1>6, <2>1, <2>4
      <3> QED  BY <2>1, <2>2, <3>1, FreshEntries DEF AttemptsRight, AttemptsCounted
    <2> QED  BY <2>3, <2>4
  <1> QED  BY <1>4, <1>5, <1>6, <1>9 DEF AttemptsRight
-----------------------------------------------------------------------------
(* Steps.                                                                  *)

LEMMA SessionsKept ==
  ASSUME ConstantsOK, SessionsRight, KnownStays, sessions' = sessions
  PROVE  SessionsRight'
  <1>1. \A s \in sessions : s.id \in Int /\ s.version \in Nat /\ s.guess \in Nat
    BY Constant DEF SessionsRight, SessionValue, IDs
  <1> QED  BY <1>1 DEF SessionsRight, KnownStays

\* What every step that changes one request, or none, has to leave right.
OtherPartsRight ==
  /\ AccountsRight' /\ KnownStays /\ AttemptsRight' /\ SessionsRight' /\ Clocked'
  /\ hist' \in History /\ ~hist'.wrong

LEMMA RequestStep ==
  ASSUME ConstantsOK, Right, OtherPartsRight, NEW r \in Requests, NEW q \in Request,
         req' = [req EXCEPT ![r] = q], CopyKnown(q)',
         \/ req[r].pc # "hash" /\ q.pc # "hash" /\ slots' = slots
         \/ req[r].pc # "hash" /\ q.pc = "hash" /\ slots < HashSlots /\ slots' = slots + 1
         \/ req[r].pc = "hash" /\ q.pc # "hash" /\ slots' = slots - 1
  PROVE  Right'
  <1>1. SlotsRight'
    BY SlotsFollow DEF Right
  <1>2. \A x \in Requests : CopyKnown(req[x])'
    BY OthersStay DEF Right, OtherPartsRight, SlotsRight
  <1> QED  BY <1>1, <1>2, Zenon DEF Right, OtherPartsRight

LEMMA RequestsRest ==
  ASSUME ConstantsOK, Right, OtherPartsRight, req' = req, slots' = slots
  PROVE  Right'
  <1>1. SlotsRight'
    BY DEF Right, SlotsRight, SlotsAreHashes
  <1>2. ASSUME NEW x \in Requests PROVE CopyKnown(req[x])'
    <2>1. PICK c \in Request : c = req[x]
      BY DEF Right, SlotsRight
    <2>2. CopyKnown(c)'
      BY <1>2, <2>1, CopiesStay DEF Right, OtherPartsRight
    <2>3. (req[x])' = c
      BY <2>1
    <2> QED  BY <2>2, <2>3 DEF CopyKnown
  <1> QED  BY <1>1, <1>2, Zenon DEF Right, OtherPartsRight

\* A step that leaves accounts, limiter and sessions alone.
LEMMA NothingElse ==
  ASSUME ConstantsOK, Right, UNCHANGED <<Stored, now, sessions, entries, hist>>
  PROVE  OtherPartsRight
  <1>1. AccountsRight' /\ KnownStays
    BY AccountsKept DEF Right, Stored
  <1>2. SessionsRight'
    BY <1>1, SessionsKept DEF Right
  <1>3. AttemptsRight'
    BY AttemptsKept DEF Right
  <1>4. Clocked'
    BY Zenon DEF Right, Clocked, Stored
  <1>5. hist' \in History /\ ~hist'.wrong
    BY Zenon DEF Right
  <1> QED  BY <1>1, <1>2, <1>3, <1>4, <1>5, Zenon DEF OtherPartsRight

\* A step that changes the accounts only.
LEMMA AccountsOnly ==
  ASSUME ConstantsOK, Right, AccountsRight', KnownStays, nextPassword' \in 2 .. MaxPasswords + 1,
         UNCHANGED <<google, now, sessions, entries, hist>>
  PROVE  OtherPartsRight
  <1>1. SessionsRight'
    BY SessionsKept DEF Right
  <1>2. AttemptsRight'
    BY AttemptsKept DEF Right
  <1>3. Clocked'
    BY Zenon DEF Right, Clocked
  <1>4. hist' \in History /\ ~hist'.wrong
    BY Zenon DEF Right
  <1> QED  BY <1>1, <1>2, <1>3, <1>4, Zenon DEF OtherPartsRight

LEMMA StutterStep == ASSUME ConstantsOK, Right, UNCHANGED vars PROVE Right'
  <1>1. UNCHANGED <<Stored, now, sessions, entries, hist>> /\ UNCHANGED <<req, slots>>
    BY DEF vars, Stored
  <1> QED  BY <1>1, NothingElse, RequestsRest

LEMMA TickStep == ASSUME ConstantsOK, Right, Tick PROVE Right'
  <1>1. AccountsRight' /\ KnownStays
    BY AccountsKept DEF Right, Stored, Tick
  <1>2. SessionsRight'
    BY <1>1, SessionsKept DEF Right, Tick
  <1>3. AttemptsRight'
    BY AttemptsAge DEF Right, Tick
  <1>4. now' \in 1 .. MaxTime /\ nextPassword' = nextPassword /\ google' = google
    BY Constant DEF Right, Clocked, Stored, Tick
  <1>5. Clocked'
    BY <1>4, Zenon DEF Right, Clocked
  <1>6. hist' \in History /\ ~hist'.wrong
    BY Zenon DEF Right, Tick
  <1>7. req' = req /\ slots' = slots
    BY DEF Tick
  <1> QED  BY <1>1, <1>2, <1>3, <1>5, <1>6, <1>7, RequestsRest, Zenon DEF OtherPartsRight

LEMMA RestartStep == ASSUME ConstantsOK, Right, Restart PROVE Right'
  <1>1. AccountsRight' /\ KnownStays
    BY AccountsKept DEF Right, Restart
  <1>2. SessionsRight'
    BY <1>1, SessionsKept DEF Right, Restart
  <1>3. /\ hist'.tried = [k \in Keys |-> [t \in 1 .. MaxTime |-> 0]]
        /\ hist' \in History /\ ~hist'.wrong
    <2>1. PICK h : h = [k \in Keys |-> [t \in 1 .. MaxTime |-> 0]]
      OBVIOUS
    <2>2. h \in [Keys -> [1 .. MaxTime -> Nat]]
      BY <2>1
    <2>3. hist' = [hist EXCEPT !.tried = h]
      BY <2>1 DEF Restart
    <2>4. hist \in History /\ ~hist.wrong
      BY Zenon DEF Right
    <2>5. hist'.tried = h /\ hist'.wrong = hist.wrong /\ hist' \in History
      BY <2>2, <2>3, <2>4 DEF History
    <2> QED  BY <2>1, <2>4, <2>5, Zenon
  <1>4. AttemptsRight'
    BY <1>3, AttemptsForgotten DEF Restart
  <1>5. Clocked'
    BY Zenon DEF Right, Clocked, Restart
  <1>6. SlotsRight'
    <2>1. req' \in [Requests -> Request] /\ {r \in Requests : req'[r].pc = "hash"} = {}
      BY IdleRequest DEF Restart
    <2>2. Cardinality({}) = 0
      BY FS_EmptySet
    <2>3. slots' = 0 /\ HashSlots \in Nat
      BY Constant DEF Restart
    <2>4. SlotsAreHashes'
      BY <2>1, <2>2, <2>3 DEF SlotsAreHashes
    <2> QED  BY <2>1, <2>3, <2>4 DEF SlotsRight
  <1>7. ASSUME NEW r \in Requests PROVE CopyKnown(req[r])'
    <2>1. (req[r])' = Idle
      BY DEF Restart
    <2> QED  BY <2>1, IdleRequest DEF CopyKnown
  <1> QED  BY <1>1, <1>2, <1>3, <1>4, <1>5, <1>6, <1>7, Zenon DEF Right

LEMMA PasswordLoginStep ==
  ASSUME ConstantsOK, Right, NEW r \in Requests, PasswordLogin(r)
  PROVE  Right'
  <1>1. PICK who \in Emails \cup Names, address \in Addresses, guess \in 1 .. nextPassword - 1 :
          AuthenticatePassword(r, who, address, guess)
    BY DEF PasswordLogin
  <1>2. AccountsRight' /\ KnownStays
    BY <1>1, AccountsKept DEF Right, Stored, AuthenticatePassword
  <1>3. SessionsRight'
    BY <1>1, <1>2, SessionsKept DEF Right, AuthenticatePassword
  <1>4. Clocked'
    BY <1>1, Zenon DEF Right, Clocked, Stored, AuthenticatePassword
  <1>5. CASE ~Allowed(who, address)
    <2>1. entries' = Fresh /\ hist' = hist /\ req' = req /\ slots' = slots /\ now' = now
      BY <1>1, <1>5 DEF AuthenticatePassword
    <2>2. AttemptsRight'
      BY <2>1, AttemptRefused DEF Right
    <2>3. hist' \in History /\ ~hist'.wrong
      BY <2>1, Zenon DEF Right
    <2> QED  BY <1>2, <1>3, <1>4, <2>1, <2>2, <2>3, RequestsRest, Zenon DEF OtherPartsRight
  <1>6. CASE Allowed(who, address)
    <2>1. /\ entries' = [Fresh EXCEPT ![who] = Counted(who), ![address] = Counted(address)]
          /\ hist' = [hist EXCEPT !.tried[who][now] = hist.tried[who][now] + 1]
          /\ TakeSlot(r, who, guess)
          /\ now' = now /\ req[r] = Idle
      BY <1>1, <1>6 DEF AuthenticatePassword
    <2>2. /\ hist'.tried = [hist.tried EXCEPT ![who] =
                              [hist.tried[who] EXCEPT ![now] = hist.tried[who][now] + 1]]
          /\ hist' \in History /\ ~hist'.wrong
      <3>1. PICK h : h = [hist.tried EXCEPT ![who] =
                              [hist.tried[who] EXCEPT ![now] = hist.tried[who][now] + 1]]
        OBVIOUS
      <3>2. hist' = [hist EXCEPT !.tried = h]
        BY <2>1, <3>1
      <3>3. hist \in History /\ ~hist.wrong
        BY Zenon DEF Right
      <3>4. h \in [Keys -> [1 .. MaxTime -> Nat]]
        <4> DEFINE f == hist.tried
                   T == 1 .. MaxTime
        <4>1. f \in [Keys -> [T -> Nat]] /\ who \in Keys /\ now \in T
          BY <3>3 DEF History, Right, Clocked, Keys
        <4>2. h = [f EXCEPT ![who] = [f[who] EXCEPT ![now] = f[who][now] + 1]]
          BY <3>1
        <4> HIDE DEF f, T
        <4>3. h \in [Keys -> [T -> Nat]]
          BY <4>1, <4>2, CellRaised
        <4> QED  BY <4>3 DEF T
      <3>5. hist'.tried = h /\ hist'.wrong = hist.wrong /\ hist' \in History
        BY <3>2, <3>3, <3>4 DEF History
      <3> QED  BY <3>1, <3>3, <3>5, Zenon
    <2>3. AttemptsRight'
      BY <1>6, <2>1, <2>2, AttemptCounted DEF Right
    <2>4. OtherPartsRight
      BY <1>2, <1>3, <1>4, <2>2, <2>3, Zenon DEF OtherPartsRight
    <2>5. CASE slots >= HashSlots
      BY <2>1, <2>4, <2>5, RequestsRest DEF TakeSlot
    <2>6. CASE ~(slots >= HashSlots)
      <3>1. PICK id, user : /\ id = IF Lookup(who) = {} THEN 0 ELSE CHOOSE x \in Lookup(who) : TRUE
                            /\ user = IF Lookup(who) = {} THEN Absent
                                      ELSE users[CHOOSE x \in Lookup(who) : TRUE]
        OBVIOUS
      <3>2. PICK q : q = [pc |-> "hash", user |-> user, id |-> id, guess |-> guess,
                          provider |-> "password"]
        OBVIOUS
      <3>3. req' = [req EXCEPT ![r] = q] /\ slots' = slots + 1
        BY <2>1, <2>6, <3>1, <3>2 DEF TakeSlot, Idle
      <3>4. \/ id = 0 /\ user = Absent
            \/ id \in IDs /\ Present(id) /\ user = users[id]
        BY <3>1 DEF Lookup
      <3>5. user \in Accounts /\ id \in 0 .. MaxAccounts
        BY <3>4, Constant DEF Right, AccountsRight, IDs, Absent, Accounts
      <3>6. guess \in Nat
        BY DEF Right, Clocked
      <3>7. q \in Request
        BY <3>2, <3>5, <3>6 DEF Request, Pcs, Providers
      <3>8. id # 0 => Known(id, user.version, user.password)
        BY <3>4, <3>5, Constant DEF Known, Right, AccountsRight, Accounts
      <3>9. CopyKnown(q)
        BY <3>2, <3>8 DEF CopyKnown
      <3>10. CopyKnown(q)'
        BY <1>2, <3>7, <3>9, CopiesStay
      <3>11. slots < HashSlots /\ req[r].pc # "hash" /\ q.pc = "hash"
        BY <2>1, <2>6, <3>2, Constant DEF Right, SlotsRight, Idle
      <3> QED  BY <2>4, <3>3, <3>7, <3>10, <3>11, RequestStep
    <2> QED  BY <2>5, <2>6
  <1> QED  BY <1>5, <1>6

LEMMA VerifyPasswordStep ==
  ASSUME ConstantsOK, Right, NEW r \in Requests, VerifyPassword(r)
  PROVE  Right'
  <1>1. req[r] \in Request /\ CopyKnown(req[r]) /\ req[r].pc = "hash" /\ slots' = slots - 1
    BY DEF Right, SlotsRight, VerifyPassword, SlotBack
  <1>2. OtherPartsRight
    BY NothingElse DEF VerifyPassword
  <1>3. CASE Verified(req[r])
    <2>1. PICK q : q = [req[r] EXCEPT !.pc = "session"]
      OBVIOUS
    <2>2. req' = [req EXCEPT ![r] = q]
      BY <1>3, <2>1 DEF VerifyPassword
    <2>3. q \in Request /\ q.pc = "session" /\ q.id = req[r].id /\ q.user = req[r].user
          /\ q.guess = req[r].guess /\ q.provider = req[r].provider
      BY <1>1, <2>1 DEF Request, Pcs
    <2>4. CopyKnown(q)
      BY <1>1, <1>3, <2>3 DEF CopyKnown, Verified, Providers
    <2>5. CopyKnown(q)'
      BY <1>2, <2>3, <2>4, CopiesStay DEF OtherPartsRight
    <2> QED  BY <1>1, <1>2, <2>2, <2>3, <2>5, RequestStep
  <1>4. CASE ~Verified(req[r])
    <2>1. req' = [req EXCEPT ![r] = Idle]
      BY <1>4 DEF VerifyPassword, Done
    <2> QED  BY <1>1, <1>2, <2>1, IdleRequest, RequestStep
  <1> QED  BY <1>3, <1>4

LEMMA GoogleCallbackStep ==
  ASSUME ConstantsOK, Right, NEW r \in Requests, GoogleCallback(r)
  PROVE  Right'
  <1>1. PICK email \in Emails : CompleteLogin(r, email)
    BY DEF GoogleCallback
  <1>2. PICK id \in IDs : /\ Present(id)
                          /\ req' = [req EXCEPT ![r] = [Idle EXCEPT !.pc = "session", !.id = id,
                                       !.user = users[id], !.provider = "google"]]
    BY <1>1 DEF CompleteLogin
  <1>3. PICK q : q = [Idle EXCEPT !.pc = "session", !.id = id, !.user = users[id],
                                  !.provider = "google"]
    OBVIOUS
  <1>4. req' = [req EXCEPT ![r] = q]
    BY <1>2, <1>3
  <1>5. OtherPartsRight
    BY <1>1, NothingElse DEF CompleteLogin
  <1>6. users[id] \in Accounts /\ id < nextID /\ id \in 0 .. MaxAccounts /\ id # 0
    BY <1>2, Constant DEF Right, AccountsRight, IDs
  <1>7. q \in Request /\ q.pc = "session" /\ q.id = id /\ q.user = users[id] /\ q.provider = "google"
    BY <1>3, <1>6, IdleRequest DEF Request, Pcs, Providers
  <1>8. CopyKnown(q)
    <2>1. Known(id, users[id].version, users[id].password)
      BY <1>6 DEF Known, Accounts
    <2> QED  BY <1>6, <1>7, <2>1 DEF CopyKnown, Providers
  <1>9. CopyKnown(q)'
    BY <1>5, <1>7, <1>8, CopiesStay DEF OtherPartsRight
  <1>10. req[r].pc # "hash" /\ q.pc # "hash" /\ slots' = slots
    BY <1>1, <1>7 DEF CompleteLogin, Idle
  <1> QED  BY <1>4, <1>5, <1>7, <1>9, <1>10, RequestStep

LEMMA NewSessionStep ==
  ASSUME ConstantsOK, Right, NEW r \in Requests, NewSession(r)
  PROVE  Right'
  <1>1. PICK q \in Request : q = req[r]
    BY DEF Right, SlotsRight
  <1>2. q.pc = "session" /\ CopyKnown(q)
    BY <1>1 DEF Right, NewSession
  <1>3. AccountsRight' /\ KnownStays
    BY AccountsKept DEF Right, Stored, NewSession
  <1>4. Session(q) \in SessionValue
    BY <1>2, Constant DEF Session, SessionValue, Request, CopyKnown, Right, Clocked, IDs, Accounts
  <1>5. Session(q).provider = "password"
          => Known(Session(q).id, Session(q).version, Session(q).guess)
    BY <1>2 DEF Session, CopyKnown
  <1>6. sessions' = sessions \cup {Session(q)}
    BY <1>1 DEF NewSession
  <1>7. SessionsRight'
    <2>1. ASSUME NEW s \in sessions', s.provider = "password"
          PROVE  s \in SessionValue /\ Known(s.id, s.version, s.guess)'
      <3>1. s \in SessionValue /\ Known(s.id, s.version, s.guess)
        BY <1>4, <1>5, <1>6, <2>1 DEF Right, SessionsRight
      <3>2. s.id \in Int /\ s.version \in Nat /\ s.guess \in Nat
        BY <3>1, Constant DEF SessionValue, IDs
      <3> QED  BY <1>3, <3>1, <3>2 DEF KnownStays
    <2>2. sessions' \subseteq SessionValue
      BY <1>4, <1>6 DEF Right, SessionsRight
    <2> QED  BY <2>1, <2>2 DEF SessionsRight
  <1>8. AttemptsRight'
    BY AttemptsKept DEF Right, NewSession
  <1>9. Clocked' /\ hist' \in History /\ ~hist'.wrong
    BY Zenon DEF Right, Clocked, Stored, NewSession
  <1>10. OtherPartsRight
    BY <1>3, <1>7, <1>8, <1>9, Zenon DEF OtherPartsRight
  <1>11. req' = [req EXCEPT ![r] = Idle] /\ slots' = slots /\ req[r].pc # "hash"
    BY <1>1, <1>2 DEF NewSession, Done
  <1> QED  BY <1>10, <1>11, IdleRequest, RequestStep

\* A session that is accepted was obtained with the present password.
LEMMA ValidIsRight ==
  ASSUME ConstantsOK, Right, NEW s \in sessions, Valid(s)
  PROVE  ~Wrong(s)
  <1>1. Present(s.id) /\ now < s.expires
    BY Zenon DEF Valid
  <1>2. s.provider = "google" => google
    BY Zenon DEF Valid
  <1>3. now \in Nat /\ s.expires \in Nat
    BY Constant DEF Right, Clocked, SessionsRight, SessionValue
  <1>4. s.provider = "password" => s.guess = users[s.id].password
    <2>1. users[s.id].version = s.version
      BY Zenon DEF Valid
    <2> QED  BY <1>1, <2>1 DEF Right, SessionsRight, Known
  <1>5. ~(now >= s.expires)
    BY <1>1, <1>3
  <1> QED  BY <1>1, <1>2, <1>4, <1>5, Zenon DEF Wrong

LEMMA WithAuthenticationStep ==
  ASSUME ConstantsOK, Right, NEW r \in Requests, NEW s \in sessions, WithAuthentication(r, s)
  PROVE  Right'
  <1>1. ~Wrong(s)
    BY ValidIsRight DEF WithAuthentication
  <1>2. hist' \in History /\ ~hist'.wrong /\ hist'.tried = hist.tried
    <2>1. PICK b : b = (hist.wrong \/ Wrong(s))
      OBVIOUS
    <2>2. hist' = [hist EXCEPT !.wrong = b]
      BY <2>1, Zenon DEF WithAuthentication
    <2>3. hist \in History /\ ~hist.wrong
      BY Zenon DEF Right
    <2>4. b = FALSE
      BY <1>1, <2>1, <2>3, Zenon
    <2>5. hist' = [hist EXCEPT !.wrong = FALSE]
      BY <2>2, <2>4, Zenon
    <2>6. hist' \in History /\ hist'.wrong = FALSE /\ hist'.tried = hist.tried
      BY ONLY <2>3, <2>5 DEF History
    <2> QED  BY <2>6, Zenon
  <1>3. AccountsRight' /\ KnownStays
    BY AccountsKept DEF Right, Stored, WithAuthentication
  <1>4. SessionsRight'
    BY <1>3, SessionsKept DEF Right, WithAuthentication
  <1>5. AttemptsRight'
    <2>1. entries' = entries /\ now' = now
      BY Zenon DEF WithAuthentication
    <2>2. AttemptsRight
      BY DEF Right
    <2> QED  BY ONLY <1>2, <2>1, <2>2, AttemptsKept
  <1>6. Clocked'
    BY Zenon DEF Right, Clocked, Stored, WithAuthentication
  <1>7. PICK q : q = [pc |-> "settings", user |-> Absent, id |-> 0, guess |-> 0, provider |-> "none"]
    OBVIOUS
  <1>8. /\ req' = [req EXCEPT ![r] = q] /\ slots' = slots
        /\ req[r].pc # "hash" /\ q.pc = "settings" /\ q \in Request
    <2>1. req[r] = Idle /\ req' = [req EXCEPT ![r] = [Idle EXCEPT !.pc = "settings"]] /\ slots' = slots
      BY Zenon DEF WithAuthentication
    <2>2. [Idle EXCEPT !.pc = "settings"] = q
      BY <1>7 DEF Idle
    <2>3. Idle.pc # "hash" /\ Idle \in Request
      BY IdleRequest
    <2>4. q \in Request
      BY <2>2, <2>3 DEF Request, Pcs
    <2> QED  BY <1>7, <2>1, <2>2, <2>3, <2>4
  <1>9. CopyKnown(q)'
    BY <1>8 DEF CopyKnown
  <1>10. OtherPartsRight
    BY <1>2, <1>3, <1>4, <1>5, <1>6, Zenon DEF OtherPartsRight
  <1> QED  BY <1>8, <1>9, <1>10, RequestStep

\* The end of a request that changed the accounts.
LEMMA EndsWithAccounts ==
  ASSUME ConstantsOK, Right, NEW r \in Requests, req[r].pc # "hash", Done(r),
         AccountsRight', KnownStays, nextPassword' \in 2 .. MaxPasswords + 1,
         UNCHANGED <<google, now, sessions, entries, slots, hist>>
  PROVE  Right'
  BY AccountsOnly, IdleRequest, RequestStep DEF Done

LEMMA PasswordNumbers ==
  ASSUME ConstantsOK, Right
  PROVE  /\ nextPassword \in 2 .. MaxPasswords + 1
         /\ nextPassword <= MaxPasswords => nextPassword + 1 \in 2 .. MaxPasswords + 1
         /\ nextPassword \in Nat
  BY Constant DEF Right, Clocked

LEMMA CreateUserStep ==
  ASSUME ConstantsOK, Right, NEW r \in Requests, NEW email \in Emails, CreateUser(r, email)
  PROVE  Right'
  <1>1. req[r].pc # "hash" /\ Done(r) /\ UNCHANGED <<google, now, sessions, entries, slots, hist>>
        /\ nextID <= MaxAccounts /\ nextPassword <= MaxPasswords
    BY DEF CreateUser
  <1>2. CASE \E id \in IDs : users[id].email = email
    <2>1. users' = users /\ nextID' = nextID /\ nextPassword' = nextPassword
      BY <1>2 DEF CreateUser
    <2>2. AccountsRight' /\ KnownStays
      BY <2>1, AccountsKept DEF Right
    <2> QED  BY <1>1, <2>1, <2>2, PasswordNumbers, EndsWithAccounts
  <1>3. CASE ~\E id \in IDs : users[id].email = email
    <2>1. PICK u : u = [email |-> email, name |-> "none", password |-> nextPassword, version |-> 1]
      OBVIOUS
    <2>2. /\ users' = [users EXCEPT ![nextID] = u] /\ nextID' = nextID + 1
          /\ nextPassword' = nextPassword + 1
      BY <1>3, <2>1 DEF CreateUser
    <2>3. u \in Accounts /\ u.version > 0 /\ (u.email = "none") # (u.name = "none")
      BY <2>1, PasswordNumbers, Constant DEF Accounts
    <2>4. AccountsRight' /\ KnownStays
      BY <1>1, <1>3, <2>1, <2>2, <2>3, AccountCreated DEF Right
    <2> QED  BY <1>1, <2>2, <2>4, PasswordNumbers, EndsWithAccounts
  <1> QED  BY <1>2, <1>3

\* What a new password leaves of the accounts, whoever sets it.
LEMMA PasswordChanged ==
  ASSUME ConstantsOK, Right, NEW id \in IDs, ChangeUserPassword(id)
  PROVE  AccountsRight' /\ KnownStays /\ nextPassword' \in 2 .. MaxPasswords + 1
  <1>1. users[id] \in Accounts /\ Present(id)
    BY DEF Right, AccountsRight, ChangeUserPassword
  <1>2. PICK account \in Accounts : account = users[id]
    BY <1>1
  <1>2a. PICK version \in Nat : version = account.version + 1
    BY <1>2 DEF Accounts
  <1>2b. PICK renewed : renewed = [account EXCEPT !.password = nextPassword]
    OBVIOUS
  <1>3. PICK u : u = [renewed EXCEPT !.version = version]
    OBVIOUS
  <1>3a. renewed \in Accounts /\ renewed.email = account.email /\ renewed.name = account.name
    BY <1>2, <1>2b, PasswordNumbers DEF Accounts
  <1>4. /\ u \in Accounts /\ u.version = account.version + 1
        /\ u.email = account.email /\ u.name = account.name
    BY <1>2a, <1>3, <1>3a DEF Accounts
  <1>5. users' = [users EXCEPT ![id] = u] /\ (u.email = "none") # (u.name = "none")
    <2>1. users' = [users EXCEPT ![id] = u]
      BY <1>2, <1>2a, <1>2b, <1>3 DEF ChangeUserPassword, Repassworded
    <2>2. (account.email = "none") # (account.name = "none")
      BY <1>1, <1>2 DEF Right, AccountsRight
    <2> QED  BY <1>4, <2>1, <2>2
  <1>6. nextID' = nextID /\ nextPassword <= MaxPasswords /\ nextPassword' = nextPassword + 1
    BY DEF ChangeUserPassword
  <1>7. AccountsRight' /\ KnownStays
    BY <1>1, <1>2, <1>4, <1>5, <1>6, AccountChanged DEF Right
  <1> QED  BY <1>6, <1>7, PasswordNumbers

LEMMA ChangeUserPasswordStep ==
  ASSUME ConstantsOK, Right, NEW r \in Requests, req[r].pc = "settings", NEW id \in IDs,
         ChangeUserPassword(id), Done(r)
  PROVE  Right'
  <1>1. UNCHANGED <<google, now, sessions, entries, slots, hist>>
    BY DEF ChangeUserPassword
  <1> QED  BY <1>1, PasswordChanged, EndsWithAccounts

LEMMA ResetLocalPasswordStep ==
  ASSUME ConstantsOK, Right, NEW who, ResetLocalPassword(who)
  PROVE  Right'
  <1>1. PICK id \in IDs : ChangeUserPassword(id)
    BY DEF ResetLocalPassword, Lookup
  <1>2. UNCHANGED <<google, now, sessions, entries, slots, hist>> /\ req' = req
    BY <1>1 DEF ChangeUserPassword, ResetLocalPassword
  <1>3. OtherPartsRight
    BY <1>1, <1>2, PasswordChanged, AccountsOnly
  <1> QED  BY <1>2, <1>3, RequestsRest

LEMMA AssignUserEmailStep ==
  ASSUME ConstantsOK, Right, NEW r \in Requests, NEW id \in IDs, NEW email \in Emails,
         AssignUserEmail(r, id, email)
  PROVE  Right'
  <1>1. req[r].pc # "hash" /\ Done(r) /\ UNCHANGED <<google, now, sessions, entries, slots, hist>>
        /\ nextID' = nextID /\ nextPassword' = nextPassword
    BY DEF AssignUserEmail
  <1>2. CASE ~Present(id) \/ users[id].email # "none" \/ \E x \in IDs : users[x].email = email
    <2>1. users' = users
      BY <1>2 DEF AssignUserEmail
    <2>2. AccountsRight' /\ KnownStays
      BY <1>1, <2>1, AccountsKept DEF Right
    <2> QED  BY <1>1, <2>2, PasswordNumbers, EndsWithAccounts
  <1>3. CASE ~(~Present(id) \/ users[id].email # "none" \/ \E x \in IDs : users[x].email = email)
    <2>1. users[id] \in Accounts /\ Present(id)
      BY <1>3 DEF Right, AccountsRight
    <2>2. PICK account \in Accounts : account = users[id]
      BY <2>1
    <2>2a. PICK version \in Nat : version = account.version + 1
      BY <2>2 DEF Accounts
    <2>2b. PICK renamed : renamed = [account EXCEPT !.email = email, !.name = "none"]
      OBVIOUS
    <2>2c. renamed \in Accounts /\ renamed.email = email /\ renamed.name = "none"
      BY <2>2, <2>2b DEF Accounts
    <2>3. PICK u : u = [renamed EXCEPT !.version = version]
      OBVIOUS
    <2>4. users' = [users EXCEPT ![id] = u]
      BY <1>3, <2>2, <2>2a, <2>2b, <2>3 DEF AssignUserEmail
    <2>5. /\ u \in Accounts /\ u.version = account.version + 1 /\ u.email = email /\ u.name = "none"
          /\ (u.email = "none") # (u.name = "none") /\ \A x \in IDs : users[x].email # u.email
      <3>1. u \in Accounts /\ u.version = account.version + 1 /\ u.email = email /\ u.name = "none"
        BY <2>2a, <2>2c, <2>3 DEF Accounts
      <3> QED  BY <1>3, <3>1, Constant
    <2>6. AccountsRight' /\ KnownStays
      BY <1>1, <2>1, <2>2, <2>4, <2>5, AccountChanged DEF Right
    <2> QED  BY <1>1, <2>6, PasswordNumbers, EndsWithAccounts
  <1> QED  BY <1>2, <1>3

LEMMA ListUsersStep ==
  ASSUME ConstantsOK, Right, NEW r \in Requests, NEW id \in IDs, ListUsers(r, id)
  PROVE  Right'
  <1>1. OtherPartsRight
    BY NothingElse DEF ListUsers
  <1>2. PICK old \in Request : old = req[r]
    BY DEF Right, SlotsRight
  <1>2a. PICK asked : asked = [old EXCEPT !.pc = "delete"]
    OBVIOUS
  <1>2b. PICK q : q = [asked EXCEPT !.id = id]
    OBVIOUS
  <1>2c. asked \in Request /\ asked.pc = "delete" /\ id \in 0 .. MaxAccounts /\ id # 0
    BY <1>2, <1>2a, Constant DEF Request, Pcs, IDs
  <1>3. req' = [req EXCEPT ![r] = q]
    BY <1>2, <1>2a, <1>2b DEF ListUsers
  <1>4. q \in Request /\ q.pc = "delete" /\ q.id = id /\ id # 0
    BY <1>2b, <1>2c DEF Request
  <1>5. CopyKnown(q)'
    BY <1>4 DEF CopyKnown
  <1>6. req[r].pc # "hash" /\ slots' = slots
    BY DEF ListUsers
  <1> QED  BY <1>1, <1>3, <1>4, <1>5, <1>6, RequestStep

LEMMA DeleteUserStep ==
  ASSUME ConstantsOK, Right, NEW r \in Requests, DeleteUser(r)
  PROVE  Right'
  <1>1. req[r] \in Request /\ CopyKnown(req[r]) /\ req[r].pc = "delete"
    BY DEF Right, SlotsRight, DeleteUser
  <1>2. req[r].id \in IDs
    BY <1>1, Constant DEF Request, CopyKnown, IDs
  <1>3. AccountsRight' /\ KnownStays
    BY <1>2, AccountDeleted DEF Right, DeleteUser
  <1>4. Done(r) /\ UNCHANGED <<google, now, sessions, entries, slots, hist>> /\ nextPassword' = nextPassword
    BY DEF DeleteUser
  <1> QED  BY <1>1, <1>3, <1>4, PasswordNumbers, EndsWithAccounts

LEMMA NextRight == ASSUME ConstantsOK, Right, [Next]_vars PROVE Right'
  <1>1. CASE Tick
    BY <1>1, TickStep
  <1>2. CASE Restart
    BY <1>2, RestartStep
  <1>3. ASSUME NEW who \in Emails \cup Names, ResetLocalPassword(who) PROVE Right'
    BY <1>3, ResetLocalPasswordStep
  <1>4. ASSUME NEW r \in Requests,
               \/ PasswordLogin(r) \/ VerifyPassword(r) \/ GoogleCallback(r) \/ NewSession(r)
               \/ "use" \in Ops /\ \E s \in sessions : WithAuthentication(r, s)
               \/ MutateUser(r) \/ DeleteUser(r)
        PROVE  Right'
    <2>1. CASE PasswordLogin(r)
      BY <2>1, PasswordLoginStep
    <2>2. CASE VerifyPassword(r)
      BY <2>2, VerifyPasswordStep
    <2>3. CASE GoogleCallback(r)
      BY <2>3, GoogleCallbackStep
    <2>4. CASE NewSession(r)
      BY <2>4, NewSessionStep
    <2>5. ASSUME NEW s \in sessions, WithAuthentication(r, s) PROVE Right'
      BY <2>5, WithAuthenticationStep
    <2>6. CASE MutateUser(r)
      BY <2>6, CreateUserStep, ChangeUserPasswordStep, AssignUserEmailStep, ListUsersStep
         DEF MutateUser
    <2>7. CASE DeleteUser(r)
      BY <2>7, DeleteUserStep
    <2> QED  BY <1>4, <2>1, <2>2, <2>3, <2>4, <2>5, <2>6, <2>7
  <1>5. CASE UNCHANGED vars
    BY <1>5, StutterStep
  <1> QED  BY <1>1, <1>2, <1>3, <1>4, <1>5 DEF Next
-----------------------------------------------------------------------------
LEMMA InitIInv == ASSUME ConstantsOK, Init PROVE IInv
  <1>1. PICK e \in Emails, n \in Names : users = [id \in IDs |->
         CASE id = 1 -> [email |-> "none", name |-> n, password |-> 1, version |-> 1]
           [] id = 2 -> [email |-> e, name |-> "none", password |-> 0, version |-> 1]
           [] OTHER -> Absent]
    BY DEF Init
  <1>2. 1 \in IDs /\ 2 \in IDs /\ e # "none" /\ n # "none"
    BY Constant DEF IDs
  <1>3. PICK a1, a2 : /\ a1 = [email |-> "none", name |-> n, password |-> 1, version |-> 1]
                      /\ a2 = [email |-> e, name |-> "none", password |-> 0, version |-> 1]
    OBVIOUS
  <1>4. a1 \in Accounts /\ a2 \in Accounts /\ Absent \in Accounts /\ a1.version > 0 /\ a2.version > 0
    BY <1>3 DEF Accounts, Absent
  <1>5. a1 # Absent /\ a2 # Absent
    BY <1>4, AbsentIsNoAccount
  <1>6. \A id \in IDs : users[id] = IF id = 1 THEN a1 ELSE IF id = 2 THEN a2 ELSE Absent
    BY <1>1, <1>3
  <1>7. users \in [IDs -> Accounts]
    BY <1>1, <1>3, <1>4
  <1>8. \A id \in IDs : Present(id) <=> id \in {1, 2}
    BY <1>5, <1>6 DEF Present
  <1>9. AnAccountRemains
    <2> DEFINE S == {id \in IDs : Present(id)}
    <2>1. IsFiniteSet(S) /\ S # {}
      BY <1>2, <1>8, Constant, FS_Subset
    <2>2. Cardinality(S) \in Nat /\ Cardinality(S) # 0
      BY <2>1, FS_CardinalityType, FS_EmptySet
    <2> QED  BY <2>2 DEF AnAccountRemains, Count
  <1>10. AccountsRight
    <2>1. nextID = 3 /\ nextID \in 3 .. MaxAccounts + 1
      BY Constant DEF Init
    <2>2. \A id \in IDs : Present(id) => /\ id < nextID /\ users[id].version > 0
                                    /\ (users[id].email = "none") # (users[id].name = "none")
      BY <1>2, <1>3, <1>4, <1>6, <1>8, <2>1
    <2>3. \A a, b \in IDs : (Present(a) /\ Present(b) /\ a # b) =>
             users[a].email # users[b].email \/ users[a].name # users[b].name
      BY <1>2, <1>3, <1>6, <1>8
    <2> QED  BY <1>7, <1>9, <2>1, <2>2, <2>3 DEF AccountsRight
  <1>11. SlotsRight
    <2>1. req \in [Requests -> Request] /\ {r \in Requests : req[r].pc = "hash"} = {}
      BY IdleRequest DEF Init
    <2>2. Cardinality({}) = 0
      BY FS_EmptySet
    <2>3. slots = 0 /\ HashSlots \in Nat
      BY Constant DEF Init
    <2>4. SlotsAreHashes
      BY <2>1, <2>2, <2>3 DEF SlotsAreHashes
    <2> QED  BY <2>1, <2>3, <2>4 DEF SlotsRight
  <1>12. hist.tried = [k \in Keys |-> [t \in 1 .. MaxTime |-> 0]] /\ hist \in History /\ ~hist.wrong
    <2>1. PICK h : h = [k \in Keys |-> [t \in 1 .. MaxTime |-> 0]]
      OBVIOUS
    <2>2. h \in [Keys -> [1 .. MaxTime -> Nat]]
      BY <2>1
    <2>3. hist = [tried |-> h, wrong |-> FALSE]
      BY <2>1 DEF Init
    <2>4. hist.tried = h /\ hist.wrong = FALSE /\ hist \in History
      BY <2>2, <2>3 DEF History
    <2> QED  BY <2>1, <2>4, Zenon
  <1>13. AttemptsRight
    <2>1. entries = [k \in Keys |-> NoEntry]
      BY DEF Init
    <2>2. Used(entries) = {}
      BY <2>1 DEF Used
    <2>3. IsFiniteSet(Used(entries)) /\ Cardinality(Used(entries)) = 0
      BY <2>2, FS_EmptySet
    <2>4. LimiterBounded
      BY <2>3, Constant DEF LimiterBounded
    <2>5. \A k \in Keys, t \in 1 .. MaxTime : hist.tried[k][t] = 0
      BY <1>12
    <2>6. AttemptsCounted
      BY <2>5, Constant DEF AttemptsCounted, Keys
    <2>7. entries \in [Keys -> [count : Nat, expires : Nat]]
      BY <2>1 DEF NoEntry
    <2>8. hist.tried \in [Keys -> [1 .. MaxTime -> Nat]]
      BY <1>12
    <2> QED  BY <2>3, <2>4, <2>6, <2>7, <2>8 DEF AttemptsRight
  <1>14. SessionsRight
    BY DEF Init, SessionsRight
  <1>15. Clocked
    <2>1. nextPassword \in 2 .. MaxPasswords + 1 /\ now \in 1 .. MaxTime
      BY Constant DEF Init
    <2>2. google \in BOOLEAN
      BY Zenon DEF Init
    <2> QED  BY <2>1, <2>2, Zenon DEF Clocked
  <1>16. \A r \in Requests : CopyKnown(req[r])
    BY IdleRequest DEF Init
  <1> QED
    BY <1>10, <1>11, <1>12, <1>13, <1>14, <1>15, <1>16, Parts, Zenon DEF Right

LEMMA NextIInv == ASSUME ConstantsOK, IInv, [Next]_vars PROVE IInv'
  BY Parts, PartsNext, NextRight

LEMMA IInvAlways == ASSUME ConstantsOK PROVE Spec => []IInv
  <1>1. Init => IInv
    BY InitIInv
  <1>2. IInv /\ [Next]_vars => IInv'
    BY NextIInv
  <1> QED  BY <1>1, <1>2, PTL DEF Spec
-----------------------------------------------------------------------------
\* A password that was changed, or an account that was deleted, ends every
\* session that rests on it: ValidateSession compares the version that the
\* sign-in read with the account's (auth/auth.go), so that it is no
\* matter how a sign-in and a change overlap.
THEOREM SessionsEnd == ASSUME ConstantsOK PROVE Spec => [](TypeOK /\ ChangesEndSessions)
  <1>1. IInv => TypeOK /\ ChangesEndSessions
    BY DEF IInv, Typed
  <1> QED  BY <1>1, IInvAlways, PTL

\* The statement that deletes an account counts again what the request had
\* counted before it, so that no interleaving of deletions locks everybody
\* out (store/local_users.go).
THEOREM SomebodyRemains == ASSUME ConstantsOK PROVE Spec => []AnAccountRemains
  <1>1. IInv => AnAccountRemains
    BY DEF IInv
  <1> QED  BY <1>1, IInvAlways, PTL

\* The hash slots that are taken are those of requests that compute a hash,
\* also after refusals and restarts.
THEOREM SlotsStayExact == ASSUME ConstantsOK PROVE Spec => []SlotsAreHashes
  <1>1. IInv => SlotsAreHashes
    BY DEF IInv
  <1> QED  BY <1>1, IInvAlways, PTL

LEMMA CountedBounds ==
  ASSUME ConstantsOK, IInv
  PROVE  GuessesBounded
  <1>1. AttemptsRight
    BY Parts DEF Right
  <1>2. \A k \in Emails \cup Names, t \in 1 .. MaxTime :
          hist.tried[k][t] \in Nat /\ hist.tried[k][t] <= UserLimit
    BY <1>1 DEF AttemptsRight, AttemptsCounted, Keys
  <1>3. ASSUME NEW k \in Emails \cup Names, NEW t \in 1 .. MaxTime, NEW d \in 0 .. Window - 1
        PROVE  TriedIn(k, t)[d] \in Nat /\ TriedIn(k, t)[d] <= UserLimit
    <2>1. TriedIn(k, t)[d] = IF t + d <= MaxTime THEN hist.tried[k][t + d] ELSE 0
      BY DEF TriedIn
    <2>2. t + d <= MaxTime => t + d \in 1 .. MaxTime
      BY Constant
    <2> QED  BY <1>2, <2>1, <2>2, Constant
  <1>4. 0 \in 0 .. Window - 1 /\ Window - 1 \in 0 .. Window - 1
    BY Constant
  <1> QED  BY <1>3, <1>4, Constant DEF GuessesBounded

\* However attempts are spread over names and time, what the limiter lets
\* through for a name at both ends of a window is at most twice the limit,
\* and what it remembers stays bounded (loginLimiter.allow).
THEOREM AttemptsStayBounded ==
  ASSUME ConstantsOK PROVE Spec => [](GuessesBounded /\ LimiterBounded)
  <1>1. IInv => GuessesBounded /\ LimiterBounded
    BY CountedBounds DEF IInv
  <1> QED  BY <1>1, IInvAlways, PTL
=============================================================================
