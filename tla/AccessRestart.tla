---------------------------- MODULE AccessRestart ----------------------------
(***************************************************************************)
(* Changing the management access mode (service/management_access.go): the *)
(* manager writes .env, hands the shared installation lock to a detached   *)
(* helper and is recreated by it; startup reconciles what a helper left.   *)
(* Image pruning (service/dashboard.go) and release updates take the same  *)
(* lock; an update is one step here, ReleaseUpdate has its protocol.       *)
(***************************************************************************)
EXTENDS Integers

CONSTANTS None, Modes,
          MaxOp,     \* bound: operation identifiers are 1..MaxOp
          Faults,    \* "step", "helper", "crash_request", "crash_prune", "operator"
          Updates,   \* release updates may run too
          MaxCrashes \* bound: how often the manager dies

VARIABLES env,      \* MANAGEMENT_ACCESS_MODE in the installation's .env
          live,     \* the mode of the manager's container
          phase,    \* the manager: "down", "starting", "restart" or "admitted"
          lock,     \* the installation lock: [op, owner] or None
          marker,   \* core/manager-restart/operation.json: [op, mode] or None
          helper,   \* the container of the fixed name
          req,      \* QueueManagementAccessMode under its mutex
          queued,   \* restartQueued
          prune,    \* the operation of a running prune, or 0
          nextOp, crashes

files == <<env, lock, marker>>
manager == <<live, phase, req, queued, prune>>
vars == <<files, manager, helper, nextOp, crashes>>

NoRequest == [pc |-> "idle", op |-> 0, mode |-> None, old |-> None]
NoHelper == [pc |-> "none", op |-> 0, kind |-> None]
HelperRunning == helper.pc \notin {"none", "exited"}

TypeOK ==
    /\ env \in Modes /\ live \in Modes /\ phase \in {"down", "starting", "restart", "admitted"}
    /\ lock = None \/ (lock.op \in 1..MaxOp /\ lock.owner \in {"management-access", "prune", "manager"})
    /\ marker = None \/ (marker.op \in 1..MaxOp /\ marker.mode \in Modes)
    /\ queued \in BOOLEAN /\ prune \in 0..MaxOp /\ nextOp \in 1..MaxOp + 1
    /\ req.pc \in {"idle", "acquired", "saved", "marked"}
    /\ req.pc # "idle" => phase = "admitted" /\ req.mode \in Modes

Init ==
    /\ env \in Modes /\ live = env /\ phase = "admitted"
    /\ lock = None /\ marker = None /\ helper = NoHelper
    /\ req = NoRequest /\ queued = FALSE /\ prune = 0 /\ nextOp = 1 /\ crashes = MaxCrashes

Acquire(owner) == lock = None /\ nextOp <= MaxOp /\ lock' = [op |-> nextOp, owner |-> owner]
                  /\ nextOp' = nextOp + 1
Owns(op) == lock # None /\ lock.op = op
Released(op) == IF Owns(op) THEN None ELSE lock
May(f) == f \in Faults
-----------------------------------------------------------------------------
(* QueueManagementAccessMode *)

QueueAccessMode(m) ==
    /\ phase = "admitted" /\ req.pc = "idle" /\ ~queued /\ m # live
    /\ Acquire("management-access")
    /\ req' = [pc |-> "acquired", op |-> nextOp, mode |-> m, old |-> env]
    /\ UNCHANGED <<env, marker, live, phase, queued, prune, helper, crashes>>

\* Fault: a helper that still runs is not looked for.
NoInspection == TRUE
HelperAbsent == ~HelperRunning

\* No helper runs, a stopped one is removed, .env is written.
SaveEnvironment ==
    /\ req.pc = "acquired" /\ HelperAbsent
    /\ helper' = IF HelperRunning THEN helper ELSE NoHelper
    /\ env' = req.mode
    /\ req' = [req EXCEPT !.pc = "saved"]
    /\ UNCHANGED <<lock, marker, live, phase, queued, prune, nextOp, crashes>>

\* A helper runs, or a file is not as expected: nothing was changed.
RefuseRequest ==
    /\ req.pc = "acquired" /\ (HelperRunning \/ May("step"))
    /\ lock' = Released(req.op) /\ req' = NoRequest
    /\ UNCHANGED <<env, marker, live, phase, queued, prune, helper, nextOp, crashes>>

\* Compose resolves the mode; the helper's project and the marker are written.
WriteMarker ==
    /\ req.pc = "saved"
    /\ marker' = [op |-> req.op, mode |-> req.mode]
    /\ req' = [req EXCEPT !.pc = "marked"]
    /\ UNCHANGED <<env, lock, live, phase, queued, prune, helper, nextOp, crashes>>

\* Fault: the restored file lacks the setting.
EraseEnvironment == env' = None
RollbackEnvironment == env' = IF env = req.mode THEN req.old ELSE env

\* rollback: the marker goes first, then .env, then the lock.
Rollback ==
    /\ marker' = IF req.pc = "marked" THEN None ELSE marker
    /\ RollbackEnvironment
    /\ lock' = Released(req.op) /\ req' = NoRequest
    /\ UNCHANGED <<live, phase, queued, prune, nextOp, crashes>>

RequestFails == req.pc = "saved" /\ May("step") /\ Rollback /\ UNCHANGED helper

HelperFor(op, kind) == [pc |-> "start", op |-> op, kind |-> kind]

\* docker compose up: the helper owns the lock and the marker from here on.
HandOver ==
    /\ req.pc = "marked" /\ ~HelperRunning
    /\ helper' = HelperFor(req.op, "restart")
    /\ queued' = TRUE /\ req' = NoRequest
    /\ UNCHANGED <<files, live, phase, prune, nextOp, crashes>>

\* The command fails: Docker could not be asked whether the helper started
\* (the lock is kept), or it does not run and the request is undone, though
\* Docker may start it later.
HandOverFails ==
    /\ req.pc = "marked" /\ May("step") /\ ~HelperRunning
    /\ \/ /\ queued' = TRUE /\ req' = NoRequest
          /\ helper' \in {helper, HelperFor(req.op, "restart")}
          /\ UNCHANGED <<files, live, phase, prune, nextOp, crashes>>
       \/ /\ Rollback
          /\ helper' \in {helper, HelperFor(req.op, "restart")}
-----------------------------------------------------------------------------
(* RunManagementRestart in the helper *)

OwnsOperation == /\ marker # None /\ marker.op = helper.op
                 /\ Owns(helper.op) /\ lock.owner = "management-access"

HelperStep(from, to) == helper.kind = "restart" /\ helper.pc = from
                        /\ helper' = [helper EXCEPT !.pc = to]

\* Fault: the helper believes what it read before its delay.
BelieveStart == TRUE
ValidateOwnership == OwnsOperation

Validate ==
    /\ HelperStep("start", "delay") /\ OwnsOperation
    /\ UNCHANGED <<files, manager, nextOp, crashes>>

\* Revalidated after the delay; Compose then replaces the manager's container.
BeginRecreate ==
    /\ HelperStep("delay", "recreate") /\ ValidateOwnership
    /\ UNCHANGED <<files, manager, nextOp, crashes>>

\* The container is created again: a new process with what .env says now.
NewManager == live' = env /\ phase' = "starting" /\ req' = NoRequest /\ queued' = FALSE /\ prune' = 0

Recreate ==
    /\ HelperStep("recreate", "release") /\ NewManager
    /\ UNCHANGED <<files, nextOp, crashes>>

\* Released before the marker goes: a marker explains the lock, not the reverse.
HelperReleases ==
    /\ HelperStep("release", "clear") /\ OwnsOperation
    /\ lock' = None
    /\ UNCHANGED <<env, marker, manager, nextOp, crashes>>

HelperClears ==
    /\ HelperStep("clear", "exited") /\ marker' = None
    /\ UNCHANGED <<env, lock, manager, nextOp, crashes>>

\* It does not own the operation, fails, or is killed.
HelperExits ==
    /\ HelperRunning
    /\ \/ /\ helper.kind = "restart" /\ helper.pc \in {"start", "delay", "release"} /\ ~OwnsOperation
          /\ UNCHANGED manager
       \/ May("helper") /\ UNCHANGED manager
    /\ helper' = [helper EXCEPT !.pc = "exited"]
    /\ UNCHANGED <<files, nextOp, crashes>>
-----------------------------------------------------------------------------
(* Other users of the installation lock *)

StartPrune ==
    /\ phase = "admitted" /\ prune = 0 /\ Acquire("prune") /\ prune' = nextOp
    /\ UNCHANGED <<env, marker, live, phase, req, queued, helper, crashes>>

EndPrune ==
    /\ prune # 0 /\ lock' = Released(prune) /\ prune' = 0
    /\ UNCHANGED <<env, marker, live, phase, req, queued, helper, nextOp, crashes>>

\* A release update starts its helper and is recreated by it.
StartUpdate ==
    /\ Updates /\ phase = "admitted" /\ ~HelperRunning
    /\ Acquire("manager") /\ helper' = HelperFor(nextOp, "update")
    /\ UNCHANGED <<env, marker, manager, crashes>>

UpdateRecreates ==
    /\ helper.kind = "update" /\ helper.pc = "start"
    /\ helper' = [helper EXCEPT !.pc = "release"] /\ NewManager
    /\ UNCHANGED <<files, nextOp, crashes>>

UpdateEnds ==
    /\ helper.kind = "update" /\ helper.pc = "release"
    /\ lock' = Released(helper.op) /\ helper' = [helper EXCEPT !.pc = "exited"]
    /\ UNCHANGED <<env, marker, manager, nextOp, crashes>>
-----------------------------------------------------------------------------
(* The end and the start of the manager *)

\* The process ends; its container keeps the environment it was created with.
Crash ==
    /\ phase # "down" /\ crashes > 0 /\ crashes' = crashes - 1
    /\ req.pc # "idle" => May("crash_request")
    /\ prune # 0 => May("crash_prune")
    /\ phase' = "down" /\ req' = NoRequest /\ queued' = FALSE /\ prune' = 0
    /\ UNCHANGED <<files, live, helper, nextOp>>

Boot ==
    /\ phase = "down" /\ phase' = "starting"
    /\ UNCHANGED <<files, live, req, queued, prune, helper, nextOp, crashes>>

\* Fault: an interrupted restart is taken as done whatever mode runs.
AnyModeTaken == TRUE
RequestedModeRuns == live = marker.mode

\* ReconcileManagementRestart; release fails on another operation's lock and
\* the marker stays.
ReconcileManagementRestart ==
    IF marker = None \/ HelperRunning THEN UNCHANGED <<lock, marker>>
    ELSE IF RequestedModeRuns
         THEN IF lock = None \/ Owns(marker.op) THEN lock' = None /\ marker' = None
              ELSE UNCHANGED <<lock, marker>>
         ELSE /\ lock' = IF lock = None THEN [op |-> marker.op, owner |-> "manager"] ELSE lock
              /\ UNCHANGED marker

\* ReconcileUpdateState: it leaves everything to a pending restart, and the
\* locks of others alone.
ReconcileUpdateState ==
    IF marker # None \/ HelperRunning \/ lock = None THEN lock
    ELSE IF lock.owner = "manager" THEN None ELSE lock

StartupRestart ==
    /\ phase = "starting" /\ phase' = "restart"
    /\ ReconcileManagementRestart
    /\ UNCHANGED <<env, live, req, queued, prune, helper, nextOp, crashes>>

\* Then installation changes are admitted.
StartupUpdate ==
    /\ phase = "restart" /\ phase' = "admitted"
    /\ lock' = ReconcileUpdateState
    /\ UNCHANGED <<env, marker, live, req, queued, prune, helper, nextOp, crashes>>

\* An operator removes the lock and the marker of an operation by hand.
OperatorClears ==
    /\ May("operator") /\ helper.pc \in {"none", "start", "delay", "exited"}
    /\ lock # None /\ lock' = None /\ marker' = None
    /\ req.pc = "idle" /\ prune = 0 /\ helper.kind # "update"
    /\ UNCHANGED <<env, manager, helper, nextOp, crashes>>

Next ==
    \/ \E m \in Modes : QueueAccessMode(m)
    \/ SaveEnvironment \/ RefuseRequest \/ WriteMarker \/ RequestFails \/ HandOver \/ HandOverFails
    \/ Validate \/ BeginRecreate \/ Recreate \/ HelperReleases \/ HelperClears \/ HelperExits
    \/ StartPrune \/ EndPrune \/ StartUpdate \/ UpdateRecreates \/ UpdateEnds
    \/ Crash \/ Boot \/ StartupRestart \/ StartupUpdate \/ OperatorClears

Spec == Init /\ [][Next]_vars

\* The steps of a request and of the helper have deadlines; Docker starts the
\* container again.
Fairness ==
    /\ WF_vars(SaveEnvironment \/ RefuseRequest \/ WriteMarker \/ HandOver)
    /\ WF_vars(Validate \/ BeginRecreate \/ Recreate \/ HelperReleases \/ HelperClears \/ HelperExits)
    /\ WF_vars(UpdateRecreates \/ UpdateEnds) /\ WF_vars(EndPrune)
    /\ WF_vars(Boot) /\ WF_vars(StartupRestart) /\ WF_vars(StartupUpdate)
FairSpec == Spec /\ Fairness
-----------------------------------------------------------------------------
(* Properties *)

\* When no change is under way the manager runs in the mode that .env holds:
\* a change that fails anywhere is undone, or stays visible as a lock.
InSync ==
    phase = "admitted" /\ lock = None /\ marker = None /\ req.pc = "idle" /\ ~HelperRunning
        => env = live

\* While the helper replaces the manager, the lock is its own: no prune and
\* no other change runs beside it.
RecreatesAlone ==
    helper.kind = "restart" /\ helper.pc = "recreate" =>
        Owns(helper.op) /\ prune = 0 /\ req.pc = "idle"

\* Once changes are admitted, every lock belongs to an operation that runs, or
\* to one that a marker or an update record explains ("WaitForStartup blocks
\* installation mutations until startup reconciliation has resolved any
\* interrupted operation").
LockExplained ==
    phase = "admitted" /\ lock # None =>
        \/ lock.op \in {req.op, prune} \/ lock.owner = "manager"
        \/ HelperRunning /\ helper.op = lock.op
        \/ marker # None

\* "successful startup reconciliation clears the marker and lock when the
\* requested access mode is active"
\* The code does not keep this: README, "Disagreements".
MarkerResolved ==
    [][phase = "starting" /\ phase' = "restart" /\ marker # None /\ ~HelperRunning /\ live = marker.mode
        => marker' = None]_vars
-----------------------------------------------------------------------------
(* The inductive invariant.                                                *)

Owners == {"management-access", "prune", "manager"}
HelperPcs == {"none", "start", "delay", "recreate", "release", "clear", "exited"}

ConstantsOK ==
    /\ MaxOp \in Nat /\ MaxCrashes \in Nat
    /\ \A n \in 1..MaxOp, o \in Owners : None # [op |-> n, owner |-> o]
    /\ \A n \in 1..MaxOp, m \in Modes : None # [op |-> n, mode |-> m]

Typed ==
    /\ TypeOK
    /\ lock # None => lock \in [op : 1..MaxOp, owner : Owners] /\ lock.op < nextOp
    /\ marker # None => marker \in [op : 1..MaxOp, mode : Modes] /\ marker.op < nextOp
    /\ helper \in [pc : HelperPcs, op : 0..MaxOp, kind : {"restart", "update", None}]
    /\ req \in [pc : {"idle", "acquired", "saved", "marked"}, op : 0..MaxOp,
                mode : Modes \cup {None}, old : Modes \cup {None}]
    /\ req.pc # "idle" => req.old \in Modes
    /\ helper.op < nextOp /\ prune < nextOp

\* Whoever is at work holds the lock under an operation of his own.
Holds(op, owner) == lock # None /\ lock.op = op /\ lock.owner = owner
HoldersWork ==
    /\ prune # 0 => phase = "admitted" /\ Holds(prune, "prune")
    /\ req.pc # "idle" =>
         /\ Holds(req.op, "management-access") /\ helper.op # req.op
         /\ (marker # None /\ marker.op = req.op) <=> req.pc = "marked"
    /\ helper.kind = "update" /\ HelperRunning => Holds(helper.op, "manager")
    /\ helper.kind = "restart" /\ helper.pc = "recreate" => Holds(helper.op, "management-access")

\* No request gets past its inspection while a helper runs, and a helper that
\* has released its lock removes its own marker.
HelperApart ==
    /\ HelperRunning => req.pc \in {"idle", "acquired"} /\ helper.kind \in {"restart", "update"}
    /\ helper.kind = "restart" /\ helper.pc = "clear" =>
         ~Owns(helper.op) /\ (marker # None => marker.op = helper.op)

\* .env and the container differ only in the middle of a request, or with the
\* marker and the lock of one that was handed over; a marker left behind names
\* the mode of .env.
Explained ==
    \/ req.pc \in {"saved", "marked"}
    \/ marker # None /\ Owns(marker.op)
ModesAgree ==
    /\ env # live => Explained
    /\ req.pc # "idle" => req.old = live /\ env = IF req.pc = "acquired" THEN live ELSE req.mode
    /\ marker # None => marker.mode = IF req.pc = "saved" THEN live ELSE env
    /\ helper.pc \in {"release", "clear"} \/ prune # 0 => env = live

LocksOwned ==
    lock # None =>
        /\ lock.owner = "prune" => prune = lock.op
        /\ lock.owner = "management-access" =>
             \/ req.pc # "idle" /\ lock.op = req.op
             \/ marker # None /\ marker.op = lock.op

IInv ==
    /\ Typed /\ HoldersWork /\ HelperApart
    /\ {"crash_request", "operator"} \cap Faults = {} => ModesAgree
    /\ {"crash_request", "crash_prune"} \cap Faults = {} => LocksOwned
=============================================================================
