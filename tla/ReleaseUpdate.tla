---------------------------- MODULE ReleaseUpdate ----------------------------
(***************************************************************************)
(* The release updater (internal/service/update.go, update_apply.go): the  *)
(* manager's workflow downloads and loads a release image and hands over   *)
(* to a detached helper container, the helper recreates the manager's      *)
(* container, and reconcilers (one at startup, one per Settings request)   *)
(* resolve what a crash left behind.  An operator may clear an operation   *)
(* from the command line, image pruning competes for the same lock, and    *)
(* the manager, the helper and the command may die between any two steps.  *)
(*                                                                         *)
(* Every process keeps its own copy of the record it last read or wrote    *)
(* (snap) across Docker calls, as the Go functions do.  A step is one      *)
(* critical section of the store, one Docker call or one file operation.   *)
(***************************************************************************)
EXTENDS InstallationStore

CONSTANTS Reconcilers,  \* goroutines that may run reconcileUpdateState
          PruneOp,      \* the operation identifier a prune locks with
          MaxCrashes,   \* bound on crashes of a process
          MaxManual     \* bound on deployments made by the operator

Processes == {"workflow", "helper", "operator", "prune"} \cup Reconcilers

ASSUME ReconcilersApart ==
    Reconcilers \cap {"workflow", "helper", "operator", "prune"} = {}
ASSUME PruneOpApart == PruneOp \notin Ops /\ PruneOp # None
ASSUME BoundsNat == MaxCrashes \in Nat /\ MaxManual \in Nat

Locks == [op : Ops \cup {PruneOp}, owner : Owners]
HelperContainers == [op : Ops, running : BOOLEAN]

ASSUME NoneIsNoRecord ==
    None \notin Records /\ None \notin Locks /\ None \notin HelperContainers

VARIABLES pc,         \* process -> where it is
          snap,       \* process -> its copy of the record (None: no copy)
          used,       \* operation identifiers handed out so far
          admitted,   \* the admission channel of the running manager is closed
          booting,    \* startup reconciliation has not begun yet
          override,   \* app-image.yml: None or the image it names
          loaded,     \* images the Docker daemon holds
          tag,        \* the image the runtime reference resolves to, or None
          container,  \* the manager's container
          helper,     \* the helper container: None or its operation
          crashes, manual

store == <<state, lock>>
docker == <<loaded, tag, container, helper>>
bounds == <<crashes, manual>>
vars == <<state, lock, pc, snap, used, admitted, booting, override, loaded,
          tag, container, helper, crashes, manual>>

EarlyPcs == {"acquired", "removing", "prepare"}
WorkflowPcs == EarlyPcs \cup
    {"preparing", "inspected", "downloading", "verified", "loading", "loaded",
     "queued", "start-failed", "cleanup", "release"}
HelperPcs == {"read", "check", "inspect", "override", "config", "fail", "recreating",
              "relock", "tag", "recreate", "lost", "reinspect", "verifying", "health",
              "complete", "cleanup", "release"}
ReconcilePcs == {"request", "orphan", "unlock", "helper", "probe", "finish", "uncertain",
                 "current-complete", "complete", "current-failed", "failed",
                 "current-cleanup", "cleanup", "release"}
OperatorPcs == {"helper", "acknowledge", "finish"}
PrunePcs == {"pruning", "release"}
Pcs == {"idle"} \cup WorkflowPcs \cup HelperPcs \cup ReconcilePcs
         \cup OperatorPcs \cup PrunePcs

TypeOK ==
    /\ state \in Records \cup {None}
    /\ lock \in Locks \cup {None}
    /\ pc \in [Processes -> Pcs]
    /\ snap \in [Processes -> Records \cup {None}]
    /\ used \subseteq Ops
    /\ admitted \in BOOLEAN /\ booting \in BOOLEAN
    /\ override \in Images \cup {None}
    /\ loaded \subseteq Images
    /\ tag \in Images \cup {None}
    /\ container \in [image : Images \cup {None}, running : BOOLEAN]
    /\ helper \in HelperContainers \cup {None}
    /\ crashes \in Nat /\ manual \in Nat

\* A fresh installation: the manager has just started, nothing is recorded.
Init ==
    /\ state = None /\ lock = None
    /\ pc = [x \in Processes |-> "idle"]
    /\ snap = [x \in Processes |-> None]
    /\ used = {}
    /\ admitted = FALSE /\ booting = TRUE
    /\ override = None
    /\ \E i \in Images : /\ loaded = {i} /\ tag = i
                         /\ container = [image |-> i, running |-> TRUE]
    /\ helper = None
    /\ crashes = 0 /\ manual = 0

\* Mutant: a helper container that exists counts as running.
HelperExists == helper # None

\* helperRunning: the named container exists and its process runs.
HelperRunning == helper # None /\ helper.running
ManagerUp == container.running

Goto(x, l) == pc' = [pc EXCEPT ![x] = l]
Keep(x, s) == snap' = [snap EXCEPT ![x] = s]

\* A function returns: its goroutine and its copy are gone.
Return(x) == Goto(x, "idle") /\ Keep(x, None)

\* writeState succeeds and the caller goes on with the record it wrote.
Write(x, s, l) ==
    /\ CanWrite(s)
    /\ state' = Written(s)
    /\ Keep(x, Written(s))
    /\ Goto(x, l)

\* cleanupDownload returns early without a download path; otherwise it also
\* removes the override file, which all operations share.
AfterCleanup(s) == IF s.path THEN None ELSE override

-----------------------------------------------------------------------------
\* The manager's workflow: queueReleaseUpdate, in the goroutine of the one
\* tracked "self-update" job.

\* The installation lock is taken before the helper is looked at; a held lock
\* ends the attempt.  The identifier is new.
WfAcquire(o) ==
    /\ ManagerUp /\ admitted /\ pc["workflow"] = "idle"
    /\ o \in Ops \ used
    /\ CreateLock(o, "manager")
    /\ used' = used \cup {o}
    /\ Keep("workflow", [op |-> o, rev |-> 1, phase |-> "preparing", prev |-> None,
                         target |-> None, path |-> FALSE, ack |-> FALSE])
    /\ Goto("workflow", "acquired")
    /\ UNCHANGED <<state, admitted, booting, override, docker, bounds>>

\* releaseLock: the helper runs or cannot be inspected or removed, a path is
\* rejected, or the first record cannot be written.
WfAbort ==
    /\ pc["workflow"] \in EarlyPcs
    /\ lock' = AfterRelease(snap["workflow"].op)
    /\ Return("workflow")
    /\ UNCHANGED <<state, used, admitted, booting, override, docker, bounds>>

WfInspectHelper ==
    /\ pc["workflow"] = "acquired" /\ ~HelperRunning
    /\ Goto("workflow", "removing")
    /\ UNCHANGED <<store, snap, used, admitted, booting, override, docker, bounds>>

\* removeStoppedHelper removes without force, so a running helper stays.
WfRemoveHelper ==
    /\ pc["workflow"] = "removing" /\ ~HelperRunning
    /\ helper' = None
    /\ Goto("workflow", "prepare")
    /\ UNCHANGED <<store, snap, used, admitted, booting, override, loaded, tag,
                   container, bounds>>

WfWritePreparing ==
    /\ pc["workflow"] = "prepare"
    /\ Write("workflow", snap["workflow"], "preparing")
    /\ UNCHANGED <<lock, used, admitted, booting, override, docker, bounds>>

\* The running container's image becomes PreviousImageID.
WfInspectContainer ==
    /\ pc["workflow"] = "preparing"
    /\ Keep("workflow", [snap["workflow"] EXCEPT !.prev = container.image])
    /\ Goto("workflow", "inspected")
    /\ UNCHANGED <<store, used, admitted, booting, override, docker, bounds>>

WfWriteDownloading ==
    /\ pc["workflow"] = "inspected"
    /\ Write("workflow",
             [snap["workflow"] EXCEPT !.phase = "downloading", !.path = TRUE],
             "downloading")
    /\ UNCHANGED <<lock, used, admitted, booting, override, docker, bounds>>

\* The archive is downloaded and validated.
WfWriteVerified ==
    /\ pc["workflow"] = "downloading"
    /\ Write("workflow", [snap["workflow"] EXCEPT !.phase = "verified"], "verified")
    /\ UNCHANGED <<lock, used, admitted, booting, override, docker, bounds>>

\* The release image is not the image that runs: its labels carry a newer
\* version.
WfLoadImage(i) ==
    /\ pc["workflow"] = "verified"
    /\ i # snap["workflow"].prev
    /\ loaded' = loaded \cup {i}
    /\ Keep("workflow", [snap["workflow"] EXCEPT !.target = i])
    /\ Goto("workflow", "loading")
    /\ UNCHANGED <<store, used, admitted, booting, override, tag, container,
                   helper, bounds>>

WfWriteLoaded ==
    /\ pc["workflow"] = "loading"
    /\ Write("workflow", [snap["workflow"] EXCEPT !.phase = "loaded"], "loaded")
    /\ UNCHANGED <<lock, used, admitted, booting, override, docker, bounds>>

\* The helper project is on disk and the operation is handed over.
WfWriteRestartQueued ==
    /\ pc["workflow"] = "loaded"
    /\ Write("workflow", [snap["workflow"] EXCEPT !.phase = "restart-queued"], "queued")
    /\ UNCHANGED <<lock, used, admitted, booting, override, docker, bounds>>

\* A transition that the store rejects ends the workflow with the lock held:
\* somebody else has decided about the operation.
WfWriteRejected ==
    /\ pc["workflow"] \in {"inspected", "downloading", "loading", "loaded", "start-failed"}
    /\ ~CanWrite(snap["workflow"])
    /\ Return("workflow")
    /\ UNCHANGED <<store, used, admitted, booting, override, docker, bounds>>

StartedHelper ==
    /\ helper = None
    /\ helper' = [op |-> snap["workflow"].op, running |-> TRUE]

\* The helper container starts; the lock now belongs to its operation.
WfStartHelper ==
    /\ pc["workflow"] = "queued"
    /\ StartedHelper
    /\ pc' = [pc EXCEPT !["workflow"] = "idle", !["helper"] = "read"]
    /\ Keep("workflow", None)
    /\ UNCHANGED <<store, used, admitted, booting, override, loaded, tag,
                   container, bounds>>

\* Docker reports an error, but the helper may have started all the same.
WfStartHelperError ==
    /\ pc["workflow"] = "queued"
    /\ \/ /\ StartedHelper
          /\ pc' = [pc EXCEPT !["workflow"] = "start-failed", !["helper"] = "read"]
       \/ /\ Goto("workflow", "start-failed")
          /\ UNCHANGED helper
    /\ UNCHANGED <<store, snap, used, admitted, booting, override, loaded, tag,
                   container, bounds>>

\* A helper that has advanced the record is left alone; else the outcome is
\* uncertain and the lock stays.
WfWriteUncertain ==
    /\ pc["workflow"] = "start-failed"
    /\ CanWrite(snap["workflow"])
    /\ state' = Written([snap["workflow"] EXCEPT !.phase = "uncertain"])
    /\ Return("workflow")
    /\ UNCHANGED <<lock, used, admitted, booting, override, docker, bounds>>

\* failState: an unpersisted failure keeps the artifacts and the lock.
WfFail ==
    /\ pc["workflow"] \in {"preparing", "inspected", "downloading", "verified",
                           "loading", "loaded"}
    /\ \/ \E path \in {snap["workflow"].path, pc["workflow"] # "preparing"} :
            Write("workflow",
                  [snap["workflow"] EXCEPT !.phase = "failed", !.path = path], "cleanup")
       \/ /\ ~CanWrite(snap["workflow"])
          /\ Return("workflow")
          /\ UNCHANGED state
    /\ UNCHANGED <<lock, used, admitted, booting, override, docker, bounds>>

\* cleanupDownload, in the workflow, the helper or a reconciler.
Cleanup(x) ==
    /\ pc[x] = "cleanup"
    /\ override' = AfterCleanup(snap[x])
    /\ Goto(x, "release")
    /\ UNCHANGED <<store, snap, used, admitted, booting, docker, bounds>>

WfRelease ==
    /\ pc["workflow"] = "release"
    /\ lock' = AfterRelease(snap["workflow"].op)
    /\ Return("workflow")
    /\ UNCHANGED <<state, used, admitted, booting, override, docker, bounds>>

WorkflowStep ==
    \/ WfAbort \/ WfInspectHelper \/ WfRemoveHelper \/ WfWritePreparing
    \/ WfInspectContainer \/ WfWriteDownloading \/ WfWriteVerified
    \/ \E i \in Images : WfLoadImage(i)
    \/ WfWriteLoaded \/ WfWriteRestartQueued \/ WfWriteRejected
    \/ WfStartHelper \/ WfStartHelperError \/ WfWriteUncertain
    \/ WfFail \/ Cleanup("workflow") \/ WfRelease

Workflow == WorkflowStep \/ \E o \in Ops : WfAcquire(o)

-----------------------------------------------------------------------------
\* The detached helper: RunApplyUpdate in a container of its own.

HelperUnchanged == UNCHANGED <<used, admitted, booting, bounds>>

\* The helper's process ends, its container stays until it is removed.
HelperExit ==
    /\ Return("helper")
    /\ helper' = [helper EXCEPT !.running = FALSE]

HpRead ==
    /\ pc["helper"] = "read"
    /\ \/ /\ state # None /\ state.op = helper.op /\ state.phase = "restart-queued"
          /\ Keep("helper", state)
          /\ Goto("helper", "check")
          /\ UNCHANGED helper
       \/ /\ state # None => state.op # helper.op \/ state.phase # "restart-queued"
          /\ HelperExit
    /\ UNCHANGED <<store, override, loaded, tag, container>> /\ HelperUnchanged

\* requireUpdateLock, before the first check and again before the first
\* mutation.
HpRequireLock(from, to) ==
    /\ pc["helper"] = from
    /\ \/ /\ HoldsUpdateLock(snap["helper"].op)
          /\ Goto("helper", to)
          /\ UNCHANGED <<snap, helper>>
       \/ /\ ~HoldsUpdateLock(snap["helper"].op)
          /\ HelperExit
    /\ UNCHANGED <<store, override, loaded, tag, container>> /\ HelperUnchanged

\* Mutant: an uncertain outcome gives the lock back.
HpUncertainReleasing(pcs) ==
    /\ pc["helper"] \in pcs
    /\ state' = IF CanWrite(snap["helper"])
                  THEN Written([snap["helper"] EXCEPT !.phase = "uncertain"])
                  ELSE state
    /\ lock' = AfterRelease(snap["helper"].op)
    /\ HelperExit
    /\ UNCHANGED <<override, loaded, tag, container>> /\ HelperUnchanged

\* uncertain(): the write may be rejected, which is ignored; the lock stays.
HpUncertain(pcs) ==
    /\ pc["helper"] \in pcs
    /\ state' = IF CanWrite(snap["helper"])
                  THEN Written([snap["helper"] EXCEPT !.phase = "uncertain"])
                  ELSE state
    /\ HelperExit
    /\ UNCHANGED <<lock, override, loaded, tag, container>> /\ HelperUnchanged

\* The target image is there and the container is the recorded one, the
\* recreated one or missing.
HpInspect ==
    /\ pc["helper"] = "inspect"
    /\ snap["helper"].target \in loaded
    /\ container.image \in {None, snap["helper"].prev, snap["helper"].target}
    /\ Goto("helper", "override")
    /\ UNCHANGED <<store, snap, override, docker>> /\ HelperUnchanged

\* Writing the file, or failing to.
HpWriteOverride ==
    /\ pc["helper"] = "override"
    /\ \/ override' = snap["helper"].target /\ Goto("helper", "config")
       \/ Goto("helper", "fail") /\ UNCHANGED override
    /\ UNCHANGED <<store, snap, docker>> /\ HelperUnchanged

\* Compose resolves the app image to the target, or the override goes again.
HpConfig ==
    /\ pc["helper"] = "config"
    /\ \/ /\ override = snap["helper"].target
          /\ Goto("helper", "recreating")
          /\ UNCHANGED override
       \/ override' = None /\ Goto("helper", "fail")
    /\ UNCHANGED <<store, snap, docker>> /\ HelperUnchanged

\* fail(): as in the manager, an unpersisted failure keeps the lock.
HpFail ==
    /\ pc["helper"] = "fail"
    /\ \/ /\ Write("helper", [snap["helper"] EXCEPT !.phase = "failed"], "cleanup")
          /\ UNCHANGED helper
       \/ /\ ~CanWrite(snap["helper"])
          /\ HelperExit
          /\ UNCHANGED state
    /\ UNCHANGED <<lock, override, loaded, tag, container>> /\ HelperUnchanged

\* A phase transition of the helper, which gives up when it is rejected.
HpWrite(from, phase, to) ==
    /\ pc["helper"] = from
    /\ \/ /\ Write("helper", [snap["helper"] EXCEPT !.phase = phase], to)
          /\ UNCHANGED helper
       \/ /\ ~CanWrite(snap["helper"])
          /\ HelperExit
          /\ UNCHANGED state
    /\ UNCHANGED <<lock, override, loaded, tag, container>> /\ HelperUnchanged

\* TagImage; an error does not prove that the daemon rejected the tag.
HpTag ==
    /\ pc["helper"] = "tag"
    /\ \/ tag' = snap["helper"].target /\ Goto("helper", "recreate")
       \/ tag' \in {tag, snap["helper"].target} /\ Goto("helper", "lost")
    /\ UNCHANGED <<store, snap, override, loaded, container, helper>> /\ HelperUnchanged

\* The manager's goroutines end with its process; the next one starts over.
ManagerRestarts(pcs, snaps) ==
    /\ pc' = [x \in Processes |-> IF x \in {"helper", "operator"} THEN pcs[x] ELSE "idle"]
    /\ snap' = [x \in Processes |-> IF x \in {"helper", "operator"} THEN snaps[x] ELSE None]
    /\ admitted' = FALSE
    /\ booting' = TRUE

\* RecreateApp runs the install Compose file with the override file, which
\* has to be there.
HpRecreate ==
    /\ pc["helper"] = "recreate"
    /\ override # None
    /\ container' = [image |-> override, running |-> TRUE]
    /\ ManagerRestarts([pc EXCEPT !["helper"] = "reinspect"], snap)
    /\ UNCHANGED <<store, used, override, loaded, tag, helper, bounds>>

\* The command fails: nothing happened, the container is gone, or the new
\* one was created all the same.
HpRecreateError ==
    /\ pc["helper"] = "recreate"
    /\ \/ Goto("helper", "lost") /\ UNCHANGED <<snap, admitted, booting, container>>
       \/ /\ override # None
          /\ container' \in {[image |-> None, running |-> FALSE],
                             [image |-> override, running |-> TRUE]}
          /\ ManagerRestarts([pc EXCEPT !["helper"] = "lost"], snap)
    /\ UNCHANGED <<store, used, override, loaded, tag, helper, bounds>>

HpReinspect ==
    /\ pc["helper"] = "reinspect"
    /\ container = [image |-> snap["helper"].target, running |-> TRUE]
    /\ Goto("helper", "verifying")
    /\ UNCHANGED <<store, snap, override, docker>> /\ HelperUnchanged

\* Mutant: any answer counts, whatever image gives it.
AnyAnswer(s) == TRUE

\* verifyHealth: the running container uses the target image and answers with
\* the release's version and commit.
Healthy(s) == container = [image |-> s.target, running |-> TRUE]

\* Mutant: the runtime reference is not looked at.
AnyRuntimeImage(s) == TRUE

\* verifyRuntimeImage: the runtime reference resolves to the target.
RuntimeImageVerified(s) == tag = s.target

HpHealth ==
    /\ pc["helper"] = "health"
    /\ Healthy(snap["helper"]) /\ RuntimeImageVerified(snap["helper"])
    /\ Goto("helper", "complete")
    /\ UNCHANGED <<store, snap, override, docker>> /\ HelperUnchanged

HpRelease ==
    /\ pc["helper"] = "release"
    /\ lock' = AfterRelease(snap["helper"].op)
    /\ HelperExit
    /\ UNCHANGED <<state, override, loaded, tag, container>> /\ HelperUnchanged

HelperCrash ==
    /\ pc["helper"] # "idle" /\ crashes < MaxCrashes
    /\ crashes' = crashes + 1
    /\ HelperExit
    /\ UNCHANGED <<store, used, admitted, booting, override, loaded, tag,
                   container, manual>>

\* The states in which a failed check makes the outcome uncertain.
UncertainPcs == {"inspect", "lost", "reinspect", "health"}

HelperProcess ==
    \/ HpRead \/ HpRequireLock("check", "inspect") \/ HpUncertain(UncertainPcs)
    \/ HpInspect \/ HpWriteOverride \/ HpConfig \/ HpFail
    \/ HpWrite("recreating", "recreating", "relock")
    \/ HpRequireLock("relock", "tag") \/ HpTag \/ HpRecreate \/ HpRecreateError
    \/ HpReinspect \/ HpWrite("verifying", "verifying", "health") \/ HpHealth
    \/ HpWrite("complete", "complete", "cleanup")
    \/ Cleanup("helper") \/ HpRelease

-----------------------------------------------------------------------------
\* Reconciliation: reconcileUpdateState at startup and for Settings requests.

RecUnchanged == UNCHANGED <<used, docker, bounds>>

\* The function returns a result that opens admission, or one that does not.
Admit == admitted' = TRUE
Refuse == UNCHANGED admitted

\* The record is read.  It describes this installation: its directory, its
\* container name and its runtime reference do not change in the model.
RecordRead(r) ==
    /\ state # None
    /\ Keep(r, state)
    /\ Goto(r, "helper")
    /\ Refuse

\* main.go runs one reconciliation per process; only this one can meet a
\* missing record, and then a lock file without a record is an orphan.
RecStartup(r) ==
    /\ ManagerUp /\ booting /\ pc[r] = "idle"
    /\ booting' = FALSE
    /\ \/ RecordRead(r)
       \/ /\ state = None /\ lock # None
          /\ Goto(r, "orphan")
          /\ UNCHANGED snap /\ Refuse
       \/ /\ state = None /\ lock = None
          /\ Admit
          /\ UNCHANGED <<pc, snap>>
    /\ UNCHANGED <<store, override>> /\ RecUnchanged

\* updateRedlaunch finds an unresolved operation that is not its own running
\* job; ReconcileInterruptedUpdate reads the record again afterwards.
RecRequest(r) ==
    /\ ManagerUp /\ pc[r] = "idle"
    /\ state # None
    /\ ~Terminal(state) \/ lock # None
    /\ ~(pc["workflow"] # "idle" /\ snap["workflow"].op = state.op)
    /\ Goto(r, "request")
    /\ UNCHANGED <<store, snap, admitted, booting, override>> /\ RecUnchanged

RecBegin(r) ==
    /\ pc[r] = "request"
    /\ RecordRead(r)
    /\ UNCHANGED <<store, booting, override>> /\ RecUnchanged

\* No record but a lock: check that no helper runs, then remove the lock.
RecOrphan(r) ==
    /\ pc[r] = "orphan"
    /\ \/ HelperRunning /\ Goto(r, "idle") /\ Admit
       \/ ~HelperRunning /\ Goto(r, "unlock") /\ Refuse
    /\ UNCHANGED <<store, snap, booting, override>> /\ RecUnchanged

RecUnlock(r) ==
    /\ pc[r] = "unlock"
    /\ lock' = AfterRemoveOrphan
    /\ Goto(r, "idle") /\ Admit
    /\ UNCHANGED <<state, snap, booting, override>> /\ RecUnchanged

\* Mutants: a reconciler does not look for the helper; acknowledged
\* operations are probed like open ones.
RecHelperUnchecked(r) ==
    /\ pc[r] = "helper"
    /\ Goto(r, CASE snap[r].phase = "failed" /\ ~snap[r].ack -> "current-cleanup"
                 [] Terminal(snap[r]) /\ snap[r].ack -> "finish"
                 [] OTHER -> "probe")
    /\ UNCHANGED snap /\ Refuse
    /\ UNCHANGED <<store, booting, override>> /\ RecUnchanged

\* A running helper owns the operation.
RecHelper(r) ==
    /\ pc[r] = "helper"
    /\ \/ HelperRunning /\ Return(r) /\ Admit
       \/ /\ ~HelperRunning
          /\ Goto(r, CASE snap[r].phase = "failed" /\ ~snap[r].ack -> "current-cleanup"
                       [] Terminal(snap[r]) /\ snap[r].ack -> "finish"
                       [] OTHER -> "probe")
          /\ UNCHANGED snap /\ Refuse
    /\ UNCHANGED <<store, booting, override>> /\ RecUnchanged

\* Docker or the context fails: the error leaves admission as it is.
RecError(r) ==
    /\ pc[r] \in {"helper", "orphan"}
    /\ Return(r) /\ Refuse
    /\ UNCHANGED <<store, booting, override>> /\ RecUnchanged

\* The container answers as the target release: complete, unless the runtime
\* reference points elsewhere.
RecProbeHealthy(r) ==
    /\ pc[r] = "probe" /\ container.image # None
    /\ Healthy(snap[r])
    /\ Goto(r, IF RuntimeImageVerified(snap[r]) THEN "current-complete" ELSE "uncertain")
    /\ UNCHANGED <<store, snap, admitted, booting, override>> /\ RecUnchanged

\* It does not.  An uncertain operation stays uncertain; an operation that
\* has not reached the helper failed if the previous image still runs.
RecProbeUnhealthy(r) ==
    /\ pc[r] = "probe"
    /\ \/ snap[r].phase = "uncertain" /\ Return(r) /\ Admit
       \/ /\ snap[r].phase \in ManagerPhases
          /\ container.image # None /\ container.image = snap[r].prev
          /\ Goto(r, "current-failed")
          /\ UNCHANGED snap /\ Refuse
       \/ /\ snap[r].phase # "uncertain"
          /\ Goto(r, "uncertain")
          /\ UNCHANGED snap /\ Refuse
    /\ UNCHANGED <<store, booting, override>> /\ RecUnchanged

\* stillCurrent: the record is read again before anything is changed.
RecStillCurrent(r, from, goal) ==
    /\ pc[r] = from
    /\ \/ Current(snap[r]) /\ Goto(r, goal) /\ UNCHANGED snap /\ Refuse
       \/ ~Current(snap[r]) /\ Return(r) /\ Admit
    /\ UNCHANGED <<store, booting, override>> /\ RecUnchanged

\* The resolved outcome is persisted with writeState; ErrUpdateBusy, the
\* answer to a record of another active operation, opens admission.
RecWrite(r) ==
    /\ pc[r] \in {"complete", "failed"}
    /\ \/ /\ Write(r, [snap[r] EXCEPT !.phase = pc[r]], "cleanup")
          /\ Refuse
       \/ /\ ~CanWrite(snap[r])
          /\ Return(r)
          /\ admitted' = (admitted \/ (state.op # snap[r].op /\ ~Terminal(state)))
          /\ UNCHANGED state
    /\ UNCHANGED <<lock, booting, override>> /\ RecUnchanged

\* A foreign lock makes release, and with it the reconciliation, fail.
RecRelease(r) ==
    /\ pc[r] = "release"
    /\ lock' = AfterRelease(snap[r].op)
    /\ Return(r)
    /\ admitted' = (admitted \/ Unlocked \/ LockIs(snap[r].op))
    /\ UNCHANGED <<state, booting, override>> /\ RecUnchanged

\* reconcileUncertain: the record is unchanged and not acknowledged, and the
\* lock is free or this operation's.
CanReconcileUncertain(s) ==
    /\ Current(s) /\ ~state.ack
    /\ Unlocked \/ HoldsUpdateLock(s.op)

\* Mutant: a missing lock is not taken again.
RecoveryLockUntouched(op) == lock

RecoveryLock(op) == IF Unlocked THEN [op |-> op, owner |-> "manager"] ELSE lock

\* One critical section takes a missing lock and writes the record.  It ends
\* in ErrUpdateUncertain or ErrUpdateBusy, which both open admission, unless
\* the write itself fails.
RecUncertain(r) ==
    /\ pc[r] = "uncertain"
    /\ \/ /\ CanReconcileUncertain(snap[r]) /\ state.rev < MaxRev
          /\ lock' = RecoveryLock(snap[r].op)
          /\ state' = [snap[r] EXCEPT !.phase = "uncertain", !.rev = state.rev + 1]
          /\ Admit
       \/ /\ ~CanReconcileUncertain(snap[r])
          /\ Admit
          /\ UNCHANGED store
       \/ /\ CanReconcileUncertain(snap[r]) /\ state.rev >= MaxRev
          /\ lock' = RecoveryLock(snap[r].op)
          /\ Refuse
          /\ UNCHANGED state
    /\ Return(r)
    /\ UNCHANGED <<booting, override>> /\ RecUnchanged

\* finishAcknowledgedUpdate: one critical section that checks the record and
\* the lock, cleans up and removes the operation's own lock.
Finish(x) ==
    /\ pc[x] = "finish"
    /\ IF Current(snap[x]) /\ Terminal(state) /\ state.ack
            /\ (Unlocked \/ HoldsUpdateLock(state.op))
         THEN override' = AfterCleanup(state) /\ lock' = None
         ELSE UNCHANGED <<override, lock>>
    /\ Return(x)
    /\ UNCHANGED <<state, booting>> /\ RecUnchanged

RecFinish(r) == Finish(r) /\ Admit

ReconcileStep(r) ==
    \/ RecBegin(r) \/ RecOrphan(r) \/ RecUnlock(r)
    \/ RecHelper(r) \/ RecError(r) \/ RecProbeHealthy(r) \/ RecProbeUnhealthy(r)
    \/ RecStillCurrent(r, "current-complete", "complete")
    \/ RecStillCurrent(r, "current-failed", "failed")
    \/ RecStillCurrent(r, "current-cleanup", "cleanup") \/ RecWrite(r) \/ Cleanup(r) \/ RecRelease(r)
    \/ RecUncertain(r) \/ RecFinish(r)

Reconcile(r) == RecStartup(r) \/ RecRequest(r) \/ ReconcileStep(r)

-----------------------------------------------------------------------------
\* ClearUpdateState, run by the operator as a process of its own.

\* Reading a record that is not terminal ends in an error whatever follows.
OpRead ==
    /\ pc["operator"] = "idle"
    /\ state # None /\ Terminal(state)
    /\ Keep("operator", state)
    /\ Goto("operator", "helper")
    /\ UNCHANGED <<store, admitted, booting, override>> /\ RecUnchanged

OpCheckHelper ==
    /\ pc["operator"] = "helper"
    /\ \/ ~HelperRunning /\ Goto("operator", "acknowledge") /\ UNCHANGED snap
       \/ Return("operator")
    /\ UNCHANGED <<store, admitted, booting, override>> /\ RecUnchanged

\* The second read and the write: the write accepts nothing the second read
\* would have rejected, because a terminal record is past its first revision.
OpAcknowledge ==
    /\ pc["operator"] = "acknowledge"
    /\ \/ /\ Current(snap["operator"])
          /\ Write("operator", [snap["operator"] EXCEPT !.ack = TRUE], "finish")
       \/ /\ ~(Current(snap["operator"]) /\ CanWrite(snap["operator"]))
          /\ Return("operator")
          /\ UNCHANGED state
    /\ UNCHANGED <<lock, admitted, booting, override>> /\ RecUnchanged

OpFinish == Finish("operator") /\ Refuse

OpCrash ==
    /\ pc["operator"] # "idle" /\ crashes < MaxCrashes
    /\ crashes' = crashes + 1
    /\ Return("operator")
    /\ UNCHANGED <<store, used, admitted, booting, override, docker, manual>>

Operator == OpRead \/ OpCheckHelper \/ OpAcknowledge \/ OpFinish \/ OpCrash

-----------------------------------------------------------------------------
\* PruneUnusedImages of the dashboard service.

\* Mutant: pruning does not take the installation lock.
PruneAcquireUnlocked ==
    /\ ManagerUp /\ admitted /\ pc["prune"] = "idle"
    /\ Goto("prune", "pruning")
    /\ UNCHANGED <<store, snap, used, admitted, booting, override, docker, bounds>>

PruneAcquire ==
    /\ ManagerUp /\ admitted /\ pc["prune"] = "idle"
    /\ CreateLock(PruneOp, "prune")
    /\ Goto("prune", "pruning")
    /\ UNCHANGED <<state, snap, used, admitted, booting, override, docker, bounds>>

\* Docker drops images no container refers to, or fails half-way.
Prune ==
    /\ pc["prune"] = "pruning"
    /\ loaded' \in {kept \in SUBSET loaded : container.image \in kept}
    /\ tag' = IF tag \in loaded' THEN tag ELSE None
    /\ Goto("prune", "release")
    /\ UNCHANGED <<store, snap, used, admitted, booting, override, container,
                   helper, bounds>>

PruneRelease ==
    /\ pc["prune"] = "release"
    /\ lock' = AfterRelease(PruneOp)
    /\ Goto("prune", "idle")
    /\ UNCHANGED <<state, snap, used, admitted, booting, override, docker, bounds>>

-----------------------------------------------------------------------------
\* The environment: the manager's process dies and its restart policy starts
\* it again; the operator deploys an image by hand, retagging it or not.
ManagerCrash ==
    /\ ManagerUp /\ crashes < MaxCrashes
    /\ crashes' = crashes + 1
    /\ ManagerRestarts(pc, snap)
    /\ UNCHANGED <<store, used, override, docker, manual>>

ManualDeploy(i) ==
    /\ manual < MaxManual
    /\ i \in loaded
    /\ manual' = manual + 1
    /\ container' = [image |-> i, running |-> TRUE]
    /\ tag' \in {tag, i}
    /\ ManagerRestarts(pc, snap)
    /\ UNCHANGED <<store, used, override, loaded, helper, crashes>>

Next ==
    \/ Workflow \/ HelperProcess \/ HelperCrash
    \/ \E r \in Reconcilers : Reconcile(r)
    \/ Operator
    \/ PruneAcquire \/ Prune \/ PruneRelease
    \/ ManagerCrash \/ \E i \in Images : ManualDeploy(i)

Spec == Init /\ [][Next]_vars

\* Goroutines and the helper's process run until they return (every Docker
\* call has a deadline).  An administrator who sees an unresolved operation
\* asks again, and Docker does not fail the helper inspection for ever.
\* Nobody has to start an update, to prune, to acknowledge or to crash.
Fairness ==
    /\ WF_vars(WorkflowStep)
    /\ WF_vars(HelperProcess)
    /\ \A r \in Reconcilers : /\ WF_vars(RecRequest(r))
                              /\ WF_vars(ReconcileStep(r))
                              /\ SF_vars(RecHelper(r))

FairSpec == Spec /\ Fairness

-----------------------------------------------------------------------------
Unresolved == state # None /\ ~Terminal(state)

\* update_state.go: an operation that is not terminal owns the installation
\* lock, so no other update, prune or restart can interleave with it.
ActiveHoldsLock ==
    Unresolved => HoldsUpdateLock(state.op)

\* update_apply.go's requireUpdateLock comment: the helper never touches
\* Docker's tag or the manager's container without exclusion.
HelperMutatesUnderLock ==
    pc["helper"] \in {"tag", "recreate"} => HoldsUpdateLock(snap["helper"].op)

\* dashboard.go: pruning never removes a release image that an operation has
\* loaded and has still to install.
TargetKept ==
    state # None /\ state.phase \in {"loaded"} \cup HelperPhases
        => state.target \in loaded

\* README: an uncertain operation keeps the lock until it is verified or
\* acknowledged.
UncertainRetainsLock ==
    state # None /\ state.phase = "uncertain" /\ ~state.ack => LockIs(state.op)

\* The override file the helper installs from is its own operation's.
\* The code does not keep this: README, "Disagreements".
OverrideIntact ==
    pc["helper"] \in {"recreating", "relock", "tag", "recreate"}
        => override = snap["helper"].target

\* RunApplyUpdate and recovery record success only while the container and
\* the runtime reference are those of the release (unless the operator
\* deployed by hand meanwhile).
CompleteIsVerified ==
    [][/\ state' # None /\ state'.phase = "complete" /\ ~state'.ack
       /\ manual = 0
       => /\ container.running /\ container.image = state'.target
          /\ tag = state'.target]_state

\* README: startup recovery reports success only when the running container
\* and the configured runtime image reference match the release, whatever the
\* operator deployed before.
RecoveryIsVerified ==
    [][\A r \in Reconcilers :
           pc[r] = "complete" /\ pc'[r] = "cleanup"
           => /\ container.running /\ container.image = state'.target
              /\ tag = state'.target]_vars

\* Acknowledged history is never reopened: only a new operation replaces it.
AcknowledgedIsFinal ==
    [][state # None /\ state.ack
       => /\ state' # None
          /\ \/ state'.op = state.op /\ state'.ack /\ state'.phase = state.phase
             \/ state'.op # state.op /\ state'.phase = "preparing"]_state

\* A record is replaced by another operation's only when it is terminal, and
\* an uncertain one only after its acknowledgement.
ReplacedOnlyWhenClosed ==
    [][state # None /\ state'.op # state.op
       => /\ Terminal(state)
          /\ state.phase = "uncertain" => state.ack]_state

-----------------------------------------------------------------------------
\* The inductive invariant behind ActiveHoldsLock and AcknowledgedIsFinal.

\* A record's first revision is the bare preparing one, and only terminal
\* records are acknowledged.
RecordOK(s) ==
    /\ s.rev = 1 => s.phase = "preparing" /\ s.prev = None /\ s.target = None
    /\ s.ack => Terminal(s)

\* A copy is the current record or an older revision of it, or belongs to
\* another operation that has been handed out.
CopyOK(s) ==
    /\ s.op \in used
    /\ s.ack => Terminal(s)
    /\ state # None /\ s.op = state.op
         => /\ s.rev <= state.rev
            /\ s.rev = state.rev => s.phase = state.phase /\ s.ack = state.ack

\* Before its first record the workflow owns the lock under a new identifier;
\* afterwards the record stays its own.
WorkflowOK(s, l) ==
    /\ l # "idle" => l \in WorkflowPcs /\ s # None /\ admitted
    /\ l \in EarlyPcs =>
         /\ lock = [op |-> s.op, owner |-> "manager"] /\ ~Unlocked
         /\ s.rev = 1 /\ RecordOK(s) /\ s.phase = "preparing"
         /\ state # None => state.op # s.op
    /\ l \notin EarlyPcs \cup {"idle"} => state # None /\ state.op = s.op
    /\ l \in WorkflowPcs \ {"cleanup", "release"} => ~Terminal(s)

HelperOK(s, l) ==
    /\ l # "idle" => l \in HelperPcs /\ HelperRunning
    /\ l \notin {"idle", "read"} => s # None /\ s.rev >= 2
    /\ l \notin {"idle", "read", "cleanup", "release"} => ~Terminal(s)

\* A lock without a record is removed only before admission.
ReconcilerOK(s, l) ==
    /\ l # "idle" => l \in ReconcilePcs
    /\ l \notin {"idle", "request", "orphan", "unlock"} => s # None
    /\ l \in {"orphan", "unlock"} => state = None /\ ~admitted /\ ~booting
    /\ l \in {"current-complete", "complete", "current-failed", "failed"} => s.rev >= 2 /\ ~s.ack
    /\ l = "probe" => ~s.ack
    /\ l = "current-cleanup" => s.phase = "failed"

\* A process that is about to clean up and to release has closed its
\* operation, and nobody opens it again.
ReleasingOK(s, l) ==
    l \in {"cleanup", "release"} =>
        s # None /\ (state # None /\ state.op = s.op => Terminal(state))

ProcessOK(x, s, l) ==
    /\ s # None => CopyOK(s) /\ (x # "workflow" => RecordOK(s))
    /\ x = "workflow" => WorkflowOK(s, l)
    /\ x = "helper" => HelperOK(s, l)
    /\ x = "operator" => (l # "idle" => l \in OperatorPcs /\ s # None /\ Terminal(s))
    /\ x \in Reconcilers => ReconcilerOK(s, l)
    /\ x = "prune" => s = None
    /\ x # "prune" => ReleasingOK(s, l)

\* Nobody else has a copy under the new identifier.
NewOpUnknown ==
    pc["workflow"] \in EarlyPcs =>
        \A x \in Processes \ {"workflow"} :
            snap[x] # None => snap[x].op # snap["workflow"].op

\* Until a record exists, only the startup reconciliation runs.
StartupAlone ==
    /\ state = None /\ booting => ~admitted /\ \A r \in Reconcilers : pc[r] = "idle"
    /\ \A r \in Reconcilers : pc[r] \in {"orphan", "unlock"} =>
         \A q \in Reconcilers \ {r} : pc[q] = "idle"

IInv ==
    /\ TypeOK
    /\ ActiveHoldsLock
    /\ state # None => RecordOK(state) /\ state.op \in used
    /\ \A x \in Processes : ProcessOK(x, snap[x], pc[x])
    /\ NewOpUnknown
    /\ StartupAlone
-----------------------------------------------------------------------------
\* What the steps beside the lock rely on, behind the other properties.

\* The record is still the one of x's operation.
OwnRecord(x) == state # None /\ state.op = snap[x].op

\* A prune holds the installation lock from its first step to its last.
PruneHoldsLock ==
    pc["prune"] # "idle" => lock = [op |-> PruneOp, owner |-> "prune"] /\ ~Unlocked

\* The workflow goes on only from records it wrote itself, and leaves a
\* failure to nobody else.
WorkflowHistory ==
    /\ pc["workflow"] \notin {"idle", "cleanup", "release"}
         => snap["workflow"].phase \in ManagerPhases \cup {"restart-queued"}
    /\ pc["workflow"] \in {"cleanup", "release"} /\ OwnRecord("workflow")
         => state.phase = "failed"

\* The image of an open operation is there for whoever may still write it.
ImageKept ==
    /\ TargetKept
    /\ Unresolved /\ pc["workflow"] \in {"loading", "loaded"}
         => snap["workflow"].target \in loaded
    /\ Unresolved /\ pc["helper"] \notin {"idle", "read", "cleanup", "release"}
         /\ OwnRecord("helper") => snap["helper"].target \in loaded

\* Between its last write before it touches Docker and its exit, nobody else
\* goes on from the record the helper wrote.
HelperAlone ==
    /\ pc["helper"] \in {"relock", "tag", "recreate"}
         => Current(snap["helper"]) /\ snap["helper"].phase = "recreating"
    /\ pc["helper"] \in {"cleanup", "release"} /\ OwnRecord("helper")
         => state.phase \in {"failed", "complete"}
    /\ pc["helper"] \in {"relock", "tag", "recreate", "cleanup", "release"}
         /\ OwnRecord("helper")
         => \A r \in Reconcilers : snap[r] # None /\ Current(snap[r]) => pc[r] = "helper"

\* What was verified still holds while the outcome is written.
StillVerified ==
    /\ \A r \in Reconcilers : pc[r] \in {"current-complete", "complete"} /\ Current(snap[r])
         => Healthy(snap[r]) /\ RuntimeImageVerified(snap[r])
    /\ pc["helper"] = "complete" /\ Current(snap["helper"]) /\ manual = 0
         => Healthy(snap["helper"]) /\ RuntimeImageVerified(snap["helper"])

\* A failed operation is only cleaned up; nobody probes it.
FailedIsCleaned ==
    \A r \in Reconcilers :
        pc[r] \in {"probe", "uncertain", "current-complete", "complete", "current-failed", "failed"}
        => snap[r].phase # "failed"

\* With one reconciler, what it closed nobody makes uncertain under it.
OneReconciler == \A r, q \in Reconcilers : r = q
ClosedByOne ==
    \A r \in Reconcilers :
        pc[r] \in {"cleanup", "release"} /\ OwnRecord(r)
        => state.phase \in {"failed", "complete"}

SInv ==
    /\ PruneHoldsLock /\ WorkflowHistory /\ ImageKept /\ HelperAlone /\ StillVerified /\ FailedIsCleaned
    /\ OneReconciler => ClosedByOne /\ UncertainRetainsLock
=============================================================================
