-------------------------- MODULE InstallationStore --------------------------
(***************************************************************************)
(* updateStateStore (internal/service/update_state.go): the durable state  *)
(* record and the installation lock file that the manager, the detached    *)
(* update helper and the operator's command share.  withStoreLock          *)
(* serialises every operation between goroutines and processes, so each    *)
(* operator below describes one atomic step.                               *)
(***************************************************************************)
EXTENDS Integers

CONSTANTS Ops,     \* operation identifiers
          Images,  \* image identifiers
          None,    \* an absent file, field or container
          MaxRev   \* the largest revision validateUpdateState accepts

ASSUME NoneIsNothing == None \notin Ops /\ None \notin Images
ASSUME MaxRevNat == MaxRev \in Nat /\ MaxRev >= 1

VARIABLES state,  \* state.json: None or the record of the current operation
          lock    \* operation.lock: None or the operation and owner in it

ManagerPhases == {"preparing", "downloading", "verified", "loaded"}
HelperPhases == {"restart-queued", "recreating", "verifying"}
TerminalPhases == {"complete", "failed", "uncertain"}
Phases == ManagerPhases \cup HelperPhases \cup TerminalPhases

\* application.UpdateState, without the fields that never decide a branch.
\* "path" says whether DownloadPath is set.
Records == [op : Ops, rev : 1..MaxRev, phase : Phases,
            prev : Images \cup {None}, target : Images \cup {None},
            path : BOOLEAN, ack : BOOLEAN]

ReleaseOwners == {"manager", "helper"}
Owners == ReleaseOwners \cup {"prune"}

Terminal(s) == s.phase \in TerminalPhases

\* readState: the record of this operation at this revision is still there.
Current(s) == state # None /\ state.op = s.op /\ state.rev = s.rev

\* Mutants: the caller's revision is not compared; the limit is not checked.
CanWriteUnchecked(s) ==
    /\ state # None /\ state.op # s.op => Terminal(state)
    /\ state # None /\ state.op = s.op => state.rev < MaxRev

\* writeStateLocked accepts a first record, a first record that follows a
\* terminal one of another operation, or the successor of the revision the
\* caller read; validateUpdateState rejects revisions past the limit.
CanWrite(s) ==
    IF state # None /\ state.op = s.op
      THEN s.rev = state.rev /\ state.rev < MaxRev
      ELSE s.rev = 1 /\ (state # None => Terminal(state))

\* The record that a successful write leaves in the file and hands back.
Written(s) ==
    [s EXCEPT !.rev = IF state # None /\ state.op = s.op THEN state.rev + 1 ELSE 1]

Unlocked == lock = None
LockIs(op) == lock # None /\ lock.op = op

\* createLock: O_EXCL, so an existing lock file means ErrUpdateBusy.
CreateLock(op, owner) == Unlocked /\ lock' = [op |-> op, owner |-> owner]

\* requireUpdateLock: the lock is a release lock of this very operation.
HoldsUpdateLock(op) == LockIs(op) /\ lock.owner \in ReleaseOwners

\* Mutant: release removes whatever lock file it finds.
AfterReleaseAny(op) == None

\* release removes the caller's own lock and leaves a foreign one alone.
AfterRelease(op) == IF LockIs(op) THEN None ELSE lock

\* removeOrphanedUpdateLock leaves the locks of other features alone.
AfterRemoveOrphan ==
    IF lock # None /\ lock.owner \in ReleaseOwners THEN None ELSE lock
=============================================================================
