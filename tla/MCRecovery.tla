------------------------------ MODULE MCRecovery ------------------------------
(***************************************************************************)
(* What an interruption leaves is put in order: updates, access-mode       *)
(* restarts, maintenance windows of the registry, leases of backups.  A    *)
(* behaviour is one of one component, the others rest; which says of       *)
(* which.  A component that rests enables none of the actions its fairness *)
(* is about, or the fairness names which.                                  *)
(***************************************************************************)
EXTENDS Integers, TLC

CONSTANTS r1, r2,  \* reconciliations and requests
          i1, i2,  \* images
          a,       \* an update
          None

VARIABLES
  which,
  state, locked, pc, snap, used, admitted, booting, override, loaded, tag, container, helper,
  crashes, manual,
  env, live, phase, lock, marker, recreator, change, queued, prune, nextOp, deaths,
  config, mode, gc, file, up, blocked, holder, recent, step, opts, done, wanted, budget,
  op, lease, mu, row, timer, temps, stale, files, records, made, expired, gone, job,
  restored, recorded, removed, failed, crashed

update == <<state, locked, pc, snap, used, admitted, booting, override, loaded, tag, container,
            helper, crashes, manual>>
restart == <<env, live, phase, lock, marker, recreator, change, queued, prune, nextOp, deaths>>
maintenance == <<config, mode, gc, file, up, blocked, holder, recent, step, opts, done, wanted,
                 budget>>
backup == <<op, lease, mu, row, timer, temps, stale, files, records, made, expired, gone, job,
            restored, recorded, removed, failed, crashed>>
vars == <<which, update, restart, maintenance, backup>>

(* One update and one crash of any process.                                *)
Update == INSTANCE ReleaseUpdate WITH
  lock <- locked, Ops <- {a}, Images <- {i1, i2}, MaxRev <- 10, Reconcilers <- {r1},
  PruneOp <- "prune", MaxCrashes <- 1, MaxManual <- 0

(* Three operations of the installation lock.                              *)
Restart == INSTANCE AccessRestart WITH
  helper <- recreator, req <- change, crashes <- deaths, Modes <- {"ssh", "https"}, MaxOp <- 3,
  Faults <- {}, Updates <- TRUE, MaxCrashes <- 1

(* A failing step, a crash and a start of the registry by Docker.          *)
Window == INSTANCE RegistryMaintenance WITH
  pc <- step, Bases <- {"v1", "v2"}, EditDuring <- FALSE, Fails <- 1, Crashes <- 1, Edits <- 0,
  Restarts <- 1

(* Backups and a schedule edit, one failure and one crash; the requests    *)
(* (backups) and the lease (leases) are looked at in behaviours apart.     *)
Backed == INSTANCE Backups WITH
  Actors <- {r1, r2}, Kinds <- {"backup", "on"}, MaxFiles <- 1, Cap <- 1, Lease <- 2,
  Hangs <- FALSE, Failures <- 1, Crashes <- 1

Init ==
  /\ which \in {"update", "restart", "window", "backups", "leases"}
  /\ Update!Init /\ (which = "update" \/ tag = i1)
  /\ Restart!Init /\ (which = "restart" \/ env = "ssh")
  /\ Window!Init /\ (which = "window" \/ wanted = "v1")
  /\ Backed!Init

Next ==
  \/ which = "update" /\ Update!Next /\ UNCHANGED <<which, restart, maintenance, backup>>
  \/ which = "restart" /\ Restart!Next /\ UNCHANGED <<which, update, maintenance, backup>>
  \/ which = "window" /\ Window!Next /\ UNCHANGED <<which, update, restart, backup>>
  \/ which \in {"backups", "leases"} /\ Backed!Next
     /\ UNCHANGED <<which, update, restart, maintenance>>

Fairness ==
  /\ WF_update(which = "update" /\ Update!WorkflowStep)
  /\ WF_update(which = "update" /\ Update!HelperProcess)
  /\ WF_update(which = "update" /\ Update!RecRequest(r1))
  /\ WF_update(which = "update" /\ Update!ReconcileStep(r1))
  /\ SF_update(which = "update" /\ Update!RecHelper(r1))
  /\ WF_maintenance(which = "window" /\ Window!Boot)
  /\ WF_maintenance(which = "window" /\ Window!WorkerPass)
  /\ \A c \in Window!Clients : WF_maintenance(which = "window" /\ Window!Step(c))
  /\ Restart!Fairness /\ Backed!Fairness

FairSpec == Init /\ [][Next]_vars /\ Fairness

(* An update that is not terminal; a helper that changes the access mode;  *)
(* a registry that is not writable or whose state file is still there; a   *)
(* request for the backups of a service; a lease that somebody holds.      *)
Interrupted ==
  CASE which = "update" -> Update!Unresolved
    [] which = "restart" -> Restart!HelperRunning /\ recreator.kind = "restart"
    [] which = "window" -> mode # "rw" \/ file # None
    [] which = "backups" -> Backed!Live(r1)
    [] which = "leases" -> lease.by # None /\ ~Backed!Expired

(* An update that is complete, failed or uncertain, or a manager that is   *)
(* down; no lock and no marker; a registry that accepts pushes and no      *)
(* state file; an answered request; a lease that is free or expired.       *)
InOrder ==
  CASE which = "update" -> ~Update!Unresolved \/ ~Update!ManagerUp
    [] which = "restart" -> lock = None /\ marker = None
    [] which = "window" -> mode = "rw" /\ file = None
    [] which = "backups" -> ~Backed!Live(r1)
    [] which = "leases" -> lease.by = None \/ Backed!Expired

(* Nothing stays half done: what was begun is in order again, whichever    *)
(* process died and whichever step failed on the way.                      *)
RecoveryEnds == Interrupted ~> InOrder
=============================================================================
