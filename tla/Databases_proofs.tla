--------------------------- MODULE Databases_proofs ---------------------------
(***************************************************************************)
(* Proofs about MCDatabases: passwords and rotations, the leases of the    *)
(* cluster's databases, the lease and the schedule of a service's backups, *)
(* with one inductive invariant for each component and the suite's first   *)
(* theorems; then the cluster's databases, users and grants, and the files *)
(* and records of backups, with the theorem on both.                       *)
(***************************************************************************)
EXTENDS MCDatabases, TLAPS

---------------------------------------------------------------------------
(* Credentials of a service.  A rotation that has the lock has it alone;   *)
(* from its ALTER ROLE on the role holds what it asked for, and each file  *)
(* it has written and the container it has created hold it too.  Without   *)
(* edits and crashes (CalmHolds) everything belongs to one user, between   *)
(* operations role and files have one password, and what a failing write   *)
(* puts back is consistent.                                                *)

Pairs == [user : Users, password : Passwords]
Stages == {"idle", "rename", "alter", "scoped", "mirror", "undo", "restart", "verify"}
Rotation == [pc : Stages, new : Pairs, old : Pairs, oldMirror : Pairs, cancelled : BOOLEAN]
Resting == [pc |-> "idle", new |-> First, old |-> First, oldMirror |-> First, cancelled |-> FALSE]

RotationTypes ==
  /\ role \in Pairs /\ scoped \in Pairs /\ mirror \in Pairs /\ container \in Pairs
  /\ proc \in [Requests -> Rotation]

RotationHolds ==
  /\ role.user = meta
  /\ \A p \in Requests :
       /\ proc[p].pc # "idle" => lock = p
       /\ proc[p].pc \in {"scoped", "mirror", "undo", "restart", "verify"} => role = proc[p].new
       /\ proc[p].pc \in {"mirror", "restart", "verify"} => scoped = proc[p].new
       /\ proc[p].pc \in {"restart", "verify"} => mirror = proc[p].new
       /\ proc[p].pc = "verify" => container = proc[p].new

CalmHolds ==
  /\ faults \in Nat /\ edits = 0 /\ crashes = 0
  /\ scoped.user = meta /\ mirror.user = meta /\ container.user = meta
  /\ lock = None => role.password = scoped.password /\ mirror.password = scoped.password
  /\ \A p \in Requests :
       /\ proc[p].pc # "idle" => up /\ proc[p].cancelled = FALSE
       /\ proc[p].pc \in {"rename", "alter"} =>
            role.password = scoped.password /\ mirror.password = scoped.password
       /\ proc[p].pc \notin {"idle", "rename"} =>
            /\ proc[p].new.user = meta /\ proc[p].old.user = meta /\ proc[p].oldMirror.user = meta
            /\ proc[p].old.password = proc[p].oldMirror.password
       /\ proc[p].pc = "undo" => faults >= 1

RotationInv == RotationTypes /\ RotationHolds

Moves(p, stage) ==
  /\ proc' \in [Requests -> Rotation]
  /\ proc'[p].pc = stage /\ proc'[p].new = proc[p].new /\ proc'[p].old = proc[p].old
  /\ proc'[p].oldMirror = proc[p].oldMirror /\ proc'[p].cancelled = proc[p].cancelled
  /\ \A q \in Requests \ {p} : proc'[q] = proc[q]
Rests(p) ==
  /\ proc' \in [Requests -> Rotation]
  /\ proc'[p].pc = "idle" /\ lock' = None
  /\ \A q \in Requests \ {p} : proc'[q] = proc[q]

LEMMA Moved ==
  ASSUME proc \in [Requests -> Rotation], NEW p \in Requests, NEW stage \in Stages,
         proc' = [proc EXCEPT ![p].pc = stage]
  PROVE  Moves(p, stage)
<1>1. proc[p] \in Rotation /\ [proc[p] EXCEPT !.pc = stage] \in Rotation
  BY DEF Rotation
<1>2. proc' = [proc EXCEPT ![p] = [proc[p] EXCEPT !.pc = stage]]
  OBVIOUS
<1> QED
  BY <1>1, <1>2 DEF Moves, Rotation

(* A step to a later stage keeps the invariant: the rotation that has the   *)
(* lock goes on, the role keeps its value, and each file and the container  *)
(* a stage speaks of hold what was asked for.                               *)
LEMMA MovedHolds ==
  ASSUME RotationInv, NEW p \in Requests,
         NEW stage \in {"mirror", "undo", "restart", "verify"},
         proc[p].pc \in {"scoped", "mirror", "restart"}, Moves(p, stage),
         lock = p, \A q \in Requests \ {p} : proc[q].pc = "idle",
         UNCHANGED <<role, meta, lock>>,
         scoped' \in Pairs, mirror' \in Pairs, container' \in Pairs,
         stage # "undo" => scoped' = proc[p].new,
         stage \in {"restart", "verify"} => mirror' = proc[p].new,
         stage = "verify" => container' = proc[p].new
  PROVE  RotationInv'
<1>1. proc' \in [Requests -> Rotation] /\ proc'[p].pc = stage /\ proc'[p].new = proc[p].new
  BY DEF Moves
<1>2. RotationTypes'
  BY <1>1 DEF RotationInv, RotationTypes
<1>3. role.user = meta /\ role = proc[p].new
  BY DEF RotationInv, RotationHolds
<1>4. \A q \in Requests \ {p} : proc'[q].pc = "idle"
  BY DEF Moves
<1>5. RotationHolds'
  <2>1. (role.user = meta)'
    BY <1>3
  <2>2. ASSUME NEW q \in Requests, q # p
        PROVE  proc'[q].pc = "idle"
    BY <1>4, <2>2
  <2> QED
    BY <1>1, <1>3, <2>1, <2>2 DEF RotationHolds
<1> QED
  BY <1>2, <1>5 DEF RotationInv

(* Nor does such a step disturb what holds without edits and crashes: the   *)
(* user stays, and only a failure sends a rotation to undo.                 *)
LEMMA MovedCalm ==
  ASSUME CalmHolds, NEW p \in Requests, lock = p, lock # None,
         NEW stage \in {"mirror", "undo", "restart", "verify"},
         proc[p].pc \in {"scoped", "mirror", "restart"}, Moves(p, stage),
         \A q \in Requests \ {p} : proc[q].pc = "idle",
         UNCHANGED <<meta, lock, up, edits, crashes>>,
         scoped'.user = meta, mirror'.user = meta, container'.user = meta,
         faults' \in Nat, stage = "undo" => faults' >= 1
  PROVE  CalmHolds'
<1>1. /\ proc'[p].pc = stage /\ proc'[p].new = proc[p].new /\ proc'[p].old = proc[p].old
      /\ proc'[p].oldMirror = proc[p].oldMirror /\ proc'[p].cancelled = proc[p].cancelled
  BY DEF Moves
<1>2. up /\ proc[p].cancelled = FALSE
      /\ proc[p].new.user = meta /\ proc[p].old.user = meta /\ proc[p].oldMirror.user = meta
      /\ proc[p].old.password = proc[p].oldMirror.password
  BY DEF CalmHolds
<1>3. ASSUME NEW q \in Requests, q # p
      PROVE  proc'[q].pc = "idle"
  BY <1>3 DEF Moves
<1>4. edits' = 0 /\ crashes' = 0
  BY DEF CalmHolds
<1> QED
  BY <1>1, <1>2, <1>3, <1>4 DEF CalmHolds

LEMMA Alone ==
  ASSUME Constants, RotationHolds, NEW p \in Requests, proc[p].pc # "idle"
  PROVE  lock = p /\ lock # None /\ \A q \in Requests \ {p} : proc[q].pc = "idle"
BY DEF RotationHolds, Constants

LEMMA Rested ==
  ASSUME proc \in [Requests -> Rotation], NEW p \in Requests, Resting \in Rotation,
         proc' = [proc EXCEPT ![p] = Resting], lock' = None
  PROVE  Rests(p)
BY DEF Rests, Resting

LEMMA DriftingNextInv ==
  ASSUME Constants, First \in Pairs, RotationInv, Drifting!Next
  PROVE  RotationInv'
<1>a. Drifting!Credentials = Pairs /\ Drifting!Idle = Resting /\ Resting \in Rotation
  BY DEF Drifting!Credentials, Drifting!Idle, Resting, Pairs, Stages, Rotation
<1>n. None \notin Requests
  BY DEF Constants
<1>g. ASSUME NEW p \in Requests, NEW stage \in Stages, Drifting!Goto(p, stage) PROVE Moves(p, stage)
  BY <1>g, Moved DEF RotationInv, RotationTypes, Drifting!Goto
<1>e. ASSUME NEW p \in Requests, Drifting!Ends(p) PROVE Rests(p)
  BY <1>a, <1>e, Rested DEF RotationInv, RotationTypes, Drifting!Ends
<1>1. CASE \E p \in Requests, u \in Users, w \in Passwords :
             Drifting!updatePostgresCredentials(p, u, w)
  <2> PICK p \in Requests, u \in Users, w \in Passwords :
        Drifting!updatePostgresCredentials(p, u, w)
    BY <1>1
  <2> DEFINE asked == [user |-> u, password |-> w]
  <2>0. asked \in Pairs /\ asked.user = u
    BY DEF Pairs
  <2>1. PICK stage \in {"rename", "alter"} :
          /\ stage = "alter" => asked.user = scoped.user
          /\ proc' = [proc EXCEPT ![p] = [pc |-> stage, new |-> asked, old |-> scoped,
                                          oldMirror |-> mirror, cancelled |-> FALSE]]
    BY <2>0 DEF Drifting!updatePostgresCredentials
  <2>2. lock = None /\ lock' = p /\ up
        /\ UNCHANGED <<role, scoped, mirror, meta, container, up, faults>>
    BY DEF Drifting!updatePostgresCredentials, Drifting!files, Drifting!counts
  <2> HIDE DEF asked
  <2> QED
    BY <1>n, <2>0, <2>1, <2>2 DEF RotationInv, RotationTypes, RotationHolds, Pairs, Stages, Rotation
<1>2. CASE \E p \in Requests : Drifting!Rename(p)
  <2> PICK p \in Requests : Drifting!Rename(p)
    BY <1>2
  <2>0. proc[p].pc = "rename"
    BY DEF Drifting!Rename
  <2>a. lock = p /\ lock # None /\ \A q \in Requests \ {p} : proc[q].pc = "idle"
    BY Alone, <2>0 DEF RotationInv
  <2>1. Rests(p) /\ UNCHANGED <<role, scoped, mirror, meta, container, up, faults>>
    BY <1>e DEF Drifting!Rename, Drifting!files, Drifting!counts
  <2> QED
    BY <2>0, <2>a, <2>1 DEF RotationInv, RotationTypes, RotationHolds, Rests
<1>3. CASE \E p \in Requests : Drifting!Alter(p)
  <2> PICK p \in Requests : Drifting!Alter(p)
    BY <1>3
  <2>0. proc[p].pc = "alter" /\ UNCHANGED <<scoped, mirror, meta, container, up>>
    BY DEF Drifting!Alter, Drifting!files, Drifting!counts
  <2>a. lock = p /\ lock # None /\ \A q \in Requests \ {p} : proc[q].pc = "idle"
    BY Alone, <2>0 DEF RotationInv
  <2>1. CASE /\ Drifting!Can(p, proc[p].new.user)
             /\ role' = [role EXCEPT !.password = proc[p].new.password]
             /\ Drifting!Goto(p, "scoped") /\ UNCHANGED <<lock, faults>>
    <3>1. Moves(p, "scoped")
      BY <1>g, <2>1 DEF Stages
    <3>2. role.user = proc[p].new.user
      BY <2>1 DEF Drifting!Can
    <3>3. proc[p].new \in Pairs /\ role \in Pairs
      BY DEF RotationInv, RotationTypes, Rotation
    <3>4. role' = proc[p].new
      BY <2>1, <3>2, <3>3 DEF Pairs
    <3> QED
      BY <2>0, <2>a, <2>1, <3>1, <3>2, <3>3, <3>4
         DEF RotationInv, RotationTypes, RotationHolds, Moves
  <2>2. CASE Drifting!Ends(p) /\ faults' \in {faults, faults + 1}
        /\ (role' = role \/ role' = [role EXCEPT !.password = proc[p].new.password])
    <3>1. Rests(p)
      BY <1>e, <2>2
    <3>2. role' \in Pairs /\ role'.user = role.user
      BY <2>2 DEF RotationInv, RotationTypes, RotationHolds, Pairs, Stages, Rotation
    <3> QED
      BY <2>0, <2>a, <2>2, <3>1, <3>2 DEF RotationInv, RotationTypes, RotationHolds, Rests
  <2> QED
    BY <2>1, <2>2 DEF Drifting!Alter, Drifting!Faulty
<1>4. CASE \E p \in Requests : Drifting!WriteScoped(p)
  <2> PICK p \in Requests : Drifting!WriteScoped(p)
    BY <1>4
  <2>0. proc[p].pc = "scoped" /\ UNCHANGED <<role, mirror, meta, container, up, lock>>
    BY DEF Drifting!WriteScoped, Drifting!files, Drifting!counts
  <2>a. lock = p /\ lock # None /\ \A q \in Requests \ {p} : proc[q].pc = "idle"
    BY Alone, <2>0 DEF RotationInv
  <2>1. CASE scoped' = proc[p].new /\ Drifting!Goto(p, "mirror") /\ UNCHANGED faults
    <3>1. Moves(p, "mirror")
      BY <1>g, <2>1 DEF Stages
    <3>m. /\ scoped' \in Pairs /\ mirror' \in Pairs /\ container' \in Pairs
          /\ proc[p].pc # "scoped" => scoped = proc[p].new
          /\ proc[p].pc \notin {"scoped", "mirror"} => mirror = proc[p].new
      BY <2>0, <2>1 DEF RotationInv, RotationTypes, RotationHolds, Rotation
    <3> QED
      BY <2>0, <2>a, <2>1, <3>1, <3>m, MovedHolds
  <2>2. CASE UNCHANGED scoped /\ Drifting!Goto(p, "undo") /\ Drifting!Faulty
    <3>1. Moves(p, "undo")
      BY <1>g, <2>2 DEF Stages
    <3>m. /\ scoped' \in Pairs /\ mirror' \in Pairs /\ container' \in Pairs
          /\ proc[p].pc # "scoped" => scoped = proc[p].new
          /\ proc[p].pc \notin {"scoped", "mirror"} => mirror = proc[p].new
      BY <2>0, <2>2 DEF RotationInv, RotationTypes, RotationHolds, Rotation
    <3> QED
      BY <2>0, <2>a, <2>2, <3>1, <3>m, MovedHolds
  <2> QED
    BY <2>1, <2>2 DEF Drifting!WriteScoped
<1>5. CASE \E p \in Requests : Drifting!syncPostgresCredentialsMirror(p)
  <2> PICK p \in Requests : Drifting!syncPostgresCredentialsMirror(p)
    BY <1>5
  <2>0. proc[p].pc = "mirror" /\ UNCHANGED <<role, scoped, meta, container, up, lock>>
    BY DEF Drifting!syncPostgresCredentialsMirror, Drifting!files, Drifting!counts
  <2>a. lock = p /\ lock # None /\ \A q \in Requests \ {p} : proc[q].pc = "idle"
    BY Alone, <2>0 DEF RotationInv
  <2>1. CASE mirror' = proc[p].new /\ Drifting!Goto(p, "restart") /\ UNCHANGED faults
    <3>1. Moves(p, "restart")
      BY <1>g, <2>1 DEF Stages
    <3>m. /\ scoped' \in Pairs /\ mirror' \in Pairs /\ container' \in Pairs
          /\ proc[p].pc # "scoped" => scoped = proc[p].new
          /\ proc[p].pc \notin {"scoped", "mirror"} => mirror = proc[p].new
      BY <2>0, <2>1 DEF RotationInv, RotationTypes, RotationHolds, Rotation
    <3> QED
      BY <2>0, <2>a, <2>1, <3>1, <3>m, MovedHolds
  <2>2. CASE UNCHANGED mirror /\ Drifting!Goto(p, "undo") /\ Drifting!Faulty
    <3>1. Moves(p, "undo")
      BY <1>g, <2>2 DEF Stages
    <3>m. /\ scoped' \in Pairs /\ mirror' \in Pairs /\ container' \in Pairs
          /\ proc[p].pc # "scoped" => scoped = proc[p].new
          /\ proc[p].pc \notin {"scoped", "mirror"} => mirror = proc[p].new
      BY <2>0, <2>2 DEF RotationInv, RotationTypes, RotationHolds, Rotation
    <3> QED
      BY <2>0, <2>a, <2>2, <3>1, <3>m, MovedHolds
  <2> QED
    BY <2>1, <2>2 DEF Drifting!syncPostgresCredentialsMirror
<1>6. CASE \E p \in Requests : Drifting!rollbackPostgresRole(p)
  <2> PICK p \in Requests : Drifting!rollbackPostgresRole(p)
    BY <1>6
  <2>0. /\ proc[p].pc = "undo" /\ scoped' = proc[p].old /\ mirror' = proc[p].oldMirror
        /\ UNCHANGED <<meta, container, up>>
    BY DEF Drifting!rollbackPostgresRole, Drifting!files, Drifting!counts
  <2>a. lock = p /\ lock # None /\ \A q \in Requests \ {p} : proc[q].pc = "idle"
    BY Alone, <2>0 DEF RotationInv
  <2>1. Rests(p)
    BY <1>e DEF Drifting!rollbackPostgresRole
  <2>2. role' \in Pairs /\ role'.user = role.user
    BY DEF Drifting!rollbackPostgresRole, RotationInv, RotationTypes, RotationHolds, Pairs, Stages,
           Rotation
  <2> QED
    BY <2>0, <2>a, <2>1, <2>2
       DEF RotationInv, RotationTypes, RotationHolds, Pairs, Stages, Rotation, Rests
<1>7. CASE \E p \in Requests : Drifting!startManagedService(p)
  <2> PICK p \in Requests : Drifting!startManagedService(p)
    BY <1>7
  <2>0. proc[p].pc = "restart" /\ UNCHANGED <<role, scoped, mirror, meta, up>>
    BY DEF Drifting!startManagedService, Drifting!files, Drifting!counts
  <2>a. lock = p /\ lock # None /\ \A q \in Requests \ {p} : proc[q].pc = "idle"
    BY Alone, <2>0 DEF RotationInv
  <2>1. CASE container' = scoped /\ Drifting!Goto(p, "verify") /\ UNCHANGED <<lock, faults>>
    <3>1. Moves(p, "verify")
      BY <1>g, <2>1 DEF Stages
    <3>m. /\ scoped' \in Pairs /\ mirror' \in Pairs /\ container' \in Pairs
          /\ proc[p].pc # "scoped" => scoped = proc[p].new
          /\ proc[p].pc \notin {"scoped", "mirror"} => mirror = proc[p].new
      BY <2>0, <2>1 DEF RotationInv, RotationTypes, RotationHolds, Rotation
    <3> QED
      BY <2>0, <2>a, <2>1, <3>1, <3>m, MovedHolds
  <2>2. CASE UNCHANGED container /\ Drifting!Ends(p) /\ faults' \in {faults, faults + 1}
    <3>1. Rests(p)
      BY <1>e, <2>2
    <3> QED
      BY <2>0, <2>a, <2>2, <3>1 DEF RotationInv, RotationTypes, RotationHolds, Rests
  <2> QED
    BY <2>1, <2>2 DEF Drifting!startManagedService, Drifting!Faulty
<1>8. CASE \E p \in Requests : Drifting!Verify(p)
  <2> PICK p \in Requests : Drifting!Verify(p)
    BY <1>8
  <2>0. proc[p].pc = "verify" /\ faults' \in {faults, faults + 1}
    BY DEF Drifting!Verify, Drifting!Faulty
  <2>a. lock = p /\ lock # None /\ \A q \in Requests \ {p} : proc[q].pc = "idle"
    BY Alone, <2>0 DEF RotationInv
  <2>1. Rests(p) /\ UNCHANGED <<role, scoped, mirror, meta, container, up>>
    BY <1>e DEF Drifting!Verify, Drifting!files, Drifting!counts
  <2> QED
    BY <2>0, <2>a, <2>1 DEF RotationInv, RotationTypes, RotationHolds, Rests
<1>9. CASE \E p \in Requests : Drifting!StartService(p)
  BY <1>a, <1>n, <1>9
  DEF RotationInv, RotationTypes, RotationHolds, Pairs, Stages, Rotation,
      Drifting!StartService, Drifting!Operation, Drifting!checkPostgresCredentialsDrift,
      Drifting!files, Drifting!counts
<1>10. CASE \E p \in Requests : Drifting!StopService(p)
  BY <1>a, <1>n, <1>10
  DEF RotationInv, RotationTypes, RotationHolds, Pairs, Stages, Rotation,
      Drifting!StopService, Drifting!Operation,
      Drifting!files, Drifting!counts
<1>11. CASE \E p \in Requests : Drifting!Cancel(p)
  <2> PICK p \in Requests : Drifting!Cancel(p)
    BY <1>11
  <2>1. \A q \in Requests : /\ proc'[q] \in Rotation
                            /\ proc'[q].pc = proc[q].pc /\ proc'[q].new = proc[q].new
    BY DEF Drifting!Cancel, RotationInv, RotationTypes, Pairs, Stages, Rotation
  <2>2. proc' \in [Requests -> Rotation]
    BY <2>1 DEF Drifting!Cancel, RotationInv, RotationTypes
  <2> QED
    BY <2>1, <2>2 DEF RotationInv, RotationTypes, RotationHolds, Drifting!Cancel, Drifting!files,
                      Drifting!counts
<1>12. CASE \E u \in Users : Drifting!Edit(u)
  BY <1>a, <1>n, <1>12
  DEF RotationInv, RotationTypes, RotationHolds, Pairs, Stages, Rotation, Drifting!Edit,
      Drifting!files, Drifting!counts
<1>13. CASE Drifting!Crash
  BY <1>a, <1>13 DEF RotationInv, RotationTypes, RotationHolds, Resting, Drifting!Crash,
                     Drifting!files, Drifting!counts
<1> QED
  BY <1>1, <1>2, <1>3, <1>4, <1>5, <1>6, <1>7, <1>8, <1>9, <1>10, <1>11, <1>12, <1>13
     DEF Drifting!Next, Drifting!Step

LEMMA CredentialsNextInv ==
  ASSUME Constants, First \in Pairs, RotationInv, CalmHolds, Credentials!Next
  PROVE  RotationInv' /\ CalmHolds'
<1>a. Credentials!Credentials = Pairs /\ Credentials!Idle = Resting /\ Resting \in Rotation
  BY DEF Credentials!Credentials, Credentials!Idle, Resting, Pairs, Stages, Rotation
<1>n. None \notin Requests
  BY DEF Constants
<1>g. ASSUME NEW p \in Requests, NEW stage \in Stages, Credentials!Goto(p, stage)
      PROVE Moves(p, stage)
  BY <1>g, Moved DEF RotationInv, RotationTypes, Credentials!Goto
<1>e. ASSUME NEW p \in Requests, Credentials!Ends(p) PROVE Rests(p)
  BY <1>a, <1>e, Rested DEF RotationInv, RotationTypes, Credentials!Ends
<1>1. CASE \E p \in Requests, u \in Users, w \in Passwords :
             Credentials!updatePostgresCredentials(p, u, w)
  <2> PICK p \in Requests, u \in Users, w \in Passwords :
        Credentials!updatePostgresCredentials(p, u, w)
    BY <1>1
  <2> DEFINE asked == [user |-> u, password |-> w]
  <2>0. asked \in Pairs /\ asked.user = u
    BY DEF Pairs
  <2>1. PICK stage \in {"rename", "alter"} :
          /\ stage = "alter" => asked.user = scoped.user
          /\ proc' = [proc EXCEPT ![p] = [pc |-> stage, new |-> asked, old |-> scoped,
                                          oldMirror |-> mirror, cancelled |-> FALSE]]
    BY <2>0 DEF Credentials!updatePostgresCredentials
  <2>2. lock = None /\ lock' = p /\ up
        /\ UNCHANGED <<role, scoped, mirror, meta, container, up, faults, edits, crashes>>
    BY DEF Credentials!updatePostgresCredentials, Credentials!files, Credentials!counts
  <2> HIDE DEF asked
  <2>r. RotationInv'
    BY <1>n, <2>0, <2>1, <2>2 DEF RotationInv, RotationTypes, RotationHolds, Pairs, Stages, Rotation
  <2>c. CalmHolds'
    BY <1>n, <2>0, <2>1, <2>2
       DEF RotationInv, RotationTypes, RotationHolds, CalmHolds, Pairs, Stages, Rotation
  <2> QED
    BY <2>r, <2>c
<1>2. CASE \E p \in Requests : Credentials!Rename(p)
  <2> PICK p \in Requests : Credentials!Rename(p)
    BY <1>2
  <2>0. proc[p].pc = "rename"
    BY DEF Credentials!Rename
  <2>a. lock = p /\ lock # None /\ \A q \in Requests \ {p} : proc[q].pc = "idle"
    BY Alone, <2>0 DEF RotationInv
  <2>1. Rests(p) /\ UNCHANGED <<role, scoped, mirror, meta, container, up, faults, edits, crashes>>
    BY <1>e DEF Credentials!Rename, Credentials!files, Credentials!counts
  <2>r. RotationInv'
    BY <2>0, <2>a, <2>1 DEF RotationInv, RotationTypes, RotationHolds, Rests
  <2>c. CalmHolds'
    BY <2>0, <2>a, <2>1 DEF RotationInv, RotationTypes, RotationHolds, CalmHolds, Rests
  <2> QED
    BY <2>r, <2>c
<1>3. CASE \E p \in Requests : Credentials!Alter(p)
  <2> PICK p \in Requests : Credentials!Alter(p)
    BY <1>3
  <2>0. proc[p].pc = "alter" /\ UNCHANGED <<scoped, mirror, meta, container, up, edits, crashes>>
    BY DEF Credentials!Alter, Credentials!files, Credentials!counts
  <2>a. lock = p /\ lock # None /\ \A q \in Requests \ {p} : proc[q].pc = "idle"
    BY Alone, <2>0 DEF RotationInv
  <2>1. CASE /\ Credentials!Can(p, proc[p].new.user)
             /\ role' = [role EXCEPT !.password = proc[p].new.password]
             /\ Credentials!Goto(p, "scoped") /\ UNCHANGED <<lock, faults>>
    <3>1. Moves(p, "scoped")
      BY <1>g, <2>1 DEF Stages
    <3>2. role.user = proc[p].new.user
      BY <2>1 DEF Credentials!Can
    <3>3. proc[p].new \in Pairs /\ role \in Pairs
      BY DEF RotationInv, RotationTypes, Rotation
    <3>4. role' = proc[p].new
      BY <2>1, <3>2, <3>3 DEF Pairs
    <3>r. RotationInv'
      BY <2>0, <2>a, <2>1, <3>1, <3>2, <3>3, <3>4
         DEF RotationInv, RotationTypes, RotationHolds, Moves
    <3>c. CalmHolds'
      BY <2>0, <2>a, <2>1, <3>1, <3>2, <3>3, <3>4
         DEF RotationInv, RotationTypes, RotationHolds, CalmHolds, Moves
    <3> QED
      BY <3>r, <3>c
  <2>2. CASE Credentials!Ends(p) /\ faults' \in {faults, faults + 1} /\ (role' = role)
    <3>1. Rests(p)
      BY <1>e, <2>2
    <3>2. role' \in Pairs /\ role'.user = role.user
      BY <2>2 DEF RotationInv, RotationTypes, RotationHolds, CalmHolds, Pairs, Stages, Rotation
    <3>r. RotationInv'
      BY <2>0, <2>a, <2>2, <3>1, <3>2 DEF RotationInv, RotationTypes, RotationHolds, Rests
    <3>c. CalmHolds'
      BY <2>0, <2>a, <2>2, <3>1, <3>2
         DEF RotationInv, RotationTypes, RotationHolds, CalmHolds, Rests
    <3> QED
      BY <3>r, <3>c
  <2> QED
    BY <2>1, <2>2 DEF Credentials!Alter, Credentials!Faulty
<1>4. CASE \E p \in Requests : Credentials!WriteScoped(p)
  <2> PICK p \in Requests : Credentials!WriteScoped(p)
    BY <1>4
  <2>0. proc[p].pc = "scoped"
        /\ UNCHANGED <<role, mirror, meta, container, up, lock, edits, crashes>>
    BY DEF Credentials!WriteScoped, Credentials!files, Credentials!counts
  <2>a. lock = p /\ lock # None /\ \A q \in Requests \ {p} : proc[q].pc = "idle"
    BY Alone, <2>0 DEF RotationInv
  <2>1. CASE scoped' = proc[p].new /\ Credentials!Goto(p, "mirror") /\ UNCHANGED faults
    <3>1. Moves(p, "mirror")
      BY <1>g, <2>1 DEF Stages
    <3>m. /\ scoped' \in Pairs /\ mirror' \in Pairs /\ container' \in Pairs
          /\ proc[p].pc # "scoped" => scoped = proc[p].new
          /\ proc[p].pc \notin {"scoped", "mirror"} => mirror = proc[p].new
      BY <2>0, <2>1 DEF RotationInv, RotationTypes, RotationHolds, Rotation
    <3>r. RotationInv'
      BY <2>0, <2>a, <2>1, <3>1, <3>m, MovedHolds
    <3>n. /\ scoped'.user = meta /\ mirror'.user = meta /\ container'.user = meta
          /\ faults' \in Nat
      BY <2>0, <2>1 DEF CalmHolds
    <3>c. CalmHolds'
      BY <2>0, <2>a, <2>1, <3>1, <3>n, MovedCalm
    <3> QED
      BY <3>r, <3>c
  <2>2. CASE UNCHANGED scoped /\ Credentials!Goto(p, "undo") /\ Credentials!Faulty
    <3>1. Moves(p, "undo")
      BY <1>g, <2>2 DEF Stages
    <3>m. /\ scoped' \in Pairs /\ mirror' \in Pairs /\ container' \in Pairs
          /\ proc[p].pc # "scoped" => scoped = proc[p].new
          /\ proc[p].pc \notin {"scoped", "mirror"} => mirror = proc[p].new
      BY <2>0, <2>2 DEF RotationInv, RotationTypes, RotationHolds, Rotation
    <3>r. RotationInv'
      BY <2>0, <2>a, <2>2, <3>1, <3>m, MovedHolds
    <3>n. /\ scoped'.user = meta /\ mirror'.user = meta /\ container'.user = meta
          /\ faults' \in Nat /\ faults' >= 1
      BY <2>0, <2>2 DEF CalmHolds, Credentials!Faulty
    <3>c. CalmHolds'
      BY <2>0, <2>a, <2>2, <3>1, <3>n, MovedCalm
    <3> QED
      BY <3>r, <3>c
  <2> QED
    BY <2>1, <2>2 DEF Credentials!WriteScoped
<1>5. CASE \E p \in Requests : Credentials!syncPostgresCredentialsMirror(p)
  <2> PICK p \in Requests : Credentials!syncPostgresCredentialsMirror(p)
    BY <1>5
  <2>0. proc[p].pc = "mirror"
        /\ UNCHANGED <<role, scoped, meta, container, up, lock, edits, crashes>>
    BY DEF Credentials!syncPostgresCredentialsMirror, Credentials!files, Credentials!counts
  <2>a. lock = p /\ lock # None /\ \A q \in Requests \ {p} : proc[q].pc = "idle"
    BY Alone, <2>0 DEF RotationInv
  <2>1. CASE mirror' = proc[p].new /\ Credentials!Goto(p, "restart") /\ UNCHANGED faults
    <3>1. Moves(p, "restart")
      BY <1>g, <2>1 DEF Stages
    <3>m. /\ scoped' \in Pairs /\ mirror' \in Pairs /\ container' \in Pairs
          /\ proc[p].pc # "scoped" => scoped = proc[p].new
          /\ proc[p].pc \notin {"scoped", "mirror"} => mirror = proc[p].new
      BY <2>0, <2>1 DEF RotationInv, RotationTypes, RotationHolds, Rotation
    <3>r. RotationInv'
      BY <2>0, <2>a, <2>1, <3>1, <3>m, MovedHolds
    <3>n. /\ scoped'.user = meta /\ mirror'.user = meta /\ container'.user = meta
          /\ faults' \in Nat
      BY <2>0, <2>1 DEF CalmHolds
    <3>c. CalmHolds'
      BY <2>0, <2>a, <2>1, <3>1, <3>n, MovedCalm
    <3> QED
      BY <3>r, <3>c
  <2>2. CASE UNCHANGED mirror /\ Credentials!Goto(p, "undo") /\ Credentials!Faulty
    <3>1. Moves(p, "undo")
      BY <1>g, <2>2 DEF Stages
    <3>m. /\ scoped' \in Pairs /\ mirror' \in Pairs /\ container' \in Pairs
          /\ proc[p].pc # "scoped" => scoped = proc[p].new
          /\ proc[p].pc \notin {"scoped", "mirror"} => mirror = proc[p].new
      BY <2>0, <2>2 DEF RotationInv, RotationTypes, RotationHolds, Rotation
    <3>r. RotationInv'
      BY <2>0, <2>a, <2>2, <3>1, <3>m, MovedHolds
    <3>n. /\ scoped'.user = meta /\ mirror'.user = meta /\ container'.user = meta
          /\ faults' \in Nat /\ faults' >= 1
      BY <2>0, <2>2 DEF CalmHolds, Credentials!Faulty
    <3>c. CalmHolds'
      BY <2>0, <2>a, <2>2, <3>1, <3>n, MovedCalm
    <3> QED
      BY <3>r, <3>c
  <2> QED
    BY <2>1, <2>2 DEF Credentials!syncPostgresCredentialsMirror
<1>6. CASE \E p \in Requests : Credentials!rollbackPostgresRole(p)
  <2> PICK p \in Requests : Credentials!rollbackPostgresRole(p)
    BY <1>6
  <2>0. /\ proc[p].pc = "undo" /\ scoped' = proc[p].old /\ mirror' = proc[p].oldMirror
        /\ UNCHANGED <<meta, container, up, edits, crashes>>
    BY DEF Credentials!rollbackPostgresRole, Credentials!files, Credentials!counts
  <2>a. lock = p /\ lock # None /\ \A q \in Requests \ {p} : proc[q].pc = "idle"
    BY Alone, <2>0 DEF RotationInv
  <2>1. Rests(p)
    BY <1>e DEF Credentials!rollbackPostgresRole
  <2>2. role' \in Pairs /\ role'.user = role.user
    BY DEF Credentials!rollbackPostgresRole, RotationInv, RotationTypes, RotationHolds, CalmHolds,
           Pairs, Stages, Rotation
  <2>3. role'.password = proc[p].old.password /\ faults' = faults
    <3>1. up /\ proc[p].cancelled = FALSE
      BY <2>0 DEF CalmHolds
    <3>2. container.user = role.user /\ proc[p].new.user = role.user
      BY <2>0 DEF RotationInv, RotationTypes, RotationHolds, CalmHolds
    <3>3. Credentials!Can(p, proc[p].new.user)
      BY <3>1, <3>2 DEF Credentials!Can, Credentials!Connects
    <3>4. ~Credentials!Faulty
      BY <2>0 DEF CalmHolds, Credentials!Faulty
    <3>5. role' = [role EXCEPT !.password = proc[p].old.password] /\ faults' = faults
      BY <3>3, <3>4 DEF Credentials!rollbackPostgresRole
    <3> QED
      BY <3>5 DEF RotationInv, RotationTypes, Pairs
  <2>4. proc[p].old \in Pairs /\ proc[p].oldMirror \in Pairs
    BY DEF RotationInv, RotationTypes, Rotation
  <2>r. RotationInv'
    BY <2>0, <2>a, <2>1, <2>2, <2>4 DEF RotationInv, RotationTypes, RotationHolds, Rests
  <2>c. CalmHolds'
    BY <2>0, <2>a, <2>1, <2>2, <2>3 DEF RotationInv, RotationHolds, CalmHolds, Rests
  <2> QED
    BY <2>r, <2>c
<1>7. CASE \E p \in Requests : Credentials!startManagedService(p)
  <2> PICK p \in Requests : Credentials!startManagedService(p)
    BY <1>7
  <2>0. proc[p].pc = "restart" /\ UNCHANGED <<role, scoped, mirror, meta, up, edits, crashes>>
    BY DEF Credentials!startManagedService, Credentials!files, Credentials!counts
  <2>a. lock = p /\ lock # None /\ \A q \in Requests \ {p} : proc[q].pc = "idle"
    BY Alone, <2>0 DEF RotationInv
  <2>1. CASE container' = scoped /\ Credentials!Goto(p, "verify") /\ UNCHANGED <<lock, faults>>
    <3>1. Moves(p, "verify")
      BY <1>g, <2>1 DEF Stages
    <3>m. /\ scoped' \in Pairs /\ mirror' \in Pairs /\ container' \in Pairs
          /\ proc[p].pc # "scoped" => scoped = proc[p].new
          /\ proc[p].pc \notin {"scoped", "mirror"} => mirror = proc[p].new
      BY <2>0, <2>1 DEF RotationInv, RotationTypes, RotationHolds, Rotation
    <3>r. RotationInv'
      BY <2>0, <2>a, <2>1, <3>1, <3>m, MovedHolds
    <3>n. /\ scoped'.user = meta /\ mirror'.user = meta /\ container'.user = meta
          /\ faults' \in Nat
      BY <2>0, <2>1 DEF CalmHolds
    <3>c. CalmHolds'
      BY <2>0, <2>a, <2>1, <3>1, <3>n, MovedCalm
    <3> QED
      BY <3>r, <3>c
  <2>2. CASE UNCHANGED container /\ Credentials!Ends(p) /\ faults' \in {faults, faults + 1}
    <3>1. Rests(p)
      BY <1>e, <2>2
    <3>r. RotationInv'
      BY <2>0, <2>a, <2>2, <3>1 DEF RotationInv, RotationTypes, RotationHolds, Rests
    <3>c. CalmHolds'
      BY <2>0, <2>a, <2>2, <3>1 DEF RotationInv, RotationTypes, RotationHolds, CalmHolds, Rests
    <3> QED
      BY <3>r, <3>c
  <2> QED
    BY <2>1, <2>2 DEF Credentials!startManagedService, Credentials!Faulty
<1>8. CASE \E p \in Requests : Credentials!Verify(p)
  <2> PICK p \in Requests : Credentials!Verify(p)
    BY <1>8
  <2>0. proc[p].pc = "verify" /\ faults' \in {faults, faults + 1}
    BY DEF Credentials!Verify, Credentials!Faulty
  <2>a. lock = p /\ lock # None /\ \A q \in Requests \ {p} : proc[q].pc = "idle"
    BY Alone, <2>0 DEF RotationInv
  <2>1. Rests(p) /\ UNCHANGED <<role, scoped, mirror, meta, container, up, edits, crashes>>
    BY <1>e DEF Credentials!Verify, Credentials!files, Credentials!counts
  <2>r. RotationInv'
    BY <2>0, <2>a, <2>1 DEF RotationInv, RotationTypes, RotationHolds, Rests
  <2>c. CalmHolds'
    BY <2>0, <2>a, <2>1 DEF RotationInv, RotationTypes, RotationHolds, CalmHolds, Rests
  <2> QED
    BY <2>r, <2>c
<1>9. CASE \E p \in Requests : Credentials!StartService(p)
  BY <1>a, <1>n, <1>9
  DEF RotationInv, RotationTypes, RotationHolds, CalmHolds, Pairs, Stages, Rotation,
      Credentials!StartService, Credentials!Operation, Credentials!checkPostgresCredentialsDrift,
      Credentials!files, Credentials!counts
<1>10. CASE \E p \in Requests : Credentials!StopService(p)
  <2>1. \A p \in Requests : proc[p].pc = "idle"
    BY <1>n, <1>10 DEF Credentials!StopService, Credentials!Operation, RotationInv, RotationHolds
  <2>2. UNCHANGED <<role, scoped, mirror, meta, container, lock, proc, faults, edits, crashes>>
    BY <1>10 DEF Credentials!StopService, Credentials!Operation, Credentials!files
  <2> QED
    BY <2>1, <2>2 DEF RotationInv, RotationTypes, RotationHolds, CalmHolds
<1>11. CASE \E p \in Requests : Credentials!Cancel(p)
  BY <1>11 DEF Credentials!Cancel
<1>12. CASE \E u \in Users : Credentials!Edit(u)
  BY <1>12 DEF CalmHolds, Credentials!Edit
<1>13. CASE Credentials!Crash
  BY <1>13 DEF CalmHolds, Credentials!Crash
<1> QED
  BY <1>1, <1>2, <1>3, <1>4, <1>5, <1>6, <1>7, <1>8, <1>9, <1>10, <1>11, <1>12, <1>13
  DEF Credentials!Next, Credentials!Step

LEMMA DriftingCounts ==
  ASSUME crashes \in Nat, Drifting!Next
  PROVE  crashes' \in Nat
BY DEF Drifting!Next, Drifting!Step, Drifting!updatePostgresCredentials, Drifting!Rename,
      Drifting!Alter, Drifting!WriteScoped, Drifting!syncPostgresCredentialsMirror,
      Drifting!rollbackPostgresRole, Drifting!startManagedService, Drifting!Verify,
      Drifting!StartService, Drifting!StopService, Drifting!Operation, Drifting!Cancel,
      Drifting!Edit, Drifting!Crash, Drifting!counts

LEMMA DriftingVerified ==
  ASSUME Constants, RotationInv, crashes \in Nat, Drifting!Next,
         NEW p \in Requests, proc[p].pc = "verify", lock' = None, crashes' = crashes
  PROVE  UNCHANGED <<role, scoped, mirror, container>>
<1>1. lock = p /\ lock # None /\ \A q \in Requests \ {p} : proc[q].pc = "idle"
  BY Alone DEF RotationInv
<1>2. CASE \E q \in Requests : Drifting!Step(q)
  <2> PICK q \in Requests : Drifting!Step(q)
    BY <1>2
  <2>1. proc[q].pc # "idle"
    BY DEF Drifting!Step, Drifting!Rename, Drifting!Alter, Drifting!WriteScoped,
           Drifting!syncPostgresCredentialsMirror, Drifting!rollbackPostgresRole,
           Drifting!startManagedService, Drifting!Verify
  <2>2. q = p
    BY <1>1, <2>1
  <2>3. Drifting!Verify(p)
    BY <2>2 DEF Drifting!Step, Drifting!Rename, Drifting!Alter, Drifting!WriteScoped,
                Drifting!syncPostgresCredentialsMirror, Drifting!rollbackPostgresRole,
                Drifting!startManagedService
  <2> QED
    BY <2>3 DEF Drifting!Verify, Drifting!files
<1>3. CASE Drifting!Crash
  BY <1>3 DEF Drifting!Crash
<1> QED
  BY <1>1, <1>2, <1>3
  DEF Drifting!Next, Drifting!updatePostgresCredentials, Drifting!StartService,
      Drifting!StopService, Drifting!Operation, Drifting!Edit, Drifting!Cancel

LEMMA DriftingDrift ==
  ASSUME RotationInv, Drifting!Next, container' # container
  PROVE  container'.user = role.user
<1>1. CASE \E p \in Requests : Drifting!startManagedService(p)
  BY <1>1 DEF Drifting!startManagedService, RotationInv, RotationHolds
<1>2. CASE \E p \in Requests : Drifting!StartService(p)
  BY <1>2 DEF Drifting!StartService, Drifting!checkPostgresCredentialsDrift, RotationInv,
              RotationHolds
<1> QED
  BY <1>1, <1>2
  DEF Drifting!Next, Drifting!Step, Drifting!updatePostgresCredentials, Drifting!Rename,
      Drifting!Alter, Drifting!WriteScoped, Drifting!syncPostgresCredentialsMirror,
      Drifting!rollbackPostgresRole, Drifting!Verify, Drifting!StopService,
      Drifting!Operation, Drifting!Cancel, Drifting!Edit, Drifting!Crash, Drifting!files,
      Drifting!counts

LEMMA CredentialsCounts ==
  ASSUME crashes \in Nat, Credentials!Next
  PROVE  crashes' \in Nat
BY DEF Credentials!Next, Credentials!Step, Credentials!updatePostgresCredentials,
      Credentials!Rename, Credentials!Alter, Credentials!WriteScoped,
      Credentials!syncPostgresCredentialsMirror, Credentials!rollbackPostgresRole,
      Credentials!startManagedService, Credentials!Verify, Credentials!StartService,
      Credentials!StopService, Credentials!Operation, Credentials!Cancel, Credentials!Edit,
      Credentials!Crash, Credentials!counts

LEMMA CredentialsVerified ==
  ASSUME Constants, RotationInv, crashes \in Nat, Credentials!Next,
         NEW p \in Requests, proc[p].pc = "verify", lock' = None, crashes' = crashes
  PROVE  UNCHANGED <<role, scoped, mirror, container>>
<1>1. lock = p /\ lock # None /\ \A q \in Requests \ {p} : proc[q].pc = "idle"
  BY Alone DEF RotationInv
<1>2. CASE \E q \in Requests : Credentials!Step(q)
  <2> PICK q \in Requests : Credentials!Step(q)
    BY <1>2
  <2>1. proc[q].pc # "idle"
    BY DEF Credentials!Step, Credentials!Rename, Credentials!Alter, Credentials!WriteScoped,
           Credentials!syncPostgresCredentialsMirror, Credentials!rollbackPostgresRole,
           Credentials!startManagedService, Credentials!Verify
  <2>2. q = p
    BY <1>1, <2>1
  <2>3. Credentials!Verify(p)
    BY <2>2 DEF Credentials!Step, Credentials!Rename, Credentials!Alter, Credentials!WriteScoped,
                Credentials!syncPostgresCredentialsMirror, Credentials!rollbackPostgresRole,
                Credentials!startManagedService
  <2> QED
    BY <2>3 DEF Credentials!Verify, Credentials!files
<1>3. CASE Credentials!Crash
  BY <1>3 DEF Credentials!Crash
<1> QED
  BY <1>1, <1>2, <1>3
  DEF Credentials!Next, Credentials!updatePostgresCredentials, Credentials!StartService,
      Credentials!StopService, Credentials!Operation, Credentials!Edit, Credentials!Cancel

LEMMA CredentialsDrift ==
  ASSUME RotationInv, Credentials!Next, container' # container
  PROVE  container'.user = role.user
<1>1. CASE \E p \in Requests : Credentials!startManagedService(p)
  BY <1>1 DEF Credentials!startManagedService, RotationInv, RotationHolds
<1>2. CASE \E p \in Requests : Credentials!StartService(p)
  BY <1>2 DEF Credentials!StartService, Credentials!checkPostgresCredentialsDrift, RotationInv,
              RotationHolds
<1> QED
  BY <1>1, <1>2
  DEF Credentials!Next, Credentials!Step, Credentials!updatePostgresCredentials,
      Credentials!Rename, Credentials!Alter, Credentials!WriteScoped,
      Credentials!syncPostgresCredentialsMirror, Credentials!rollbackPostgresRole,
      Credentials!Verify, Credentials!StopService, Credentials!Operation, Credentials!Cancel,
      Credentials!Edit, Credentials!Crash, Credentials!files, Credentials!counts

CredentialsInv ==
  /\ First \in Pairs /\ crashes \in Nat
  /\ RotationInv /\ (which = "credentials" => CalmHolds)

LEMMA CredentialsInit == ASSUME Constants, Init PROVE CredentialsInv
<1>1. First \in Pairs
  BY DEF Init, Credentials!Init, Credentials!Credentials, Pairs
<1>2. Resting \in Rotation
  BY <1>1 DEF Resting, Rotation, Stages
<1>3. /\ role = First /\ scoped = First /\ mirror = First /\ container = First
      /\ meta = First.user /\ proc = [p \in Requests |-> Resting]
      /\ crashes = 0 /\ faults = 0 /\ edits = 0
  BY DEF Init, Credentials!Init, Credentials!Idle, Resting
<1> QED
  BY <1>1, <1>2, <1>3
  DEF CredentialsInv, RotationInv, RotationTypes, RotationHolds, CalmHolds, Resting

LEMMA CredentialsStep == ASSUME Constants, CredentialsInv, [Next]_vars PROVE CredentialsInv'
<1>1. CASE which = "credentials" /\ Credentials!Next /\ UNCHANGED which
  BY <1>1, CredentialsNextInv, CredentialsCounts DEF CredentialsInv
<1>2. CASE which = "drifting" /\ Drifting!Next /\ UNCHANGED which
  BY <1>2, DriftingNextInv, DriftingCounts DEF CredentialsInv
<1>3. CASE UNCHANGED <<which, credential>>
  BY <1>3 DEF credential, CredentialsInv, RotationInv, RotationTypes, RotationHolds, CalmHolds
<1> QED
  BY <1>1, <1>2, <1>3 DEF Next, vars

(* The role, the service's files and the application's keep one password   *)
(* between operations, whichever single step of a rotation fails.          *)
THEOREM OnePassword == Spec => []PasswordsAgree
<1>1. CredentialsInv => PasswordsAgree
  BY DEF CredentialsInv, CalmHolds, PasswordsAgree, Credentials!PasswordsAgree
<1> QED
  BY <1>1, CredentialsInit, CredentialsStep, Constants, PTL DEF Spec

(* A rotation that reports success changed the role, both sets of files    *)
(* and the container, and no container starts for a user the database does *)
(* not have, with hand edits, cancelled statements, failures and crashes.  *)
THEOREM RotationsComplete == Spec => RotationsAgree
<1> DEFINE Succeeds ==
      \A p \in Requests :
        proc[p].pc = "verify" /\ lock' = None /\ refused' = refused /\ faults' = faults
        /\ crashes' = crashes /\ ~proc[p].cancelled =>
          /\ role' = proc[p].new /\ scoped' = proc[p].new /\ container' = proc[p].new
          /\ TRUE => mirror' = proc[p].new
    Starts == container' # container => container'.user = role.user
<1>1. ASSUME CredentialsInv, [Next]_vars
      PROVE [Succeeds]_(Drifting!vars) /\ [Starts]_(Drifting!vars)
  <2>1. CASE Drifting!Next
    BY <1>1, <2>1, DriftingVerified, DriftingDrift, Constants
    DEF CredentialsInv, RotationInv, RotationHolds
  <2>2. CASE Credentials!Next
    BY <1>1, <2>2, CredentialsVerified, CredentialsDrift, Constants
    DEF CredentialsInv, RotationInv, RotationHolds
  <2>3. CASE UNCHANGED credential
    BY <2>3 DEF credential, Drifting!vars, Drifting!files, Drifting!counts
  <2> QED
    BY <1>1, <2>1, <2>2, <2>3 DEF Next, vars
<1>2. Spec => []CredentialsInv
  BY CredentialsInit, CredentialsStep, Constants, PTL DEF Spec
<1> QED
  BY <1>1, <1>2, PTL DEF Spec, RotationsAgree, SuccessAgrees, NoDriftedStart,
     Drifting!SuccessAgrees, Drifting!NoDriftedStart
---------------------------------------------------------------------------
(* Leases of the cluster's databases.  A request that holds a lease holds  *)
(* a row of leased, and no row is held twice.                              *)

LeaseStages == {"none", "lock", "check", "lease", "leased", "run", "cluster", "rows", "up",
                "database", "record", "drop", "unrecord", "grant", "revoke"}
Task == [op : Leases!Ops, at : LeaseStages, u : Names \cup {None}, d : Names \cup {None},
         g : SUBSET Names, seen : SUBSET Names, id : Int, mine : BOOLEAN]

LeaseTypes == pc \in [Requests -> Task] /\ rows \in [Names -> Nat] /\ lastID \in Nat
DropNames == \A c \in Requests : pc[c].op = "drop" => pc[c].d \in Names
LeaseHeld == \A c \in Requests : pc[c].id > 0 => pc[c].id \in leased
LeasesInv == LeaseTypes /\ DropNames /\ LeaseHeld /\ Leases!LeaseExcludes

(* What a step does to the request and to the leases: it goes on, it       *)
(* returns, or it takes a lease nobody had.                                *)
Same(e) == pc'[e].op = pc[e].op /\ pc'[e].d = pc[e].d
GoesOn == pc' \in [Requests -> Task] /\ leased' = leased
          /\ \A e \in Requests : pc'[e].id = pc[e].id /\ Same(e)
Begins(c) ==
  /\ pc' \in [Requests -> Task] /\ leased' = leased /\ pc'[c].id <= 0
  /\ pc'[c].op = "drop" => pc'[c].d \in Names
  /\ \A e \in Requests \ {c} : pc'[e] = pc[e]
Takes(c, id) ==
  /\ id \in Nat /\ id \notin leased /\ leased' = leased \cup {id}
  /\ pc' \in [Requests -> Task] /\ pc'[c].id = id /\ Same(c)
  /\ \A e \in Requests \ {c} : pc'[e] = pc[e]
Counted == rows' \in [Names -> Nat] /\ lastID' \in Nat

LEMMA LeaseIdle == Leases!Idle \in Task /\ Leases!Idle.id = 0 /\ Leases!Idle.op = "idle"
BY DEF Leases!Idle, Task, LeaseStages, Leases!Ops

LEMMA LeaseGoto ==
  ASSUME LeaseTypes, NEW c \in Requests, NEW at \in LeaseStages, Leases!Goto(c, at),
         leased' = leased
  PROVE  GoesOn
<1>1. \A e \in Requests : pc'[e] \in Task /\ pc'[e].id = pc[e].id /\ Same(e)
  BY DEF LeaseTypes, Same, Task, LeaseStages, Leases!Goto
<1> QED
  BY <1>1 DEF GoesOn, LeaseTypes, Leases!Goto

LEMMA LeaseReturned ==
  ASSUME LeasesInv, NEW c \in Requests, Leases!Return(c), Counted
  PROVE  LeasesInv'
BY LeaseIdle DEF LeasesInv, LeaseTypes, DropNames, LeaseHeld, Leases!LeaseExcludes, Leases!Return,
                 Counted, Task

LEMMA LeaseWentOn == ASSUME LeasesInv, GoesOn, Counted PROVE LeasesInv'
BY DEF LeasesInv, LeaseTypes, DropNames, LeaseHeld, Leases!LeaseExcludes, Same, GoesOn, Counted

LEMMA LeaseBegun ==
  ASSUME LeasesInv, NEW c \in Requests, Begins(c), Counted
  PROVE  LeasesInv'
BY DEF LeasesInv, LeaseTypes, DropNames, LeaseHeld, Leases!LeaseExcludes, Begins, Counted, Task

LEMMA LeaseTaken ==
  ASSUME LeasesInv, NEW c \in Requests, NEW id, Takes(c, id), Counted
  PROVE  LeasesInv'
BY DEF LeasesInv, LeaseTypes, DropNames, LeaseHeld, Leases!LeaseExcludes, Same, Takes, Counted, Task

LEMMA LeaseStarts ==
  ASSUME LeasesInv, NEW c \in Requests, Leases!BeginAny(c)
  PROVE  LeasesInv'
<1>1. ASSUME NEW req \in Task, req.id <= 0, req.op = "drop" => req.d \in Names,
                Leases!Begin(c, req)
        PROVE  LeasesInv'
  <2>1. Begins(c) /\ Counted
    BY <1>1 DEF LeasesInv, LeaseTypes, Begins, Counted, Leases!Begin, Leases!sqlite
  <2> QED
    BY <2>1, LeaseBegun
<1>2. \A name \in Leases!Ops, at \in {"lock", "run", "lease"} :
        /\ Leases!Request(name, at) \in Task
        /\ Leases!Request(name, at).op = name /\ Leases!Request(name, at).id = 0
  BY LeaseIdle DEF Leases!Request, Task, LeaseStages
<1>3. CASE \E u \in Defaults : Leases!Enable(c, u)
  <2> PICK u \in Defaults : Leases!Enable(c, u)
    BY <1>3
  <2>r. LET base == Leases!Request("enable", "lock")
        IN  base \in Task /\ base.op = "enable" /\ base.id = 0
    BY <1>2 DEF Leases!Ops
  <2> DEFINE req == [Leases!Request("enable", "lock") EXCEPT !.u = u]
  <2>1. req \in Task /\ req.id <= 0 /\ (req.op = "drop" => req.d \in Names)
    BY <2>r, Constants DEF Task, Constants, Leases!DefaultsAreNames
  <2> QED
    BY <1>1, <2>1 DEF Leases!Enable
<1>4. CASE Leases!Disable(c) \/ Leases!Start(c) \/ Leases!Stop(c)
  <2> DEFINE req(name, at) == Leases!Request(name, at)
  <2>1. \A name \in Leases!Ops, at \in {"lock", "run"} : req(name, at) \in Task
        /\ req(name, at).id <= 0 /\ req(name, at).op = name
    BY <1>2 DEF Task
  <2>2. PICK name \in Leases!Ops \ {"drop"}, at \in {"lock", "run"} : Leases!Begin(c, req(name, at))
    BY <1>4 DEF Leases!Ops, Leases!Disable, Leases!Start, Leases!Stop
  <2> QED
    BY <1>1, <2>1, <2>2
<1>5. CASE \E d, o \in Names : Leases!CreateDatabase(c, d, o)
  <2> PICK d \in Names, o \in Names : Leases!CreateDatabase(c, d, o)
    BY <1>5
  <2>r. LET base == Leases!Request("create", "lock")
        IN  base \in Task /\ base.op = "create" /\ base.id = 0
    BY <1>2 DEF Leases!Ops
  <2> DEFINE req == [Leases!Request("create", "lock") EXCEPT !.d = d, !.u = o]
  <2>1. req \in Task /\ req.id <= 0 /\ (req.op = "drop" => req.d \in Names)
    <3>1. req \in Task
      BY <2>r DEF Task
    <3>2. req.id <= 0
      BY <2>r DEF Task
    <3>3. req.op = "create"
      BY <2>r DEF Task
    <3> QED
      BY <3>1, <3>2, <3>3
  <2> QED
    BY <1>1, <2>1 DEF Leases!CreateDatabase
<1>6. CASE \E d \in Names : Leases!DropDatabase(c, d)
  <2> PICK d \in Names : Leases!DropDatabase(c, d)
    BY <1>6
  <2>r. LET base == Leases!Request("drop", "lock")
        IN  base \in Task /\ base.op = "drop" /\ base.id = 0
    BY <1>2 DEF Leases!Ops
  <2> DEFINE req == [Leases!Request("drop", "lock") EXCEPT !.d = d]
  <2>1. req \in Task /\ req.id <= 0 /\ (req.op = "drop" => req.d \in Names)
    BY <2>r DEF Task
  <2> QED
    BY <1>1, <2>1 DEF Leases!DropDatabase
<1>7. CASE \E u \in Names, g \in SUBSET Names :
             Leases!CreateUser(c, u, g) \/ Leases!SetUserPermissions(c, u, g)
  <2> PICK u \in Names, g \in SUBSET Names :
        Leases!CreateUser(c, u, g) \/ Leases!SetUserPermissions(c, u, g)
    BY <1>7
  <2>r. LET base == Leases!Request("adduser", "lock")
        IN  base \in Task /\ base.op = "adduser" /\ base.id = 0
    BY <1>2 DEF Leases!Ops
  <2>s. LET base == Leases!Request("grants", "lock")
        IN  base \in Task /\ base.op = "grants" /\ base.id = 0
    BY <1>2 DEF Leases!Ops
  <2> DEFINE add == [Leases!Request("adduser", "lock") EXCEPT !.u = u, !.g = g]
             set == [Leases!Request("grants", "lock") EXCEPT !.u = u, !.g = g,
                                                             !.seen = Leases!GrantsOf(u)]
  <2>1. add \in Task /\ add.id <= 0 /\ (add.op = "drop" => add.d \in Names)
    <3>1. add \in Task
      BY <2>r DEF Task
    <3>2. add.id <= 0
      BY <2>r DEF Task
    <3>3. add.op = "adduser"
      BY <2>r DEF Task
    <3> QED
      BY <3>1, <3>2, <3>3
  <2>2. set \in Task /\ set.id <= 0 /\ (set.op = "drop" => set.d \in Names)
    <3>1. set \in Task
      BY <2>s DEF Task, Leases!GrantsOf
    <3>2. set.id <= 0
      BY <2>s DEF Task
    <3>3. set.op = "grants"
      BY <2>s DEF Task
    <3> QED
      BY <3>1, <3>2, <3>3
  <2> QED
    BY <1>1, <2>1, <2>2 DEF Leases!CreateUser, Leases!SetUserPermissions
<1>8. CASE \E u \in Names : Leases!DeleteUser(c, u)
  <2> PICK u \in Names : Leases!DeleteUser(c, u)
    BY <1>8
  <2>r. LET base == Leases!Request("deluser", "lock")
        IN  base \in Task /\ base.op = "deluser" /\ base.id = 0
    BY <1>2 DEF Leases!Ops
  <2> DEFINE req == [Leases!Request("deluser", "lock") EXCEPT !.u = u]
  <2>1. req \in Task /\ req.id <= 0 /\ (req.op = "drop" => req.d \in Names)
    BY <2>r DEF Task
  <2> QED
    BY <1>1, <2>1 DEF Leases!DeleteUser
<1>9. CASE \E d \in Names, name \in {"schedule", "unschedule", "backup", "restore"} :
             Leases!LeaseRequest(c, name, d)
  <2> PICK d \in Names, name \in {"schedule", "unschedule", "backup", "restore"} :
        Leases!LeaseRequest(c, name, d)
    BY <1>9
  <2>r. LET base == Leases!Request(name, "lease")
        IN  base \in Task /\ base.op = name /\ base.id = 0
    BY <1>2 DEF Leases!Ops
  <2> DEFINE id == -rows[d]
             req == [Leases!Request(name, "lease") EXCEPT !.d = d, !.id = id]
  <2>1. id \in Int /\ id <= 0
    BY DEF LeasesInv, LeaseTypes
  <2> HIDE DEF id
  <2>2. req \in Task /\ req.id <= 0 /\ (req.op = "drop" => req.d \in Names)
    <3>1. req \in Task
      BY <2>r, <2>1 DEF Task
    <3>2. req.id <= 0
      BY <2>r, <2>1 DEF Task
    <3>3. req.op = name
      BY <2>r, <2>1 DEF Task
    <3> QED
      BY <3>1, <3>2, <3>3
  <2> QED
    BY <1>1, <2>2 DEF Leases!LeaseRequest, id
<1> QED
  BY <1>3, <1>4, <1>5, <1>6, <1>7, <1>8, <1>9 DEF Leases!BeginAny

LEMMA LeaseSteps ==
  ASSUME LeasesInv, NEW c \in Requests, Leases!Step(c) \/ Leases!StepFails(c)
  PROVE  LeasesInv'
<1>0. ASSUME UNCHANGED <<rows, lastID>> PROVE Counted
  BY <1>0 DEF Counted, LeasesInv, LeaseTypes
<1>1. CASE Leases!Refused(c)
  <2>1. Counted
    BY <1>0, <1>1 DEF Leases!Refused, Leases!sqlite
  <2>2. Leases!Return(c)
    BY <1>1 DEF Leases!Refused
  <2> QED
    BY <2>1, <2>2, LeaseReturned
<1>2. CASE Leases!EnableUp(c)
  <2>1. Counted
    BY <1>0, <1>2 DEF Leases!EnableUp, Leases!sqlite
  <2>2. Leases!Return(c)
    BY <1>2 DEF Leases!EnableUp
  <2> QED
    BY <2>1, <2>2, LeaseReturned
<1>3. CASE Leases!DisableRecord(c)
  <2>1. Counted
    BY <1>0, <1>3 DEF Leases!DisableRecord, Leases!sqlite
  <2>2. Leases!Return(c)
    BY <1>3 DEF Leases!DisableRecord
  <2> QED
    BY <2>1, <2>2, LeaseReturned
<1>4. CASE Leases!StartCluster(c)
  <2>1. Counted
    BY <1>0, <1>4 DEF Leases!StartCluster, Leases!sqlite
  <2>2. Leases!Return(c)
    BY <1>4 DEF Leases!StartCluster
  <2> QED
    BY <2>1, <2>2, LeaseReturned
<1>5. CASE Leases!StopCluster(c)
  <2>1. Counted
    BY <1>0, <1>5 DEF Leases!StopCluster, Leases!sqlite
  <2>2. Leases!Return(c)
    BY <1>5 DEF Leases!StopCluster
  <2> QED
    BY <2>1, <2>2, LeaseReturned
<1>6. CASE Leases!RestartCluster(c)
  <2>1. Counted
    BY <1>0, <1>6 DEF Leases!RestartCluster, Leases!sqlite
  <2>2. Leases!Return(c)
    BY <1>6 DEF Leases!RestartCluster
  <2> QED
    BY <2>1, <2>2, LeaseReturned
<1>7. CASE Leases!DropRefused(c)
  <2>1. Counted
    BY <1>0, <1>7 DEF Leases!DropRefused, Leases!sqlite
  <2>2. Leases!Return(c)
    BY <1>7 DEF Leases!DropRefused
  <2> QED
    BY <2>1, <2>2, LeaseReturned
<1>8. CASE Leases!DropRecord(c)
  <2>1. Counted
    <3>1. LET d == pc[c].d IN
                 /\ lastID' \in {lastID, lastID + 1}
                 /\ rows' \in {rows, [rows EXCEPT ![d] = 0], [rows EXCEPT ![d] = lastID + 1]}
      BY <1>8 DEF Leases!DropRecord, Leases!Unrecord
    <3> QED
      BY <3>1 DEF Counted, LeasesInv, LeaseTypes
  <2>2. Leases!Return(c)
    BY <1>8 DEF Leases!DropRecord
  <2> QED
    BY <2>1, <2>2, LeaseReturned
<1>9. CASE Leases!CreateRecord(c)
  <2>1. Counted
    <3>1. LET d == pc[c].d IN
                 /\ lastID' \in {lastID, lastID + 1}
                 /\ rows' \in {rows, [rows EXCEPT ![d] = 0], [rows EXCEPT ![d] = lastID + 1]}
      BY <1>9 DEF Leases!CreateRecord
    <3> QED
      BY <3>1 DEF Counted, LeasesInv, LeaseTypes
  <2>2. Leases!Return(c)
    BY <1>9 DEF Leases!CreateRecord
  <2> QED
    BY <2>1, <2>2, LeaseReturned
<1>10. CASE Leases!CreateUndo(c)
  <2>1. Counted
    BY <1>0, <1>10 DEF Leases!CreateUndo, Leases!sqlite
  <2>2. Leases!Return(c)
    BY <1>10 DEF Leases!CreateUndo
  <2> QED
    BY <2>1, <2>2, LeaseReturned
<1>11. CASE Leases!UserRecord(c)
  <2>1. Counted
    BY <1>0, <1>11 DEF Leases!UserRecord, Leases!sqlite
  <2>2. Leases!Return(c)
    BY <1>11 DEF Leases!UserRecord
  <2> QED
    BY <2>1, <2>2, LeaseReturned
<1>12. CASE Leases!UserUndo(c)
  <2>1. Counted
    BY <1>0, <1>12 DEF Leases!UserUndo, Leases!sqlite
  <2>2. Leases!Return(c)
    BY <1>12 DEF Leases!UserUndo
  <2> QED
    BY <2>1, <2>2, LeaseReturned
<1>13. CASE Leases!GrantRecord(c)
  <2>1. Counted
    BY <1>0, <1>13 DEF Leases!GrantRecord, Leases!sqlite
  <2>2. Leases!Return(c)
    BY <1>13 DEF Leases!GrantRecord
  <2> QED
    BY <2>1, <2>2, LeaseReturned
<1>14. CASE Leases!DeleteUserRecord(c)
  <2>1. Counted
    BY <1>0, <1>14 DEF Leases!DeleteUserRecord, Leases!sqlite
  <2>2. Leases!Return(c)
    BY <1>14 DEF Leases!DeleteUserRecord
  <2> QED
    BY <2>1, <2>2, LeaseReturned
<1>15. CASE Leases!LeaseRefused(c)
  <2>1. Counted
    BY <1>0, <1>15 DEF Leases!LeaseRefused, Leases!sqlite
  <2>2. Leases!Return(c)
    BY <1>15 DEF Leases!LeaseRefused
  <2> QED
    BY <2>1, <2>2, LeaseReturned
<1>16. CASE Leases!ScheduleRecord(c)
  <2>1. Counted
    BY <1>0, <1>16 DEF Leases!ScheduleRecord, Leases!sqlite
  <2>2. Leases!Return(c)
    BY <1>16 DEF Leases!ScheduleRecord
  <2> QED
    BY <2>1, <2>2, LeaseReturned
<1>17. CASE Leases!ScheduleUndo(c)
  <2>1. Counted
    BY <1>0, <1>17 DEF Leases!ScheduleUndo, Leases!sqlite
  <2>2. Leases!Return(c)
    BY <1>17 DEF Leases!ScheduleUndo
  <2> QED
    BY <2>1, <2>2, LeaseReturned
<1>18. CASE Leases!Unschedule(c)
  <2>1. Counted
    BY <1>0, <1>18 DEF Leases!Unschedule, Leases!sqlite
  <2>2. Leases!Return(c)
    BY <1>18 DEF Leases!Unschedule
  <2> QED
    BY <2>1, <2>2, LeaseReturned
<1>19. CASE Leases!RunBackup(c)
  <2>1. Counted
    BY <1>0, <1>19 DEF Leases!RunBackup, Leases!sqlite
  <2>2. Leases!Return(c)
    BY <1>19 DEF Leases!RunBackup
  <2> QED
    BY <2>1, <2>2, LeaseReturned
<1>20. CASE Leases!BackupFails(c)
  <2>1. Counted
    BY <1>0, <1>20 DEF Leases!BackupFails, Leases!sqlite
  <2>2. Leases!Return(c)
    BY <1>20 DEF Leases!BackupFails
  <2> QED
    BY <2>1, <2>2, LeaseReturned
<1>21. CASE Leases!RestoreBackup(c)
  <2>1. Counted
    BY <1>0, <1>21 DEF Leases!RestoreBackup, Leases!sqlite
  <2>2. Leases!Return(c)
    BY <1>21 DEF Leases!RestoreBackup
  <2> QED
    BY <2>1, <2>2, LeaseReturned
<1>22. CASE Leases!StepFails(c)
  <2>1. Counted
    BY <1>0, <1>22 DEF Leases!StepFails, Leases!sqlite
  <2>2. Leases!Return(c)
    BY <1>22 DEF Leases!StepFails
  <2> QED
    BY <2>1, <2>2, LeaseReturned
<1>23. CASE Leases!Lock(c)
  <2>1. Counted
    BY <1>0, <1>23 DEF Leases!Lock, Leases!sqlite
  <2>2. PICK at \in LeaseStages : Leases!Goto(c, at) /\ leased' = leased
    BY <1>23 DEF LeaseStages, Leases!Lock
  <2> QED
    BY <2>1, <2>2, LeaseGoto, LeaseWentOn DEF LeasesInv
<1>24. CASE Leases!EnableFiles(c)
  <2>1. Counted
    BY <1>0, <1>24 DEF Leases!EnableFiles, Leases!sqlite
  <2>2. PICK at \in LeaseStages : Leases!Goto(c, at) /\ leased' = leased
    BY <1>24 DEF LeaseStages, Leases!EnableFiles
  <2> QED
    BY <2>1, <2>2, LeaseGoto, LeaseWentOn DEF LeasesInv
<1>25. CASE Leases!EnableCluster(c)
  <2>1. Counted
    BY <1>0, <1>25 DEF Leases!EnableCluster, Leases!sqlite
  <2>2. PICK at \in LeaseStages : Leases!Goto(c, at) /\ leased' = leased
    BY <1>25 DEF LeaseStages, Leases!EnableCluster
  <2> QED
    BY <2>1, <2>2, LeaseGoto, LeaseWentOn DEF LeasesInv
<1>26. CASE Leases!EnableRows(c)
  <2>1. Counted
    <3>1. LET d == pc[c].u IN
                 /\ lastID' \in {lastID, lastID + 1}
                 /\ rows' \in {rows, [rows EXCEPT ![d] = 0], [rows EXCEPT ![d] = lastID + 1]}
      BY <1>26 DEF Leases!EnableRows
    <3> QED
      BY <3>1 DEF Counted, LeasesInv, LeaseTypes
  <2>2. PICK at \in LeaseStages : Leases!Goto(c, at) /\ leased' = leased
    BY <1>26 DEF LeaseStages, Leases!EnableRows
  <2> QED
    BY <2>1, <2>2, LeaseGoto, LeaseWentOn DEF LeasesInv
<1>27. CASE Leases!DisableStop(c)
  <2>1. Counted
    BY <1>0, <1>27 DEF Leases!DisableStop, Leases!sqlite
  <2>2. PICK at \in LeaseStages : Leases!Goto(c, at) /\ leased' = leased
    BY <1>27 DEF LeaseStages, Leases!DisableStop
  <2> QED
    BY <2>1, <2>2, LeaseGoto, LeaseWentOn DEF LeasesInv
<1>28. CASE Leases!CreateLive(c)
  <2>1. Counted
    BY <1>0, <1>28 DEF Leases!CreateLive, Leases!sqlite
  <2>2. PICK at \in LeaseStages : Leases!Goto(c, at) /\ leased' = leased
    BY <1>28 DEF LeaseStages, Leases!CreateLive
  <2> QED
    BY <2>1, <2>2, LeaseGoto, LeaseWentOn DEF LeasesInv
<1>29. CASE Leases!DropLive(c)
  <2>1. Counted
    BY <1>0, <1>29 DEF Leases!DropLive, Leases!sqlite
  <2>2. PICK at \in LeaseStages : Leases!Goto(c, at) /\ leased' = leased
    BY <1>29 DEF LeaseStages, Leases!DropLive
  <2> QED
    BY <2>1, <2>2, LeaseGoto, LeaseWentOn DEF LeasesInv
<1>30. CASE Leases!UserRole(c)
  <2>1. Counted
    BY <1>0, <1>30 DEF Leases!UserRole, Leases!sqlite
  <2>2. PICK at \in LeaseStages : Leases!Goto(c, at) /\ leased' = leased
    BY <1>30 DEF LeaseStages, Leases!UserRole
  <2> QED
    BY <2>1, <2>2, LeaseGoto, LeaseWentOn DEF LeasesInv
<1>31. CASE Leases!UserGrants(c)
  <2>1. Counted
    BY <1>0, <1>31 DEF Leases!UserGrants, Leases!sqlite
  <2>2. PICK at \in LeaseStages : Leases!Goto(c, at) /\ leased' = leased
    BY <1>31 DEF LeaseStages, Leases!UserGrants
  <2> QED
    BY <2>1, <2>2, LeaseGoto, LeaseWentOn DEF LeasesInv
<1>32. CASE Leases!DeleteRole(c)
  <2>1. Counted
    BY <1>0, <1>32 DEF Leases!DeleteRole, Leases!sqlite
  <2>2. PICK at \in LeaseStages : Leases!Goto(c, at) /\ leased' = leased
    BY <1>32 DEF LeaseStages, Leases!DeleteRole
  <2> QED
    BY <2>1, <2>2, LeaseGoto, LeaseWentOn DEF LeasesInv
<1>33. CASE Leases!Install(c)
  <2>1. Counted
    BY <1>0, <1>33 DEF Leases!Install, Leases!sqlite
  <2>2. PICK at \in LeaseStages : Leases!Goto(c, at) /\ leased' = leased
    BY <1>33 DEF LeaseStages, Leases!Install
  <2> QED
    BY <2>1, <2>2, LeaseGoto, LeaseWentOn DEF LeasesInv
<1>34. CASE Leases!GrantNew(c)
  <2>1. Counted
    BY <1>0, <1>34 DEF Leases!GrantNew, Leases!sqlite
  <2>2. CASE Leases!Return(c)
    BY <2>1, <2>2, LeaseReturned
  <2>3. CASE \E at \in LeaseStages : Leases!Goto(c, at) /\ leased' = leased
    BY <2>1, <2>3, LeaseGoto, LeaseWentOn DEF LeasesInv
  <2> QED
    BY <1>34, <2>2, <2>3 DEF LeaseStages, Leases!GrantNew
<1>35. CASE Leases!RevokeOld(c)
  <2>1. Counted
    BY <1>0, <1>35 DEF Leases!RevokeOld, Leases!sqlite
  <2>2. CASE Leases!Return(c)
    BY <2>1, <2>2, LeaseReturned
  <2>3. CASE \E at \in LeaseStages : Leases!Goto(c, at) /\ leased' = leased
    BY <2>1, <2>3, LeaseGoto, LeaseWentOn DEF LeasesInv
  <2> QED
    BY <1>35, <2>2, <2>3 DEF LeaseStages, Leases!RevokeOld
<1>36. CASE Leases!CreateRole(c)
  <2>1. Counted
    BY <1>0, <1>36 DEF Leases!CreateRole, Leases!sqlite
  <2>2. PICK m \in BOOLEAN : pc' = [pc EXCEPT ![c].at = "database", ![c].mine = m]
    BY <1>36 DEF Leases!CreateRole
  <2>3. \A e \in Requests : pc'[e] \in Task /\ pc'[e].id = pc[e].id /\ Same(e)
    BY <2>2 DEF Same, LeasesInv, LeaseTypes, Task, LeaseStages
  <2>4. GoesOn
    BY <1>36, <2>2, <2>3 DEF GoesOn, LeasesInv, LeaseTypes, Leases!CreateRole
  <2> QED
    BY <2>1, <2>4, LeaseWentOn
<1>37. CASE Leases!DropLease(c)
  <2>1. Counted
    BY <1>0, <1>37 DEF Leases!DropLease, Leases!sqlite
  <2> DEFINE id == rows[pc[c].d]
  <2>2. pc' = [pc EXCEPT ![c].at = "drop", ![c].id = id]
    BY <1>37 DEF Leases!DropLease
  <2>3. pc[c].d \in Names /\ id \in Nat
    BY <1>37 DEF LeasesInv, LeaseTypes, DropNames, Leases!DropLease, Leases!At
  <2> DEFINE next == [pc[c] EXCEPT !.at = "drop", !.id = id]
  <2>c. pc[c] \in Task /\ "drop" \in LeaseStages /\ id \in Int
    BY <2>3 DEF LeasesInv, LeaseTypes, LeaseStages
  <2> HIDE DEF id
  <2>a. next \in Task /\ next.id = id /\ next.op = pc[c].op /\ next.d = pc[c].d
    BY <2>c DEF Task
  <2>b. pc' = [pc EXCEPT ![c] = next]
    BY <2>2
  <2> HIDE DEF next
  <2>4. /\ \A e \in Requests : pc'[e] \in Task
        /\ pc'[c].id = id /\ Same(c) /\ \A e \in Requests \ {c} : pc'[e] = pc[e]
    BY <2>a, <2>b DEF Same, LeasesInv, LeaseTypes
  <2>5. Takes(c, id)
    BY <1>37, <2>2, <2>3, <2>4 DEF Takes, LeasesInv, LeaseTypes, Leases!DropLease
  <2> QED
    BY <2>1, <2>5, LeaseTaken
<1>38. CASE Leases!TakeLease(c)
  <2>1. Counted
    BY <1>0, <1>38 DEF Leases!TakeLease, Leases!sqlite
  <2> DEFINE id == -pc[c].id
  <2>2. pc' = [pc EXCEPT ![c].at = "leased", ![c].id = id]
    BY <1>38 DEF Leases!TakeLease
  <2>3. id \in Nat
    BY <1>38 DEF LeasesInv, LeaseTypes, Leases!TakeLease, Leases!Registered
  <2> DEFINE next == [pc[c] EXCEPT !.at = "leased", !.id = id]
  <2>c. pc[c] \in Task /\ "leased" \in LeaseStages /\ id \in Int
    BY <2>3 DEF LeasesInv, LeaseTypes, LeaseStages
  <2> HIDE DEF id
  <2>a. next \in Task /\ next.id = id /\ next.op = pc[c].op /\ next.d = pc[c].d
    BY <2>c DEF Task
  <2>b. pc' = [pc EXCEPT ![c] = next]
    BY <2>2
  <2> HIDE DEF next
  <2>4. /\ \A e \in Requests : pc'[e] \in Task
        /\ pc'[c].id = id /\ Same(c) /\ \A e \in Requests \ {c} : pc'[e] = pc[e]
    BY <2>a, <2>b DEF Same, LeasesInv, LeaseTypes
  <2>5. Takes(c, id)
    BY <1>38, <2>2, <2>3, <2>4 DEF Takes, LeasesInv, LeaseTypes, Leases!TakeLease
  <2> QED
    BY <2>1, <2>5, LeaseTaken
<1> QED
  BY <1>1, <1>2, <1>3, <1>4, <1>5, <1>6, <1>7, <1>8, <1>9, <1>10, <1>11, <1>12, <1>13, <1>14,
     <1>15, <1>16, <1>17, <1>18, <1>19, <1>20, <1>21, <1>22, <1>23, <1>24, <1>25, <1>26, <1>27,
     <1>28, <1>29, <1>30, <1>31, <1>32, <1>33, <1>34, <1>35, <1>36, <1>37, <1>38 DEF Leases!Step

LEMMA LeasesNext == ASSUME LeasesInv, Leases!Next PROVE LeasesInv'
<1>1. CASE \E c \in Requests : Leases!BeginAny(c) \/ Leases!Step(c) \/ Leases!StepFails(c)
  BY <1>1, LeaseStarts, LeaseSteps
<1>2. CASE Leases!Crash
  BY <1>2, LeaseIdle
  DEF LeasesInv, LeaseTypes, DropNames, LeaseHeld, Leases!LeaseExcludes, Leases!Crash, Leases!sqlite
<1>3. CASE Leases!LeaseExpires
  BY <1>3
  DEF LeasesInv, LeaseTypes, DropNames, LeaseHeld, Leases!LeaseExcludes, Leases!LeaseExpires,
      Leases!sqlite
<1> QED
  BY <1>1, <1>2, <1>3 DEF Leases!Next

LEMMA LeasesInit == ASSUME Leases!Init PROVE LeasesInv
BY LeaseIdle DEF LeasesInv, LeaseTypes, DropNames, LeaseHeld, Leases!LeaseExcludes, Leases!Init

---------------------------------------------------------------------------
(* Backups of a service.  BackedHolds: an operation in its lease is the    *)
(* one the lease names, is at least as old as the lease and not past its   *)
(* deadline, so whoever finds the lease expired finds no operation in it.  *)
(* HangingHolds: the schedule's lock belongs to the one edit between its   *)
(* units and its row; an edit that disables has the timer off and no run   *)
(* left before it writes the row.                                          *)

BackupStages == {"none", "complete", "lease", "start", "temp", "dump", "record", "status",
   "retention",
                 "units", "save"}
BackupKinds == {"idle", "joined", "scheduled", "backup", "restore", "delete", "on", "off",
   "teardown"}
BackupTask == [kind : BackupKinds, at : BackupStages, age : Nat, f : Nat, enabled : BOOLEAN,
               asked : BackupKinds \cup {"none"}, joined : Requests \cup {None}]
BackupTypes ==
  /\ op \in [Requests -> BackupTask] /\ lease \in [by : Requests \cup {None}, age : Nat]
  /\ row \in [saved : BOOLEAN, enabled : BOOLEAN, status : {"none", "ok", "failed"}]
  /\ made \in Nat /\ job \in Requests \cup {None} /\ timer \in BOOLEAN /\ gone \in BOOLEAN
  /\ \A a \in Requests : op[a].kind # "joined" => op[a].joined = None

Past(a) == op[a].kind = "scheduled" /\ op[a].at \notin {"lease", "start"}

BackedHolds ==
  /\ \A a \in Requests :
       /\ op[a].kind \notin {"off", "teardown"}
       /\ Backed!InLease(a) => lease.by = a /\ lease.age <= op[a].age
       /\ Backed!Live(a) => op[a].age <= Cap
       /\ Past(a) => row.enabled

HangingHolds ==
  /\ errors \in Nat /\ deaths \in Nat
  /\ \A a \in Requests :
       /\ mu = a <=> op[a].kind \in {"on", "off", "teardown"} /\ op[a].at \in {"units", "save"}
       /\ Past(a) => row.enabled
       /\ op[a].kind \in {"off", "teardown"} /\ op[a].at = "save" /\ row.enabled =>
            ~timer /\ \A b \in Requests : op[b].kind # "scheduled"
       /\ op[a].kind = "on" /\ op[a].at = "save" => timer
  /\ Hanging!EnabledIsTimed
  /\ gone => ~row.enabled

BackupsInv == BackupTypes /\ (which = "backed" => BackedHolds)
   /\ (which = "hanging" => HangingHolds)

(* What a step does to the operations: one goes on, or one ends and takes  *)
(* those with it that had joined its job.                                  *)
Continues(a, stage) ==
  /\ op' \in [Requests -> BackupTask]
  /\ op'[a].at = stage /\ op'[a].kind = op[a].kind
  /\ op'[a].age = op[a].age /\ op'[a].joined = op[a].joined
  /\ \A b \in Requests \ {a} : op'[b] = op[b]
Finishes(a) ==
  /\ op' \in [Requests -> BackupTask]
  /\ op'[a].kind = "idle" /\ op'[a].joined = None
  /\ job' \in Requests \cup {None}
  /\ \A b \in Requests \ {a} :
       op'[b] = op[b] \/ (op[b].kind = "joined" /\ op'[b].kind = "idle" /\ op'[b].joined = None)
Frees(a) == lease' = IF lease.by = a THEN [by |-> None, age |-> 0] ELSE lease
Rows == [saved : BOOLEAN, enabled : BOOLEAN, status : {"none", "ok", "failed"}]
Stored == made' \in Nat /\ timer' \in BOOLEAN /\ gone' \in BOOLEAN /\ row' \in Rows
RowKept == row' \in Rows /\ row'.enabled = row.enabled

LEMMA BackedNoOp ==
  /\ Backed!NoOp \in BackupTask /\ Backed!NoOp.kind = "idle" /\ Backed!NoOp.joined = None
  /\ Backed!NoOp.at = "none" /\ Backed!NoOp.age = 0
BY DEF Backed!NoOp, BackupTask, BackupKinds, BackupStages

LEMMA BackedGoto ==
  ASSUME BackupTypes, NEW a \in Requests, NEW stage \in BackupStages, Backed!Goto(a, stage)
  PROVE  Continues(a, stage)
<1>1. op[a] \in BackupTask /\ op' = [op EXCEPT ![a] = [op[a] EXCEPT !.at = stage]]
  BY DEF BackupTypes, Backed!Goto
<1> DEFINE next == [op[a] EXCEPT !.at = stage]
<1>2. next \in BackupTask
  BY <1>1 DEF BackupTask
<1>3. next.at = stage /\ next.kind = op[a].kind /\ next.age = op[a].age
      /\ next.joined = op[a].joined
  BY <1>1 DEF BackupTask
<1> HIDE DEF next
<1>4. op' = [op EXCEPT ![a] = next]
  BY <1>1 DEF next
<1> QED
  BY <1>2, <1>3, <1>4 DEF Continues, BackupTypes

LEMMA BackedFinish ==
  ASSUME BackupTypes, Constants, NEW a \in Requests, NEW done, Backed!Finish(a, done)
  PROVE  Finishes(a)
<1> DEFINE complete(asked) == [Backed!NoOp EXCEPT !.at = "complete", !.asked = asked]
<1>1. ASSUME NEW asked \in BackupKinds \cup {"none"}
      PROVE  complete(asked) \in BackupTask /\ complete(asked).kind = "idle"
             /\ complete(asked).joined = None
  <2>1. "complete" \in BackupStages
    BY DEF BackupStages
  <2>2. complete(asked) \in BackupTask
    BY BackedNoOp, <2>1 DEF BackupTask
  <2>3. complete(asked).kind = "idle"
    BY BackedNoOp DEF BackupTask
  <2>4. complete(asked).joined = None
    BY BackedNoOp DEF BackupTask
  <2> QED
    BY <2>2, <2>3, <2>4
<1>2. \A b \in Requests : op[b].asked \in BackupKinds \cup {"none"} /\ op[b] \in BackupTask
  BY DEF BackupTypes, BackupTask
<1>3. op' = [b \in Requests |->
               IF b = a THEN IF op[a].kind \in {"backup", "restore"} /\ done
                             THEN complete(op[a].asked) ELSE Backed!NoOp
               ELSE IF op[b].joined # a THEN op[b]
               ELSE IF done THEN complete(op[b].asked) ELSE Backed!NoOp]
  BY DEF Backed!Finish
<1> HIDE DEF complete
<1>4. op' \in [Requests -> BackupTask]
  BY <1>1, <1>2, <1>3, BackedNoOp
<1>5. op'[a].kind = "idle" /\ op'[a].joined = None
  BY <1>1, <1>2, <1>3, BackedNoOp
<1>6. ASSUME NEW b \in Requests \ {a}
      PROVE  op'[b] = op[b]
             \/ (op[b].kind = "joined" /\ op'[b].kind = "idle" /\ op'[b].joined = None)
  <2>1. CASE op[b].joined # a
    BY <1>3, <2>1
  <2>2. CASE op[b].joined = a
    <3>1. op[b].kind = "joined"
      BY <2>2 DEF BackupTypes, Constants
    <3>2. op'[b] = complete(op[b].asked) \/ op'[b] = Backed!NoOp
      BY <1>3, <2>2
    <3> QED
      BY <1>1, <1>2, <3>1, <3>2, BackedNoOp
  <2> QED
    BY <2>1, <2>2
<1>7. job' \in Requests \cup {None}
  BY DEF BackupTypes, Backed!Finish
<1> QED
  BY <1>4, <1>5, <1>6, <1>7 DEF Finishes

LEMMA HangingNoOp ==
  /\ Hanging!NoOp \in BackupTask /\ Hanging!NoOp.kind = "idle" /\ Hanging!NoOp.joined = None
  /\ Hanging!NoOp.at = "none" /\ Hanging!NoOp.age = 0
BY DEF Hanging!NoOp, BackupTask, BackupKinds, BackupStages

LEMMA HangingGoto ==
  ASSUME BackupTypes, NEW a \in Requests, NEW stage \in BackupStages, Hanging!Goto(a, stage)
  PROVE  Continues(a, stage)
<1>1. op[a] \in BackupTask /\ op' = [op EXCEPT ![a] = [op[a] EXCEPT !.at = stage]]
  BY DEF BackupTypes, Hanging!Goto
<1> DEFINE next == [op[a] EXCEPT !.at = stage]
<1>2. next \in BackupTask
  BY <1>1 DEF BackupTask
<1>3. next.at = stage /\ next.kind = op[a].kind /\ next.age = op[a].age
      /\ next.joined = op[a].joined
  BY <1>1 DEF BackupTask
<1> HIDE DEF next
<1>4. op' = [op EXCEPT ![a] = next]
  BY <1>1 DEF next
<1> QED
  BY <1>2, <1>3, <1>4 DEF Continues, BackupTypes

LEMMA HangingFinish ==
  ASSUME BackupTypes, Constants, NEW a \in Requests, NEW done, Hanging!Finish(a, done)
  PROVE  Finishes(a)
<1> DEFINE complete(asked) == [Hanging!NoOp EXCEPT !.at = "complete", !.asked = asked]
<1>1. ASSUME NEW asked \in BackupKinds \cup {"none"}
      PROVE  complete(asked) \in BackupTask /\ complete(asked).kind = "idle"
             /\ complete(asked).joined = None
  <2>1. "complete" \in BackupStages
    BY DEF BackupStages
  <2>2. complete(asked) \in BackupTask
    BY HangingNoOp, <2>1 DEF BackupTask
  <2>3. complete(asked).kind = "idle"
    BY HangingNoOp DEF BackupTask
  <2>4. complete(asked).joined = None
    BY HangingNoOp DEF BackupTask
  <2> QED
    BY <2>2, <2>3, <2>4
<1>2. \A b \in Requests : op[b].asked \in BackupKinds \cup {"none"} /\ op[b] \in BackupTask
  BY DEF BackupTypes, BackupTask
<1>3. op' = [b \in Requests |->
               IF b = a THEN IF op[a].kind \in {"backup", "restore"} /\ done
                             THEN complete(op[a].asked) ELSE Hanging!NoOp
               ELSE IF op[b].joined # a THEN op[b]
               ELSE IF done THEN complete(op[b].asked) ELSE Hanging!NoOp]
  BY DEF Hanging!Finish
<1> HIDE DEF complete
<1>4. op' \in [Requests -> BackupTask]
  BY <1>1, <1>2, <1>3, HangingNoOp
<1>5. op'[a].kind = "idle" /\ op'[a].joined = None
  BY <1>1, <1>2, <1>3, HangingNoOp
<1>6. ASSUME NEW b \in Requests \ {a}
      PROVE  op'[b] = op[b]
             \/ (op[b].kind = "joined" /\ op'[b].kind = "idle" /\ op'[b].joined = None)
  <2>1. CASE op[b].joined # a
    BY <1>3, <2>1
  <2>2. CASE op[b].joined = a
    <3>1. op[b].kind = "joined"
      BY <2>2 DEF BackupTypes, Constants
    <3>2. op'[b] = complete(op[b].asked) \/ op'[b] = Hanging!NoOp
      BY <1>3, <2>2
    <3> QED
      BY <1>1, <1>2, <3>1, <3>2, HangingNoOp
  <2> QED
    BY <2>1, <2>2
<1>7. job' \in Requests \cup {None}
  BY DEF BackupTypes, Hanging!Finish
<1> QED
  BY <1>4, <1>5, <1>6, <1>7 DEF Finishes

LEMMA Replaced ==
  ASSUME BackupTypes, NEW a \in Requests, NEW next \in BackupTask, op' = [op EXCEPT ![a] = next],
         next.kind = op[a].kind, next.age = op[a].age, next.joined = op[a].joined
  PROVE  Continues(a, next.at)
BY DEF Continues, BackupTypes

LEMMA EnabledRead ==
  ASSUME BackupTypes, NEW a \in Requests,
         op' = [op EXCEPT ![a].at = "temp", ![a].enabled = row.enabled]
  PROVE  Continues(a, "temp")
<1> DEFINE next == [op[a] EXCEPT !.at = "temp", !.enabled = row.enabled]
<1>1. op[a] \in BackupTask /\ row.enabled \in BOOLEAN /\ "temp" \in BackupStages
  BY DEF BackupTypes, BackupStages
<1>2. next \in BackupTask
  BY <1>1 DEF BackupTask
<1>3. next.at = "temp" /\ next.kind = op[a].kind /\ next.age = op[a].age
      /\ next.joined = op[a].joined
  BY <1>1 DEF BackupTask
<1>4. op' = [op EXCEPT ![a] = next]
  OBVIOUS
<1> HIDE DEF next
<1> QED
  BY <1>2, <1>3, <1>4, Replaced

LEMMA FileNamed ==
  ASSUME BackupTypes, NEW a \in Requests, NEW f \in Nat,
         op' = [op EXCEPT ![a].at = "record", ![a].f = f]
  PROVE  Continues(a, "record")
<1> DEFINE next == [op[a] EXCEPT !.at = "record", !.f = f]
<1>1. op[a] \in BackupTask /\ "record" \in BackupStages
  BY DEF BackupTypes, BackupStages
<1>2. next \in BackupTask
  BY <1>1 DEF BackupTask
<1>3. next.at = "record" /\ next.kind = op[a].kind /\ next.age = op[a].age
      /\ next.joined = op[a].joined
  BY <1>1 DEF BackupTask
<1>4. op' = [op EXCEPT ![a] = next]
  OBVIOUS
<1> HIDE DEF next
<1> QED
  BY <1>2, <1>3, <1>4, Replaced

BackedInv == Constants /\ BackupTypes /\ BackedHolds

LEMMA BackedEnded ==
  ASSUME BackedInv, NEW a \in Requests, Finishes(a), Frees(a), Stored, row.enabled => row'.enabled
  PROVE  BackupTypes' /\ BackedHolds'
<1>1. lease' \in [by : Requests \cup {None}, age : Nat]
  BY DEF Frees, BackedInv, BackupTypes
<1>2. BackupTypes'
  BY <1>1 DEF BackedInv, BackupTypes, Finishes, Stored, Rows
<1>3. ASSUME NEW b \in Requests, op'[b] # op[b]
      PROVE  op'[b].kind = "idle"
  BY <1>3 DEF Finishes
<1>4. ASSUME NEW b \in Requests, op'[b] = op[b], b # a, lease.by = b PROVE lease' = lease
  BY <1>4 DEF Frees
<1>5. op'[a].kind = "idle"
  BY DEF Finishes
<1> QED
  BY <1>2, <1>3, <1>4, <1>5 DEF BackedInv, BackedHolds, Past, Backed!InLease, Backed!Live

LEMMA BackedWentOn ==
  ASSUME BackedInv, NEW a \in Requests, NEW stage \in BackupStages, Continues(a, stage),
         lease' = lease, job' = job,
         Stored, row.enabled => row'.enabled, op[a].at # "lease",
         op[a].kind = "scheduled" /\ op[a].at = "start" => row.enabled
  PROVE  BackupTypes' /\ BackedHolds'
<1>1. BackupTypes'
  BY DEF BackedInv, BackupTypes, Continues, Stored, Rows
<1> QED
  BY <1>1 DEF BackedInv, BackedHolds, Continues, Past, Backed!InLease, Backed!Live

LEMMA BackedKept ==
  ASSUME BackedInv, op' = op, lease' = lease, job' = job, Stored, row.enabled => row'.enabled
  PROVE  BackupTypes' /\ BackedHolds'
BY DEF BackedInv, BackupTypes, BackedHolds, Stored, Rows, Past, Backed!InLease, Backed!Live

LEMMA BackedStarted ==
  ASSUME BackedInv, NEW a \in Requests, op' \in [Requests -> BackupTask], lease' = lease, Stored,
         op'[a].kind \notin {"off", "teardown"}, op'[a].age = 0,
         op'[a].kind # "joined" => op'[a].joined = None,
         op'[a].kind = "joined" \/ op'[a].at = "lease", \A b \in Requests \ {a} : op'[b] = op[b],
         row' = row, job' \in Requests \cup {None}
  PROVE  BackupTypes' /\ BackedHolds'
<1>1. BackupTypes'
  BY DEF BackedInv, BackupTypes, Stored, Rows
<1>2. 0 <= Cap
  BY DEF BackedInv, Constants, Backed!CapBelowLease
<1> QED
  BY <1>1, <1>2 DEF BackedInv, BackedHolds, Past, Backed!InLease, Backed!Live

LEMMA BackedActor ==
  ASSUME BackedInv, NEW a \in Requests,
         Backed!LeaseRefused(a) \/ Backed!RunBackupReturns(a) \/ Backed!RestoreBackup(a) \/
         Backed!BackupNotFound(a) \/ Backed!BackupFails(a) \/ Backed!SaveBackupSchedule(a) \/
         Backed!SaveFails(a) \/ Backed!StepFails(a) \/ Backed!CreateTemp(a) \/
         Backed!CreateBackup(a) \/ Backed!RecordStatus(a) \/ Backed!Lock(a) \/ Backed!Install(a)
         \/ Backed!ReadSchedule(a) \/ Backed!DeleteBackup(a) \/ Backed!ApplyRetention(a) \/
         Backed!CommitBackupFile(a) \/ Backed!AcquireBackupLease(a) \/ Backed!TempAges(a) \/
         Backed!TimerFires(a) \/ Backed!DisableUnits(a) \/ Backed!DeleteService(a)
  PROVE  BackupTypes' /\ BackedHolds'
<1>f. ASSUME UNCHANGED <<made, timer, gone, row>> PROVE Stored /\ (row.enabled => row'.enabled)
  BY <1>f DEF BackedInv, BackupTypes, Stored, Rows
<1>s. ASSUME NEW status \in {"none", "ok", "failed"}, Backed!UpdateBackupStatus(a, status)
      PROVE  row' \in Rows /\ row'.enabled = row.enabled
  BY <1>s DEF BackedInv, BackupTypes, Rows, Backed!UpdateBackupStatus
<1>e. ASSUME NEW done, Backed!Return(a, done), Stored, row.enabled => row'.enabled
      PROVE  BackupTypes' /\ BackedHolds'
  BY <1>e, BackedFinish, BackedEnded DEF BackedInv, Frees, Backed!Return, Backed!ReleaseBackupLease
<1>1. CASE Backed!LeaseRefused(a)
  <2>1. Stored /\ (row.enabled => row'.enabled)
    BY <1>f, <1>1 DEF Backed!LeaseRefused, Backed!disk, Backed!rows
  <2>2. PICK done \in BOOLEAN : Backed!Return(a, done)
    BY <1>1 DEF Backed!LeaseRefused
  <2> QED
    BY <1>e, <2>1, <2>2
<1>2. CASE Backed!RunBackupReturns(a)
  <2>1. Stored /\ (row.enabled => row'.enabled)
    BY <1>f, <1>2 DEF Backed!RunBackupReturns, Backed!disk, Backed!rows
  <2>2. PICK done \in BOOLEAN : Backed!Return(a, done)
    BY <1>2 DEF Backed!RunBackupReturns
  <2> QED
    BY <1>e, <2>1, <2>2
<1>3. CASE Backed!RestoreBackup(a)
  <2>1. Stored /\ (row.enabled => row'.enabled)
    BY <1>f, <1>3 DEF Backed!RestoreBackup, Backed!disk, Backed!rows
  <2>2. PICK done \in BOOLEAN : Backed!Return(a, done)
    BY <1>3 DEF Backed!RestoreBackup
  <2> QED
    BY <1>e, <2>1, <2>2
<1>4. CASE Backed!BackupNotFound(a)
  <2>1. Stored /\ (row.enabled => row'.enabled)
    BY <1>f, <1>4 DEF Backed!BackupNotFound, Backed!disk, Backed!rows
  <2>2. PICK done \in BOOLEAN : Backed!Return(a, done)
    BY <1>4 DEF Backed!BackupNotFound
  <2> QED
    BY <1>e, <2>1, <2>2
<1>5. CASE Backed!BackupFails(a)
  <2>1. Stored /\ (row.enabled => row'.enabled)
    BY <1>s, <1>5 DEF BackedInv, BackupTypes, Rows, Stored, Backed!BackupFails
  <2>2. PICK done \in BOOLEAN : Backed!Return(a, done)
    BY <1>5 DEF Backed!BackupFails
  <2> QED
    BY <1>e, <2>1, <2>2
<1>6. CASE Backed!SaveBackupSchedule(a)
  <2>1. Stored /\ (row.enabled => row'.enabled)
    <3>1. row' = [row EXCEPT !.saved = TRUE, !.enabled = TRUE]
      BY <1>6 DEF BackedInv, BackedHolds, Backed!SaveBackupSchedule
    <3>2. row' \in Rows /\ row'.enabled
      BY <3>1 DEF BackedInv, BackupTypes, Rows
    <3> QED
      BY <3>2, <1>6 DEF BackedInv, BackupTypes, Stored, Backed!SaveBackupSchedule, Backed!disk
  <2>2. PICK done \in BOOLEAN : Backed!Return(a, done)
    BY <1>6 DEF Backed!SaveBackupSchedule
  <2> QED
    BY <1>e, <2>1, <2>2
<1>7. CASE Backed!SaveFails(a)
  <2>1. timer' \in BOOLEAN /\ UNCHANGED <<made, gone, row>>
    BY <1>7 DEF BackedInv, BackupTypes, Backed!SaveFails, Backed!disk, Backed!rows
  <2>3. Stored /\ (row.enabled => row'.enabled)
    BY <2>1 DEF BackedInv, BackupTypes, Stored, Rows
  <2>2. PICK done \in BOOLEAN : Backed!Return(a, done)
    BY <1>7 DEF Backed!SaveFails
  <2> QED
    BY <1>e, <2>3, <2>2
<1>8. CASE Backed!StepFails(a)
  <2>1. timer' \in BOOLEAN /\ UNCHANGED <<made, gone, row>>
    BY <1>8 DEF BackedInv, BackupTypes, Backed!StepFails, Backed!disk, Backed!rows
  <2>3. Stored /\ (row.enabled => row'.enabled)
    BY <2>1 DEF BackedInv, BackupTypes, Stored, Rows
  <2>2. PICK done \in BOOLEAN : Backed!Return(a, done)
    BY <1>8 DEF Backed!StepFails
  <2> QED
    BY <1>e, <2>3, <2>2
<1>9. CASE Backed!CreateTemp(a)
  <2>1. Stored /\ (row.enabled => row'.enabled)
    BY <1>f, <1>9 DEF Backed!CreateTemp, Backed!disk, Backed!rows
  <2>2. Continues(a, "dump")
    BY <1>9, BackedGoto DEF BackedInv, BackupStages, Backed!CreateTemp
  <2>3. /\ lease' = lease /\ job' = job /\ op[a].at # "lease" /\ "dump" \in BackupStages
        /\ op[a].kind = "scheduled" => op[a].at # "start"
    BY <1>9 DEF BackupStages, Backed!CreateTemp, Backed!At
  <2> QED
    BY <2>1, <2>2, <2>3, BackedWentOn
<1>10. CASE Backed!CreateBackup(a)
  <2>1. Stored /\ (row.enabled => row'.enabled)
    BY <1>f, <1>10 DEF Backed!CreateBackup, Backed!disk, Backed!rows
  <2>2. Continues(a, "status")
    BY <1>10, BackedGoto DEF BackedInv, BackupStages, Backed!CreateBackup
  <2>3. /\ lease' = lease /\ job' = job /\ op[a].at # "lease" /\ "status" \in BackupStages
        /\ op[a].kind = "scheduled" => op[a].at # "start"
    BY <1>10 DEF BackupStages, Backed!CreateBackup, Backed!At
  <2> QED
    BY <2>1, <2>2, <2>3, BackedWentOn
<1>11. CASE Backed!RecordStatus(a)
  <2>1. Stored /\ (row.enabled => row'.enabled)
    BY <1>s, <1>11 DEF BackedInv, BackupTypes, Stored, Backed!RecordStatus, Backed!disk
  <2>2. Continues(a, "retention")
    BY <1>11, BackedGoto DEF BackedInv, BackupStages, Backed!RecordStatus
  <2>3. /\ lease' = lease /\ job' = job /\ op[a].at # "lease" /\ "retention" \in BackupStages
        /\ op[a].kind = "scheduled" => op[a].at # "start"
    BY <1>11 DEF BackupStages, Backed!RecordStatus, Backed!At
  <2> QED
    BY <2>1, <2>2, <2>3, BackedWentOn
<1>12. CASE Backed!Lock(a)
  <2>1. Stored /\ (row.enabled => row'.enabled)
    BY <1>f, <1>12 DEF Backed!Lock, Backed!disk, Backed!rows
  <2>2. Continues(a, "units")
    BY <1>12, BackedGoto DEF BackedInv, BackupStages, Backed!Lock
  <2>3. /\ lease' = lease /\ job' = job /\ op[a].at # "lease" /\ "units" \in BackupStages
        /\ op[a].kind = "scheduled" => op[a].at # "start"
    BY <1>12 DEF BackupStages, Backed!Lock, Backed!At
  <2> QED
    BY <2>1, <2>2, <2>3, BackedWentOn
<1>13. CASE Backed!Install(a)
  <2>1. Stored /\ (row.enabled => row'.enabled)
    BY <1>13 DEF BackedInv, BackupTypes, Rows, Stored, Backed!Install, Backed!disk, Backed!rows
  <2>2. Continues(a, "save")
    BY <1>13, BackedGoto DEF BackedInv, BackupStages, Backed!Install
  <2>3. /\ lease' = lease /\ job' = job /\ op[a].at # "lease" /\ "save" \in BackupStages
        /\ op[a].kind = "scheduled" => op[a].at # "start"
    BY <1>13 DEF BackupStages, Backed!Install, Backed!At
  <2> QED
    BY <2>1, <2>2, <2>3, BackedWentOn
<1>14. CASE Backed!ReadSchedule(a)
  <2>1. Stored /\ (row.enabled => row'.enabled)
    BY <1>f, <1>14 DEF Backed!ReadSchedule, Backed!disk, Backed!rows
  <2>2. CASE Backed!ScheduleDisabled(a)
    BY <1>e, <1>14, <2>1, <2>2 DEF Backed!ReadSchedule
  <2>3. CASE ~Backed!ScheduleDisabled(a)
    <3>1. /\ op' = [op EXCEPT ![a].at = "temp", ![a].enabled = row.enabled]
          /\ op[a].at = "start" /\ lease' = lease /\ job' = job
      BY <1>14, <2>3 DEF Backed!ReadSchedule
    <3>2. Continues(a, "temp")
      BY <3>1, EnabledRead DEF BackedInv
    <3>3. op[a].kind = "scheduled" => row.enabled
      BY <2>3 DEF Backed!ScheduleDisabled
    <3> QED
      BY <2>1, <3>1, <3>2, <3>3, BackedWentOn DEF BackupStages
  <2> QED
    BY <2>2, <2>3
<1>15. CASE Backed!DeleteBackup(a)
  <2>1. Stored /\ (row.enabled => row'.enabled)
    BY <1>f, <1>15 DEF Backed!DeleteBackup
  <2>2. CASE UNCHANGED <<op, lease, job>>
    BY <2>1, <2>2, BackedKept
  <2>3. CASE Backed!Return(a, TRUE)
    BY <1>e, <2>1, <2>3
  <2> QED
    BY <1>15, <2>2, <2>3 DEF Backed!DeleteBackup
<1>16. CASE Backed!ApplyRetention(a) \/ Backed!TempAges(a)
  <2>1. Stored /\ (row.enabled => row'.enabled)
    BY <1>f, <1>16 DEF Backed!ApplyRetention, Backed!TempAges, Backed!rows
  <2>2. UNCHANGED <<op, lease, job>>
    BY <1>16 DEF Backed!ApplyRetention, Backed!TempAges
  <2> QED
    BY <2>1, <2>2, BackedKept
<1>17. CASE Backed!CommitBackupFile(a)
  <2>1. Stored /\ (row.enabled => row'.enabled)
    BY <1>17 DEF BackedInv, BackupTypes, Stored, Rows, Backed!CommitBackupFile, Backed!rows
  <2>2. /\ op' = [op EXCEPT ![a].at = "record", ![a].f = made']
        /\ op[a].at = "dump" /\ lease' = lease /\ job' = job /\ made' \in Nat
    BY <1>17, <2>1 DEF Stored, Backed!CommitBackupFile
  <2>3. Continues(a, "record")
    BY <2>2, FileNamed DEF BackedInv
  <2> QED
    BY <2>1, <2>2, <2>3, BackedWentOn DEF BackupStages
<1>18. CASE Backed!AcquireBackupLease(a)
  <2>1. Stored /\ row' = row /\ job' = job
    BY <1>f, <1>18 DEF Backed!AcquireBackupLease, Backed!disk, Backed!rows
  <2>2. Continues(a, "start") /\ lease' = [by |-> a, age |-> 0]
    BY <1>18, BackedGoto DEF BackedInv, BackupStages, Backed!AcquireBackupLease
  <2>3. \A b \in Requests : ~Backed!InLease(b)
    <3> SUFFICES ASSUME NEW b \in Requests, Backed!InLease(b) PROVE FALSE
      OBVIOUS
    <3>1. lease.by = b /\ b # None /\ lease.age <= op[b].age /\ op[b].age <= Cap
      BY DEF BackedInv, BackedHolds, Backed!InLease, Constants
    <3>2. lease.age >= Lease
      BY <1>18, <3>1 DEF Backed!AcquireBackupLease, Backed!Expired
    <3>3. lease.age \in Nat /\ op[b].age \in Nat /\ Cap \in Nat /\ Lease \in Nat /\ Cap < Lease
      BY DEF BackedInv, BackupTypes, BackupTask, Constants, Backed!CapBelowLease
    <3> QED
      BY <3>1, <3>2, <3>3
  <2>4. BackupTypes'
    BY <2>1, <2>2 DEF BackedInv, BackupTypes, Continues, Stored, Rows
  <2>5. op[a].age \in Nat
    BY DEF BackedInv, BackupTypes, BackupTask
  <2>6. op[a].at = "lease"
    BY <1>18 DEF Backed!AcquireBackupLease
  <2> QED
    BY <2>1, <2>2, <2>3, <2>4, <2>5, <2>6
    DEF BackedInv, BackedHolds, Continues, Past, Backed!InLease, Backed!Live
<1>19. CASE Backed!TimerFires(a)
  <2>1. Stored /\ row' = row /\ job' = job
    BY <1>f, <1>19 DEF Backed!TimerFires, Backed!disk, Backed!rows
  <2> DEFINE run == [Backed!NoOp EXCEPT !.kind = "scheduled", !.at = "lease"]
  <2>2. op' = [op EXCEPT ![a] = run] /\ lease' = lease
    BY <1>19 DEF Backed!TimerFires
  <2>3. run \in BackupTask /\ run.kind = "scheduled" /\ run.at = "lease"
    BY BackedNoOp DEF BackupTask, BackupKinds, BackupStages
  <2>4. run.age = 0 /\ run.joined = None
    BY BackedNoOp DEF BackupTask
  <2> HIDE DEF run
  <2> QED
    BY <2>1, <2>2, <2>3, <2>4, BackedStarted DEF BackedInv, BackupTypes
<1>20. CASE Backed!DisableUnits(a) \/ Backed!DeleteService(a)
  BY <1>20 DEF BackedInv, BackedHolds, Backed!DisableUnits, Backed!DeleteService, Backed!At
<1> QED
  BY <1>1, <1>2, <1>3, <1>4, <1>5, <1>6, <1>7, <1>8, <1>9, <1>10, <1>11, <1>12, <1>13, <1>14,
     <1>15, <1>16, <1>17, <1>18, <1>19, <1>20

LEMMA BackedRequest ==
  ASSUME BackedInv, NEW a \in Requests, NEW f \in Nat, f <= 2,
         NEW kind \in {"backup", "scheduled", "delete", "on"}, Backed!Request(a, kind, f)
  PROVE  BackupTypes' /\ BackedHolds'
<1>1. Stored /\ row' = row /\ lease' = lease /\ job' \in Requests \cup {None}
  BY DEF BackedInv, BackupTypes, Stored, Rows, Backed!Request, Backed!disk, Backed!rows
<1>2. kind \in BackupKinds /\ kind \in {"backup", "delete", "on"}
  BY DEF BackupKinds, Backed!Request, Backed!Web
<1>3. CASE Backed!RunningJob(kind)
  <2> DEFINE waits == [Backed!NoOp EXCEPT !.kind = "joined", !.asked = kind, !.joined = job]
  <2>1. op' = [op EXCEPT ![a] = waits]
    BY <1>3 DEF Backed!Request
  <2>2. job \in Requests
    BY <1>3 DEF BackedInv, BackupTypes, Backed!RunningJob
  <2>3. waits \in BackupTask
    BY BackedNoOp, <1>2, <2>2 DEF BackupTask, BackupKinds
  <2>4. waits.kind = "joined"
    BY BackedNoOp DEF BackupTask
  <2>5. waits.age = 0
    BY BackedNoOp DEF BackupTask
  <2> HIDE DEF waits
  <2> QED
    BY <1>1, <2>1, <2>3, <2>4, <2>5, BackedStarted DEF BackedInv, BackupTypes
<1>4. CASE ~Backed!RunningJob(kind)
  <2> DEFINE starts == [Backed!NoOp EXCEPT !.kind = kind, !.at = "lease", !.f = f, !.asked = kind]
  <2>1. op' = [op EXCEPT ![a] = starts]
    BY <1>4 DEF Backed!Request
  <2>2. "lease" \in BackupStages
    BY DEF BackupStages
  <2>3. starts \in BackupTask
    BY BackedNoOp, <1>2, <2>2 DEF BackupTask
  <2>4. starts.kind = kind /\ starts.at = "lease"
    BY BackedNoOp DEF BackupTask
  <2>5. starts.age = 0 /\ starts.joined = None
    BY BackedNoOp DEF BackupTask
  <2> HIDE DEF starts
  <2> QED
    BY <1>1, <1>2, <2>1, <2>3, <2>4, <2>5, BackedStarted DEF BackedInv, BackupTypes
<1> QED
  BY <1>3, <1>4

LEMMA BackedTime == ASSUME BackedInv, Backed!Tick PROVE BackupTypes' /\ BackedHolds'
<1> DEFINE older(t) == [t EXCEPT !.age = t.age + 1]
<1>1. ASSUME NEW t \in BackupTask
      PROVE  /\ older(t) \in BackupTask /\ older(t).kind = t.kind /\ older(t).at = t.at
             /\ older(t).age = t.age + 1 /\ older(t).joined = t.joined
  <2>1. older(t) \in BackupTask
    BY DEF BackupTask
  <2> QED
    BY DEF BackupTask
<1>2. op' = [a \in Requests |-> IF Backed!Live(a) /\ op[a].age < Lease THEN older(op[a]) ELSE op[a]]
  BY DEF Backed!Tick
<1> HIDE DEF older
<1>3. \A a \in Requests : op[a] \in BackupTask /\ op[a].age \in Nat
  BY DEF BackedInv, BackupTypes, BackupTask
<1>4. /\ op' \in [Requests -> BackupTask]
      /\ \A a \in Requests : /\ op'[a].kind = op[a].kind /\ op'[a].at = op[a].at
                             /\ op'[a].joined = op[a].joined
                             /\ op'[a].age = IF Backed!Live(a) /\ op[a].age < Lease
                                            THEN op[a].age + 1 ELSE op[a].age
  BY <1>1, <1>2, <1>3
<1>5. /\ lease' \in [by : Requests \cup {None}, age : Nat] /\ lease'.by = lease.by
      /\ lease'.age \in {lease.age, lease.age + 1}
  BY DEF BackedInv, BackupTypes, Backed!Tick
<1>6. UNCHANGED <<made, timer, gone, row, job>>
  BY DEF Backed!Tick, Backed!disk, Backed!rows
<1>7. \A a \in Requests : Backed!Live(a) => op[a].age < Cap
  BY DEF Backed!Tick, Backed!HasDeadline
<1>8. Cap \in Nat /\ Lease \in Nat /\ Cap < Lease /\ lease.age \in Nat
  BY DEF BackedInv, Constants, Backed!CapBelowLease, BackupTypes
<1>9. BackupTypes'
  BY <1>4, <1>5, <1>6 DEF BackedInv, BackupTypes
<1>10. \A a \in Requests : Backed!Live(a) => op'[a].age = op[a].age + 1 /\ op'[a].age <= Cap
  BY <1>3, <1>4, <1>7, <1>8
<1> QED
  BY <1>3, <1>4, <1>5, <1>6, <1>8, <1>9, <1>10
  DEF BackedInv, BackedHolds, Past, Backed!InLease, Backed!Live

LEMMA BackedNext == ASSUME BackedInv, Backed!Next PROVE BackupTypes' /\ BackedHolds'
<1>1. CASE \E a \in Requests, kind \in {"backup", "scheduled", "delete", "on"}, f \in 0..2 :
             Backed!Request(a, kind, f)
  BY <1>1, BackedRequest
<1>2. CASE Backed!Crash
  <2>1. UNCHANGED <<made, timer, gone, row, lease>>
    BY <1>2 DEF Backed!Crash, Backed!disk, Backed!rows
  <2>2. op' = [a \in Requests |-> IF op[a].kind = "scheduled" THEN op[a] ELSE Backed!NoOp]
    BY <1>2 DEF Backed!Crash
  <2>3. job' = None
    BY <1>2 DEF Backed!Crash
  <2>4. op' \in [Requests -> BackupTask]
    BY <2>2, BackedNoOp DEF BackedInv, BackupTypes
  <2>5. \A a \in Requests : op'[a].kind # "joined" => op'[a].joined = None
    BY <2>2, BackedNoOp DEF BackedInv, BackupTypes
  <2>6. BackupTypes'
    BY <2>1, <2>3, <2>4, <2>5 DEF BackedInv, BackupTypes
  <2> QED
    BY <2>1, <2>2, <2>6, BackedNoOp DEF BackedInv, BackedHolds, Past, Backed!InLease, Backed!Live
<1>3. CASE Backed!Tick
  BY <1>3, BackedTime
<1>4. CASE \E f \in Backed!Files : Backed!BackupExpires(f)
  <2>1. UNCHANGED <<made, timer, gone, row, lease, op, job>>
    BY <1>4 DEF Backed!BackupExpires, Backed!rows
  <2> QED
    BY <2>1, BackedKept DEF BackedInv, BackupTypes, Stored, Rows
<1> QED
  BY <1>1, <1>2, <1>3, <1>4, BackedActor DEF Backed!Next

HangingInv == Constants /\ BackupTypes /\ HangingHolds

Edits(a) == op[a].kind \in {"on", "off", "teardown"} /\ op[a].at \in {"units", "save"}
Quiet == /\ lease' \in [by : Requests \cup {None}, age : Nat] /\ made' \in Nat
         /\ job' \in Requests \cup {None} /\ errors' = errors /\ deaths' = deaths
Switches == timer' = timer /\ gone' = gone /\ RowKept

LEMMA OneEdits ==
  ASSUME HangingInv, NEW a \in Requests, NEW b \in Requests, Edits(a), Edits(b)
  PROVE  a = b /\ mu = a
BY DEF HangingInv, HangingHolds, Edits

LEMMA HangingSame ==
  ASSUME HangingInv, op' \in [Requests -> BackupTask], Quiet, Switches, mu' = mu,
         \A b \in Requests : /\ op'[b].kind = op[b].kind /\ op'[b].at = op[b].at
                            /\ op'[b].joined = op[b].joined
  PROVE  BackupTypes' /\ HangingHolds'
<1>1. BackupTypes'
  BY DEF HangingInv, BackupTypes, Quiet, Switches, RowKept, Rows
<1> QED
  BY <1>1 DEF HangingInv, HangingHolds, Quiet, Switches, RowKept, Past, Hanging!EnabledIsTimed

\* The steps of the operations that do not hold the schedule's lock.
LEMMA HangingAside ==
  ASSUME HangingInv, NEW a \in Requests, op' \in [Requests -> BackupTask], Quiet, Switches,
         mu' = mu,
         ~Edits(a), ~Edits(a)', Past(a)' => row.enabled,
         op'[a].kind = "scheduled" => op[a].kind = "scheduled" \/ timer,
         op'[a].kind # "joined" => op'[a].joined = None,
         \A b \in Requests \ {a} : op'[b] = op[b]
  PROVE  BackupTypes' /\ HangingHolds'
<1>1. BackupTypes'
  BY DEF HangingInv, BackupTypes, Quiet, Switches, RowKept, Rows
<1>2. mu # a
  BY DEF HangingInv, HangingHolds, Edits
<1>3. \A b \in Requests : mu' = b <=> Edits(b)'
  BY <1>2 DEF HangingInv, HangingHolds, Edits
<1>4. \A b \in Requests : Past(b)' => row'.enabled
  BY DEF HangingInv, HangingHolds, Past, Switches, RowKept
<1>5. \A b \in Requests : op'[b].kind \in {"off", "teardown"} /\ op'[b].at = "save"
      /\ row'.enabled =>
        ~timer' /\ \A e \in Requests : op'[e].kind # "scheduled"
  <2> SUFFICES ASSUME NEW b \in Requests, op'[b].kind \in {"off", "teardown"}, op'[b].at = "save",
                      row'.enabled
               PROVE  ~timer' /\ \A e \in Requests : op'[e].kind # "scheduled"
    OBVIOUS
  <2>1. b # a
    BY DEF Edits
  <2>2. ~timer /\ \A e \in Requests : op[e].kind # "scheduled"
    BY <2>1 DEF HangingInv, HangingHolds, Switches, RowKept
  <2> QED
    BY <2>2 DEF Switches
<1>6. \A b \in Requests : op'[b].kind = "on" /\ op'[b].at = "save" => timer'
  BY DEF HangingInv, HangingHolds, Switches, Edits
<1>7. Hanging!EnabledIsTimed'
  BY <1>2 DEF HangingInv, HangingHolds, Hanging!EnabledIsTimed, Switches, RowKept
<1> QED
  BY <1>1, <1>3, <1>4, <1>5, <1>6, <1>7
  DEF HangingInv, HangingHolds, Quiet, Switches, RowKept, Edits

LEMMA HangingEnded ==
  ASSUME HangingInv, NEW a \in Requests, Finishes(a), Quiet, row' \in Rows, timer' \in BOOLEAN,
         gone' \in BOOLEAN, mu' = (IF mu = a THEN None ELSE mu),
         \/ Switches /\ mu # a
         \/ mu = a /\ ~row'.enabled /\ \A b \in Requests : ~Past(b)
         \/ mu = a /\ row'.enabled /\ timer /\ timer' /\ ~gone /\ ~gone'
  PROVE  BackupTypes' /\ HangingHolds'
<1>1. BackupTypes'
  BY DEF HangingInv, BackupTypes, Finishes, Quiet, Rows
<1>2. \A b \in Requests : op'[b].kind = "idle" \/ (b # a /\ op'[b] = op[b])
  BY DEF Finishes
<1>3. \A b \in Requests \ {a} : Edits(b)' <=> Edits(b)
  BY DEF Finishes, Edits
<1>4. ~Edits(a)' /\ a # None
  BY DEF Finishes, Edits, HangingInv, Constants
<1>5. \A b \in Requests : mu' = b <=> Edits(b)'
  BY <1>3, <1>4 DEF HangingInv, HangingHolds, Edits, Constants
<1>6. CASE Switches /\ mu # a
  <2>1. \A b \in Requests : Past(b)' => row'.enabled
    BY <1>2, <1>6 DEF HangingInv, HangingHolds, Past, Switches, RowKept
  <2>2. \A b \in Requests : op'[b].kind \in {"off", "teardown"} /\ op'[b].at = "save"
        /\ row'.enabled =>
          ~timer' /\ \A e \in Requests : op'[e].kind # "scheduled"
    BY <1>2, <1>6 DEF HangingInv, HangingHolds, Switches, RowKept
  <2>3. \A b \in Requests : op'[b].kind = "on" /\ op'[b].at = "save" => timer'
    BY <1>2, <1>6 DEF HangingInv, HangingHolds, Switches
  <2>4. Hanging!EnabledIsTimed'
    <3>1. ASSUME NEW b \in Requests, mu = b, op[b].kind \in {"off", "teardown"}
          PROVE  mu' = b /\ op'[b].kind \in {"off", "teardown"}
      <4>1. b # a
        BY <1>6, <3>1
      <4>2. Edits(b)
        BY <3>1 DEF HangingInv, HangingHolds, Edits
      <4> QED
        BY <1>6, <3>1, <4>1, <4>2 DEF Finishes, Edits
    <3> QED
      BY <1>6, <3>1 DEF HangingInv, HangingHolds, Hanging!EnabledIsTimed, Switches, RowKept
  <2> QED
    BY <1>1, <1>5, <1>6, <2>1, <2>2, <2>3, <2>4
    DEF HangingInv, HangingHolds, Quiet, Switches, RowKept, Edits
<1>7. CASE /\ mu = a
           /\ \/ ~row'.enabled /\ \A b \in Requests : ~Past(b)
              \/ row'.enabled /\ timer /\ timer' /\ ~gone /\ ~gone'
  <2>1. \A b \in Requests : ~Edits(b)'
    BY <1>3, <1>4, <1>7 DEF HangingInv, HangingHolds, Edits
  <2>2. \A b \in Requests : Past(b)' => row'.enabled
    BY <1>2, <1>7 DEF Past
  <2>3. Hanging!EnabledIsTimed'
    BY <1>7 DEF Hanging!EnabledIsTimed
  <2>4. \A b \in Requests : ~(op'[b].kind \in {"on", "off", "teardown"} /\ op'[b].at = "save")
    BY <2>1 DEF Edits
  <2> QED
    BY <1>1, <1>5, <1>7, <2>2, <2>3, <2>4 DEF HangingInv, HangingHolds, Quiet, Edits
<1> QED
  BY <1>6, <1>7

LEMMA HangingActor ==
  ASSUME HangingInv, NEW a \in Requests,
         Hanging!LeaseRefused(a) \/ Hanging!RunBackupReturns(a) \/ Hanging!RestoreBackup(a) \/
         Hanging!BackupNotFound(a) \/ Hanging!BackupFails(a) \/ Hanging!SaveBackupSchedule(a) \/
         Hanging!SaveFails(a) \/ Hanging!DeleteService(a) \/ Hanging!StepFails(a) \/
         Hanging!CreateTemp(a) \/ Hanging!CreateBackup(a) \/ Hanging!RecordStatus(a) \/
         Hanging!AcquireBackupLease(a) \/ Hanging!ReadSchedule(a) \/ Hanging!CommitBackupFile(a)
         \/ Hanging!DeleteBackup(a) \/ Hanging!ApplyRetention(a) \/ Hanging!TempAges(a) \/
         Hanging!TimerFires(a) \/ Hanging!Lock(a) \/ Hanging!Install(a) \/
         Hanging!DisableUnits(a)
  PROVE  BackupTypes' /\ HangingHolds'
<1>q. ASSUME NEW done, Hanging!Return(a, done), made' \in Nat, errors' = errors, deaths' = deaths,
             row' \in Rows, timer' \in BOOLEAN, gone' \in BOOLEAN,
             \/ Switches /\ mu # a
             \/ mu = a /\ ~row'.enabled /\ \A b \in Requests : ~Past(b)
             \/ mu = a /\ row'.enabled /\ timer /\ timer' /\ ~gone /\ ~gone'
      PROVE  BackupTypes' /\ HangingHolds'
  <2>1. Finishes(a)
    BY <1>q, HangingFinish DEF HangingInv, Hanging!Return
  <2>2. Quiet
    BY <1>q, <2>1 DEF Quiet, Finishes, HangingInv, BackupTypes, Hanging!Return,
                      Hanging!ReleaseBackupLease
  <2>3. mu' = IF mu = a THEN None ELSE mu
    BY <1>q DEF Hanging!Return
  <2> QED
    BY <1>q, <2>1, <2>2, <2>3, HangingEnded
<1>f. ASSUME UNCHANGED <<timer, gone, row>>
      PROVE Switches /\ row' \in Rows /\ timer' \in BOOLEAN /\ gone' \in BOOLEAN
  BY <1>f DEF HangingInv, BackupTypes, Switches, RowKept, Rows
<1>s. ASSUME NEW status \in {"none", "ok", "failed"}, Hanging!UpdateBackupStatus(a, status)
      PROVE  RowKept
  BY <1>s DEF HangingInv, BackupTypes, Rows, RowKept, Hanging!UpdateBackupStatus
<1>m. ~Edits(a) => mu # a
  BY DEF HangingInv, HangingHolds, Edits
<1>z. ~Hanging!Fail
  BY DEF HangingInv, HangingHolds, Hanging!Fail
<1>1. CASE Hanging!LeaseRefused(a)
  <2>1. Switches /\ row' \in Rows /\ timer' \in BOOLEAN /\ gone' \in BOOLEAN
    BY <1>f, <1>1 DEF Hanging!LeaseRefused, Hanging!rows
  <2>2. made' \in Nat /\ errors' = errors /\ deaths' = deaths
    BY <1>1 DEF HangingInv, BackupTypes, Hanging!LeaseRefused, Hanging!disk
  <2>3. ~Edits(a)
    BY <1>1 DEF Edits, Hanging!LeaseRefused, Hanging!At
  <2>4. PICK done \in BOOLEAN : Hanging!Return(a, done)
    BY <1>1 DEF Hanging!LeaseRefused
  <2> QED
    BY <1>q, <1>m, <2>1, <2>2, <2>3, <2>4
<1>2. CASE Hanging!RunBackupReturns(a)
  <2>1. Switches /\ row' \in Rows /\ timer' \in BOOLEAN /\ gone' \in BOOLEAN
    BY <1>f, <1>2 DEF Hanging!RunBackupReturns, Hanging!rows
  <2>2. made' \in Nat /\ errors' = errors /\ deaths' = deaths
    BY <1>2 DEF HangingInv, BackupTypes, Hanging!RunBackupReturns, Hanging!disk
  <2>3. ~Edits(a)
    BY <1>2 DEF Edits, Hanging!RunBackupReturns, Hanging!At
  <2>4. PICK done \in BOOLEAN : Hanging!Return(a, done)
    BY <1>2 DEF Hanging!RunBackupReturns
  <2> QED
    BY <1>q, <1>m, <2>1, <2>2, <2>3, <2>4
<1>3. CASE Hanging!RestoreBackup(a)
  <2>1. Switches /\ row' \in Rows /\ timer' \in BOOLEAN /\ gone' \in BOOLEAN
    BY <1>f, <1>3 DEF Hanging!RestoreBackup, Hanging!rows
  <2>2. made' \in Nat /\ errors' = errors /\ deaths' = deaths
    BY <1>3 DEF HangingInv, BackupTypes, Hanging!RestoreBackup, Hanging!disk
  <2>3. ~Edits(a)
    BY <1>3 DEF Edits, Hanging!RestoreBackup, Hanging!At
  <2>4. PICK done \in BOOLEAN : Hanging!Return(a, done)
    BY <1>3 DEF Hanging!RestoreBackup
  <2> QED
    BY <1>q, <1>m, <2>1, <2>2, <2>3, <2>4
<1>4. CASE Hanging!BackupNotFound(a)
  <2>1. Switches /\ row' \in Rows /\ timer' \in BOOLEAN /\ gone' \in BOOLEAN
    BY <1>f, <1>4 DEF Hanging!BackupNotFound, Hanging!rows
  <2>2. made' \in Nat /\ errors' = errors /\ deaths' = deaths
    BY <1>4 DEF HangingInv, BackupTypes, Hanging!BackupNotFound, Hanging!disk
  <2>3. ~Edits(a)
    BY <1>4 DEF Edits, Hanging!BackupNotFound, Hanging!At
  <2>4. PICK done \in BOOLEAN : Hanging!Return(a, done)
    BY <1>4 DEF Hanging!BackupNotFound
  <2> QED
    BY <1>q, <1>m, <2>1, <2>2, <2>3, <2>4
<1>5. CASE Hanging!BackupFails(a)
  <2>1. Switches /\ row' \in Rows /\ timer' \in BOOLEAN /\ gone' \in BOOLEAN
    <3>1. RowKept
      BY <1>s, <1>5 DEF HangingInv, BackupTypes, Rows, RowKept, Hanging!BackupFails
    <3> QED
      BY <1>5, <3>1 DEF HangingInv, BackupTypes, Switches, RowKept, Hanging!BackupFails
  <2>2. made' \in Nat /\ errors' = errors /\ deaths' = deaths
    BY <1>5, <1>z DEF HangingInv, BackupTypes, Hanging!BackupFails
  <2>3. ~Edits(a)
    BY <1>5 DEF Edits, Hanging!BackupFails
  <2> QED
    BY <1>5, <1>q, <1>m, <2>1, <2>2, <2>3 DEF Hanging!BackupFails
<1>6. CASE Hanging!SaveBackupSchedule(a)
  <2>1. mu = a /\ op[a].at = "save" /\ op[a].kind \in {"on", "off"} /\ ~gone
    BY <1>6 DEF HangingInv, HangingHolds, Hanging!SaveBackupSchedule
  <2>2. made' \in Nat /\ errors' = errors /\ deaths' = deaths /\ timer' = timer /\ gone' = gone
    BY <1>6 DEF HangingInv, BackupTypes, Hanging!SaveBackupSchedule, Hanging!disk
  <2>3. timer' \in BOOLEAN /\ gone' \in BOOLEAN
    BY <2>2 DEF HangingInv, BackupTypes
  <2>4. row' = [row EXCEPT !.saved = TRUE, !.enabled = (op[a].kind = "on")]
    BY <1>6 DEF Hanging!SaveBackupSchedule
  <2>5. CASE op[a].kind = "on"
    <3>1. row' = [row EXCEPT !.saved = TRUE, !.enabled = TRUE]
      BY <2>4, <2>5
    <3>2. row' \in Rows /\ row'.enabled
      BY <3>1 DEF HangingInv, BackupTypes, Rows
    <3>3. timer
      BY <2>1, <2>5 DEF HangingInv, HangingHolds
    <3>4. mu = a /\ row'.enabled /\ timer /\ timer' /\ ~gone /\ ~gone'
      BY <2>1, <2>2, <3>2, <3>3
    <3>5. Hanging!Return(a, TRUE)
      BY <1>6 DEF Hanging!SaveBackupSchedule
    <3> QED
      BY <1>q, <2>2, <2>3, <3>2, <3>4, <3>5
  <2>6. CASE op[a].kind = "off"
    <3>1. row' = [row EXCEPT !.saved = TRUE, !.enabled = FALSE]
      BY <2>4, <2>6
    <3>2. row' \in Rows /\ ~row'.enabled
      BY <3>1 DEF HangingInv, BackupTypes, Rows
    <3>3. \A b \in Requests : ~Past(b)
      BY <2>1, <2>6 DEF HangingInv, HangingHolds, Past
    <3> QED
      BY <1>6, <1>q, <2>1, <2>2, <2>3, <3>2, <3>3 DEF Hanging!SaveBackupSchedule
  <2> QED
    BY <2>1, <2>5, <2>6
<1>7. CASE Hanging!SaveFails(a)
  <2>1. mu = a /\ gone
    BY <1>7, <1>z DEF HangingInv, HangingHolds, Hanging!SaveFails, Hanging!At
  <2>2. timer' = FALSE /\ UNCHANGED <<row, gone, made, errors, deaths>>
    BY <1>7, <1>z DEF Hanging!SaveFails, Hanging!disk, Hanging!rows
  <2>3. row' \in Rows /\ ~row'.enabled /\ \A b \in Requests : ~Past(b)
    BY <2>1, <2>2 DEF HangingInv, HangingHolds, BackupTypes, Rows
  <2>4. made' \in Nat /\ gone' \in BOOLEAN /\ timer' \in BOOLEAN
    BY <2>2 DEF HangingInv, BackupTypes
  <2> QED
    BY <1>7, <1>q, <2>1, <2>2, <2>3, <2>4 DEF Hanging!SaveFails
<1>8. CASE Hanging!DeleteService(a)
  <2>1. mu = a /\ op[a].at = "save" /\ op[a].kind = "teardown"
    BY <1>8 DEF HangingInv, HangingHolds, Hanging!DeleteService, Hanging!At
  <2>2. \A b \in Requests : ~Past(b)
    BY <2>1 DEF HangingInv, HangingHolds, Past
  <2>3. row' \in Rows /\ ~row'.enabled
    BY <1>8 DEF Rows, Hanging!DeleteService, Hanging!NoRow
  <2>4. Finishes(a)
    BY <1>8, HangingFinish DEF HangingInv, Hanging!DeleteService
  <2>5. Quiet /\ mu' = None /\ gone' \in BOOLEAN /\ timer' \in BOOLEAN
    BY <1>8, <2>4 DEF Finishes, Quiet, HangingInv, BackupTypes, Hanging!DeleteService, Hanging!disk
  <2> QED
    BY <2>1, <2>2, <2>3, <2>4, <2>5, HangingEnded
<1>9. CASE Hanging!StepFails(a)
  BY <1>9, <1>z DEF Hanging!StepFails
<1>10. CASE Hanging!CreateTemp(a)
  <2>1. Switches
    BY <1>f, <1>10 DEF Hanging!CreateTemp, Hanging!rows
  <2>2. Continues(a, "dump")
    BY <1>10, HangingGoto DEF HangingInv, BackupStages, Hanging!CreateTemp
  <2>3. Quiet /\ mu' = mu
    BY <1>10 DEF Quiet, HangingInv, BackupTypes, Hanging!CreateTemp, Hanging!disk
  <2>4. ~Edits(a) /\ ~Edits(a)' /\ (Past(a)' => Past(a))
    BY <1>10, <2>2 DEF Edits, Past, Continues, Hanging!CreateTemp
  <2>5. Past(a)' => row.enabled
    BY <2>4 DEF HangingInv, HangingHolds
  <2> QED
    BY <2>1, <2>2, <2>3, <2>4, <2>5, HangingAside DEF Continues, HangingInv, BackupTypes
<1>11. CASE Hanging!CreateBackup(a)
  <2>1. Switches
    BY <1>f, <1>11 DEF Hanging!CreateBackup, Hanging!rows
  <2>2. Continues(a, "status")
    BY <1>11, HangingGoto DEF HangingInv, BackupStages, Hanging!CreateBackup
  <2>3. Quiet /\ mu' = mu
    BY <1>11 DEF Quiet, HangingInv, BackupTypes, Hanging!CreateBackup, Hanging!disk
  <2>4. ~Edits(a) /\ ~Edits(a)' /\ (Past(a)' => Past(a))
    BY <1>11, <2>2 DEF Edits, Past, Continues, Hanging!CreateBackup
  <2>5. Past(a)' => row.enabled
    BY <2>4 DEF HangingInv, HangingHolds
  <2> QED
    BY <2>1, <2>2, <2>3, <2>4, <2>5, HangingAside DEF Continues, HangingInv, BackupTypes
<1>12. CASE Hanging!RecordStatus(a)
  <2>1. Switches
    BY <1>s, <1>12 DEF Switches, Hanging!RecordStatus
  <2>2. Continues(a, "retention")
    BY <1>12, HangingGoto DEF HangingInv, BackupStages, Hanging!RecordStatus
  <2>3. Quiet /\ mu' = mu
    BY <1>12 DEF Quiet, HangingInv, BackupTypes, Hanging!RecordStatus, Hanging!disk
  <2>4. ~Edits(a) /\ ~Edits(a)' /\ (Past(a)' => Past(a))
    BY <1>12, <2>2 DEF Edits, Past, Continues, Hanging!RecordStatus
  <2>5. Past(a)' => row.enabled
    BY <2>4 DEF HangingInv, HangingHolds
  <2> QED
    BY <2>1, <2>2, <2>3, <2>4, <2>5, HangingAside DEF Continues, HangingInv, BackupTypes
<1>13. CASE Hanging!AcquireBackupLease(a)
  <2>1. Switches
    BY <1>f, <1>13 DEF Hanging!AcquireBackupLease, Hanging!rows
  <2>2. Continues(a, "start")
    BY <1>13, HangingGoto DEF HangingInv, BackupStages, Hanging!AcquireBackupLease
  <2>3. Quiet /\ mu' = mu
    BY <1>13 DEF Quiet, HangingInv, BackupTypes, Hanging!AcquireBackupLease, Hanging!disk
  <2>4. ~Edits(a) /\ ~Edits(a)' /\ (Past(a)' => Past(a))
    BY <1>13, <2>2 DEF Edits, Past, Continues, Hanging!AcquireBackupLease
  <2>5. Past(a)' => row.enabled
    BY <2>4 DEF HangingInv, HangingHolds
  <2> QED
    BY <2>1, <2>2, <2>3, <2>4, <2>5, HangingAside DEF Continues, HangingInv, BackupTypes
<1>14. CASE Hanging!ReadSchedule(a)
  <2>1. Switches /\ row' \in Rows /\ timer' \in BOOLEAN /\ gone' \in BOOLEAN
    BY <1>f, <1>14 DEF Hanging!ReadSchedule, Hanging!rows
  <2>2. made' \in Nat /\ errors' = errors /\ deaths' = deaths
    BY <1>14 DEF HangingInv, BackupTypes, Hanging!ReadSchedule, Hanging!disk
  <2>3. ~Edits(a)
    BY <1>14 DEF Edits, Hanging!ReadSchedule
  <2>4. CASE Hanging!ScheduleDisabled(a)
    BY <1>14, <1>q, <1>m, <2>1, <2>2, <2>3, <2>4 DEF Hanging!ReadSchedule
  <2>5. CASE ~Hanging!ScheduleDisabled(a)
    <3>1. /\ op' = [op EXCEPT ![a].at = "temp", ![a].enabled = row.enabled]
          /\ op[a].kind \in {"backup", "scheduled"} /\ UNCHANGED <<lease, mu, job>>
      BY <1>14, <2>5 DEF Hanging!ReadSchedule
    <3>2. Continues(a, "temp")
      BY <3>1, EnabledRead DEF HangingInv
    <3>3. Past(a)' => row.enabled
      BY <2>5, <3>2 DEF Hanging!ScheduleDisabled, Past, Continues
    <3>4. Quiet /\ ~Edits(a)'
      BY <2>2, <3>1, <3>2 DEF Quiet, Edits, Continues, HangingInv, BackupTypes
    <3> QED
      BY <2>1, <2>3, <3>1, <3>2, <3>3, <3>4, HangingAside DEF Continues, HangingInv, BackupTypes
  <2> QED
    BY <2>4, <2>5
<1>15. CASE Hanging!CommitBackupFile(a)
  <2>1. Switches
    BY <1>f, <1>15 DEF Hanging!CommitBackupFile, Hanging!rows
  <2>2. made' \in Nat
    BY <1>15 DEF HangingInv, BackupTypes, Hanging!CommitBackupFile
  <2>3. /\ op' = [op EXCEPT ![a].at = "record", ![a].f = made']
        /\ op[a].kind \in {"backup", "scheduled"} /\ op[a].at = "dump"
        /\ UNCHANGED <<lease, mu, job, errors, deaths>>
    BY <1>15 DEF Hanging!CommitBackupFile
  <2>4. Continues(a, "record")
    BY <2>2, <2>3, FileNamed DEF HangingInv
  <2>5. ~Edits(a) /\ ~Edits(a)' /\ (Past(a)' => row.enabled)
    BY <2>3, <2>4 DEF Edits, Past, Continues, HangingInv, HangingHolds
  <2>6. Quiet
    BY <2>2, <2>3 DEF Quiet, HangingInv, BackupTypes
  <2> QED
    BY <2>1, <2>3, <2>4, <2>5, <2>6, HangingAside DEF Continues, HangingInv, BackupTypes
<1>16. CASE Hanging!DeleteBackup(a)
  <2>1. Switches /\ row' \in Rows /\ timer' \in BOOLEAN /\ gone' \in BOOLEAN
    BY <1>f, <1>16 DEF Hanging!DeleteBackup
  <2>2. made' \in Nat /\ errors' = errors /\ deaths' = deaths /\ ~Edits(a)
    BY <1>16 DEF HangingInv, BackupTypes, Edits, Hanging!DeleteBackup, Hanging!At
  <2>3. CASE UNCHANGED <<op, lease, mu, job>>
    <3>1. Quiet
      BY <2>2, <2>3 DEF Quiet, HangingInv, BackupTypes
    <3> QED
      BY <2>1, <2>3, <3>1, HangingSame DEF HangingInv, BackupTypes
  <2>4. CASE Hanging!Return(a, TRUE)
    BY <1>q, <1>m, <2>1, <2>2, <2>4
  <2> QED
    BY <1>16, <2>3, <2>4 DEF Hanging!DeleteBackup
<1>17. CASE Hanging!ApplyRetention(a) \/ Hanging!TempAges(a)
  <2>1. Switches
    BY <1>f, <1>17 DEF Hanging!ApplyRetention, Hanging!TempAges, Hanging!rows
  <2>2. UNCHANGED <<op, lease, mu, job, made, errors, deaths>>
    BY <1>17 DEF Hanging!ApplyRetention, Hanging!TempAges
  <2> QED
    BY <2>1, <2>2, HangingSame DEF Quiet, HangingInv, BackupTypes
<1>18. CASE Hanging!TimerFires(a)
  <2>1. Switches
    BY <1>f, <1>18 DEF Hanging!TimerFires, Hanging!rows
  <2> DEFINE run == [Hanging!NoOp EXCEPT !.kind = "scheduled", !.at = "lease"]
  <2>2. op' = [op EXCEPT ![a] = run] /\ op[a].kind = "idle" /\ timer /\ mu' = mu
    BY <1>18 DEF Hanging!TimerFires
  <2>3. run \in BackupTask /\ run.kind = "scheduled" /\ run.at = "lease"
    BY HangingNoOp DEF BackupTask, BackupKinds, BackupStages
  <2>4. run.joined = None
    BY HangingNoOp DEF BackupTask
  <2> HIDE DEF run
  <2>5. /\ op' \in [Requests -> BackupTask] /\ op'[a] = run
        /\ \A b \in Requests \ {a} : op'[b] = op[b]
    BY <2>2, <2>3 DEF HangingInv, BackupTypes
  <2>6. Quiet
    BY <1>18 DEF Quiet, HangingInv, BackupTypes, Hanging!TimerFires, Hanging!disk
  <2>7. ~Edits(a) /\ ~Edits(a)' /\ ~Past(a)'
    BY <2>2, <2>3, <2>5 DEF Edits, Past
  <2> QED
    BY <2>1, <2>2, <2>3, <2>4, <2>5, <2>6, <2>7, HangingAside
<1>19. CASE Hanging!Lock(a)
  <2>1. Switches
    BY <1>f, <1>19 DEF Hanging!Lock, Hanging!rows
  <2>2. Continues(a, "units")
    BY <1>19, HangingGoto DEF HangingInv, BackupStages, Hanging!Lock
  <2>3. /\ op[a].kind \in {"on", "off", "teardown"} /\ mu = None /\ mu' = a
        /\ UNCHANGED <<lease, made, job, errors, deaths>>
    BY <1>19 DEF Hanging!Lock, Hanging!disk
  <2>4. BackupTypes'
    BY <2>1, <2>2, <2>3 DEF HangingInv, BackupTypes, Switches, RowKept, Rows, Continues
  <2>5. \A b \in Requests : ~Edits(b)
    BY <2>3 DEF HangingInv, HangingHolds, Edits, Constants
  <2>6. \A b \in Requests : mu' = b <=> Edits(b)'
    BY <2>2, <2>3, <2>5 DEF Edits, Continues
  <2>7. \A b \in Requests : Past(b)' => row'.enabled
    BY <2>1, <2>2, <2>3 DEF HangingInv, HangingHolds, Past, Continues, Switches, RowKept
  <2>8. \A b \in Requests : ~(op'[b].kind \in {"on", "off", "teardown"} /\ op'[b].at = "save")
    BY <2>2, <2>5 DEF Edits, Continues
  <2>9. row.enabled => timer
    BY <2>3 DEF HangingInv, HangingHolds, Hanging!EnabledIsTimed, Constants
  <2>10. Hanging!EnabledIsTimed'
    BY <2>1, <2>9 DEF Hanging!EnabledIsTimed, Switches, RowKept
  <2> QED
    BY <2>1, <2>3, <2>4, <2>6, <2>7, <2>8, <2>10
       DEF HangingInv, HangingHolds, Edits, Switches, RowKept
<1>20. CASE Hanging!Install(a)
  <2>1. Continues(a, "save") /\ op[a].kind = "on" /\ Edits(a)
    BY <1>20, HangingGoto DEF HangingInv, BackupStages, Edits, Hanging!Install, Hanging!At
  <2>2. timer' = TRUE /\ UNCHANGED <<row, gone, mu, lease, made, job, errors, deaths>>
    BY <1>20 DEF Hanging!Install, Hanging!disk, Hanging!rows
  <2>3. BackupTypes'
    BY <2>1, <2>2 DEF HangingInv, BackupTypes, Continues
  <2>4. \A b \in Requests : Edits(b) => b = a
    BY <2>1, OneEdits
  <2>5. \A b \in Requests : mu' = b <=> Edits(b)'
    BY <2>1, <2>2 DEF HangingInv, HangingHolds, Edits, Continues
  <2>6. \A b \in Requests : Past(b)' => row'.enabled
    BY <2>1, <2>2 DEF HangingInv, HangingHolds, Past, Continues
  <2>7. \A b \in Requests : ~(op'[b].kind \in {"off", "teardown"} /\ op'[b].at = "save")
    BY <2>1, <2>4 DEF Edits, Continues
  <2>8. Hanging!EnabledIsTimed'
    BY <2>2 DEF Hanging!EnabledIsTimed
  <2> QED
    BY <2>2, <2>3, <2>5, <2>6, <2>7, <2>8 DEF HangingInv, HangingHolds, Edits
<1>21. CASE Hanging!DisableUnits(a)
  <2>1. /\ op[a].kind \in {"off", "teardown"} /\ op[a].at = "units" /\ Edits(a)
        /\ UNCHANGED <<row, gone, mu, lease, made, job, errors, deaths>>
    BY <1>21 DEF Edits, Hanging!DisableUnits, Hanging!disk, Hanging!rows
  <2>2. mu = a /\ \A b \in Requests : Edits(b) => b = a
    BY <2>1, OneEdits
  <2>3. CASE row.enabled
    <3>1. /\ timer' = FALSE
          /\ op' = [b \in Requests |-> IF b = a THEN [op[b] EXCEPT !.at = "save"]
                                       ELSE IF op[b].kind = "scheduled" THEN Hanging!NoOp ELSE op[b]]
      BY <1>21, <2>3 DEF Hanging!DisableUnits, Hanging!Disable, Hanging!StopUnit
    <3> DEFINE next == [op[a] EXCEPT !.at = "save"]
    <3>2. next \in BackupTask /\ next.at = "save" /\ next.kind = op[a].kind
          /\ next.joined = op[a].joined
      BY DEF HangingInv, BackupTypes, BackupTask, BackupStages
    <3>3. op' = [b \in Requests |-> IF b = a THEN next
                                   ELSE IF op[b].kind = "scheduled" THEN Hanging!NoOp ELSE op[b]]
      BY <3>1
    <3> HIDE DEF next
    <3>4. op' \in [Requests -> BackupTask] /\ op'[a] = next
      BY <3>2, <3>3, HangingNoOp DEF HangingInv, BackupTypes
    <3>5. \A b \in Requests \ {a} : /\ op'[b] = op[b] \/ op'[b] = Hanging!NoOp
                                   /\ op'[b].kind # "scheduled"
      BY <3>3, HangingNoOp
    <3>6. BackupTypes'
      BY <2>1, <3>1, <3>2, <3>4, <3>5, HangingNoOp DEF HangingInv, BackupTypes
    <3>7. \A b \in Requests : op'[b].kind # "scheduled"
      BY <2>1, <3>2, <3>4, <3>5
    <3>8. \A b \in Requests : Edits(b)' <=> b = a
      BY <2>1, <2>2, <3>2, <3>4, <3>5, HangingNoOp DEF Edits
    <3>9. \A b \in Requests : ~(op'[b].kind = "on" /\ op'[b].at = "save")
      BY <2>1, <3>2, <3>4, <3>8 DEF Edits
    <3>10. mu' = a /\ op'[a].kind \in {"off", "teardown"}
      BY <2>1, <2>2, <3>2, <3>4
    <3>11. Hanging!EnabledIsTimed'
      BY <3>10 DEF Hanging!EnabledIsTimed
    <3> QED
      BY <2>1, <2>2, <3>1, <3>6, <3>7, <3>8, <3>9, <3>11
      DEF HangingInv, HangingHolds, Edits, Past
  <2>4. CASE ~row.enabled
    <3>1. Continues(a, "save") /\ timer' = timer
      BY <1>21, <2>4, HangingGoto DEF HangingInv, BackupStages, Hanging!DisableUnits
    <3>2. BackupTypes'
      BY <2>1, <3>1 DEF HangingInv, BackupTypes, Continues
    <3>3. \A b \in Requests : mu' = b <=> Edits(b)'
      BY <2>1, <3>1 DEF HangingInv, HangingHolds, Edits, Continues
    <3>4. \A b \in Requests : Past(b)' => row'.enabled
      BY <2>1, <3>1 DEF HangingInv, HangingHolds, Past, Continues
    <3>5. \A b \in Requests : ~(op'[b].kind = "on" /\ op'[b].at = "save")
      BY <2>1, <2>2, <3>1 DEF Edits, Continues
    <3>6. Hanging!EnabledIsTimed' /\ ~row'.enabled
      BY <2>1, <2>4 DEF Hanging!EnabledIsTimed
    <3> QED
      BY <2>1, <3>2, <3>3, <3>4, <3>5, <3>6 DEF HangingInv, HangingHolds, Edits
  <2> QED
    BY <2>3, <2>4
<1> QED
  BY <1>1, <1>2, <1>3, <1>4, <1>5, <1>6, <1>7, <1>8, <1>9, <1>10, <1>11, <1>12, <1>13, <1>14,
     <1>15, <1>16, <1>17, <1>18, <1>19, <1>20, <1>21

LEMMA HangingRequest ==
  ASSUME HangingInv, NEW a \in Requests, NEW f \in Nat,
         NEW kind \in BackupKinds, Hanging!Request(a, kind, f)
  PROVE  BackupTypes' /\ HangingHolds'
<1>1. Switches /\ mu' = mu /\ op[a].kind = "idle"
  BY DEF HangingInv, BackupTypes, Switches, RowKept, Rows, Hanging!Request, Hanging!rows
<1>2. Quiet
  BY DEF Quiet, HangingInv, BackupTypes, Hanging!Request, Hanging!disk
<1>3. kind \notin {"scheduled", "joined"}
  BY DEF Hanging!Request, Hanging!Web
<1>4. CASE Hanging!RunningJob(kind)
  <2> DEFINE waits == [Hanging!NoOp EXCEPT !.kind = "joined", !.asked = kind, !.joined = job]
  <2>1. op' = [op EXCEPT ![a] = waits]
    BY <1>4 DEF Hanging!Request
  <2>2. job \in Requests
    BY <1>4 DEF HangingInv, BackupTypes, Hanging!RunningJob
  <2>3. waits \in BackupTask
    BY HangingNoOp, <2>2 DEF BackupTask, BackupKinds
  <2>4. waits.kind = "joined"
    BY HangingNoOp DEF BackupTask
  <2> HIDE DEF waits
  <2>5. op' \in [Requests -> BackupTask] /\ op'[a] = waits
        /\ \A b \in Requests \ {a} : op'[b] = op[b]
    BY <2>1, <2>3 DEF HangingInv, BackupTypes
  <2>6. ~Edits(a) /\ ~Edits(a)' /\ ~Past(a)'
    BY <1>1, <2>4, <2>5 DEF Edits, Past
  <2> QED
    BY <1>1, <1>2, <2>4, <2>5, <2>6, HangingAside
<1>5. CASE ~Hanging!RunningJob(kind)
  <2> DEFINE starts == [Hanging!NoOp EXCEPT !.kind = kind, !.at = "lease", !.f = f, !.asked = kind]
  <2>1. op' = [op EXCEPT ![a] = starts]
    BY <1>5 DEF Hanging!Request
  <2>2. "lease" \in BackupStages
    BY DEF BackupStages
  <2>3. starts \in BackupTask
    BY HangingNoOp, <2>2 DEF BackupTask
  <2>4. starts.kind = kind /\ starts.at = "lease"
    BY HangingNoOp DEF BackupTask
  <2>5. starts.joined = None
    BY HangingNoOp DEF BackupTask
  <2> HIDE DEF starts
  <2>6. op' \in [Requests -> BackupTask] /\ op'[a] = starts
        /\ \A b \in Requests \ {a} : op'[b] = op[b]
    BY <2>1, <2>3 DEF HangingInv, BackupTypes
  <2>7. ~Edits(a) /\ ~Edits(a)' /\ ~Past(a)'
    BY <1>1, <1>3, <2>4, <2>6 DEF Edits, Past
  <2> QED
    BY <1>1, <1>2, <1>3, <2>4, <2>5, <2>6, <2>7, HangingAside
<1> QED
  BY <1>4, <1>5

LEMMA HangingTime == ASSUME HangingInv, Hanging!Tick PROVE BackupTypes' /\ HangingHolds'
<1> DEFINE older(t) == [t EXCEPT !.age = t.age + 1]
<1>1. ASSUME NEW t \in BackupTask
      PROVE  /\ older(t) \in BackupTask /\ older(t).kind = t.kind /\ older(t).at = t.at
             /\ older(t).joined = t.joined
  <2>1. older(t) \in BackupTask
    BY DEF BackupTask
  <2> QED
    BY DEF BackupTask
<1>2. op' = [a \in Requests |-> IF Hanging!Live(a)
      /\ op[a].age < Lease THEN older(op[a]) ELSE op[a]]
  BY DEF Hanging!Tick
<1> HIDE DEF older
<1>3. \A a \in Requests : op[a] \in BackupTask
  BY DEF HangingInv, BackupTypes
<1>4. /\ op' \in [Requests -> BackupTask]
      /\ \A a \in Requests : /\ op'[a].kind = op[a].kind /\ op'[a].at = op[a].at
                             /\ op'[a].joined = op[a].joined
  BY <1>1, <1>2, <1>3
<1>5. lease' \in [by : Requests \cup {None}, age : Nat]
  BY DEF HangingInv, BackupTypes, Hanging!Tick
<1>6. UNCHANGED <<made, timer, gone, row, job, mu, errors, deaths>>
  BY DEF Hanging!Tick, Hanging!disk, Hanging!rows
<1>7. Quiet /\ Switches
  BY <1>5, <1>6 DEF Quiet, Switches, RowKept, Rows, HangingInv, BackupTypes
<1> QED
  BY <1>4, <1>6, <1>7, HangingSame

LEMMA HangingNext == ASSUME HangingInv, Hanging!Next PROVE BackupTypes' /\ HangingHolds'
<1>1. CASE \E a \in Requests, kind \in {"backup", "scheduled", "restore", "on", "off", "teardown"},
              f \in 0..1 : Hanging!Request(a, kind, f)
  BY <1>1, HangingRequest DEF BackupKinds
<1>2. CASE Hanging!Crash
  BY <1>2 DEF HangingInv, HangingHolds, Hanging!Crash
<1>3. CASE Hanging!Tick
  BY <1>3, HangingTime
<1>4. CASE \E f \in Hanging!Files : Hanging!BackupExpires(f)
  <2>1. UNCHANGED <<made, timer, gone, row, lease, op, job, mu, errors, deaths>>
    BY <1>4 DEF Hanging!BackupExpires, Hanging!rows
  <2> QED
    BY <2>1, HangingSame DEF Quiet, Switches, RowKept, Rows, HangingInv, BackupTypes
<1> QED
  BY <1>1, <1>2, <1>3, <1>4, HangingActor DEF Hanging!Next

LEMMA BackupsInit ==
  ASSUME Constants, Backed!Init
         PROVE BackupTypes /\ BackedHolds /\ (errors \in Nat /\ deaths \in Nat => HangingHolds)
<1>1. op = [a \in Requests |-> Backed!NoOp] /\ row = Backed!NoRow /\ mu = None
  BY DEF Backed!Init
<1>2. row \in Rows /\ ~row.enabled
  BY <1>1 DEF Rows, Backed!NoRow
<1>3. BackupTypes
  BY <1>1, <1>2, BackedNoOp DEF Backed!Init, BackupTypes, Rows
<1>4. \A a \in Requests : op[a].kind = "idle"
  BY <1>1, BackedNoOp
<1>5. BackedHolds
  BY <1>4 DEF BackedHolds, Past, Backed!InLease, Backed!Live
<1>6. errors \in Nat /\ deaths \in Nat => HangingHolds
  BY <1>1, <1>2, <1>4 DEF HangingHolds, Past, Hanging!EnabledIsTimed, Constants
<1> QED
  BY <1>3, <1>5, <1>6

---------------------------------------------------------------------------
(* The suite *)

DatabasesInv ==
  /\ CredentialsInv
  /\ which = "leases" => LeasesInv
  /\ BackupTypes
  /\ which = "backed" => BackedHolds
  /\ which = "hanging" => HangingHolds

LEMMA DatabasesInit == ASSUME Constants, Init PROVE DatabasesInv
<1>1. which = "leases" => LeasesInv
  BY LeasesInit DEF Init
<1>2. errors \in Nat /\ deaths \in Nat
  BY DEF Init, Backed!Init
<1> QED
  BY <1>1, <1>2, CredentialsInit, BackupsInit DEF Init, DatabasesInv

LEMMA DatabasesStep == ASSUME Constants, DatabasesInv, [Next]_vars PROVE DatabasesInv'
<1>0. CredentialsInv'
  BY CredentialsStep DEF DatabasesInv
<1>1. CASE /\ UNCHANGED <<which, backup>> /\ (which = "leases" => Leases!Next)
  <2>1. which' = "leases" => LeasesInv'
    BY <1>1, LeasesNext DEF DatabasesInv
  <2> QED
    BY <1>0, <1>1, <2>1
    DEF DatabasesInv, backup, BackupTypes, BackedHolds, HangingHolds, Past,
        Backed!InLease, Backed!Live, Hanging!EnabledIsTimed
<1>2. CASE UNCHANGED <<which, managed>> /\ which = "backed" /\ Backed!Next
  BY <1>0, <1>2, BackedNext DEF DatabasesInv, BackedInv
<1>3. CASE UNCHANGED <<which, managed>> /\ which = "hanging" /\ Hanging!Next
  BY <1>0, <1>3, HangingNext DEF DatabasesInv, HangingInv
<1>4. CASE UNCHANGED <<which, managed, backup>>
  BY <1>0, <1>4
  DEF DatabasesInv, managed, backup, LeasesInv, LeaseTypes, DropNames, LeaseHeld,
      Leases!LeaseExcludes, BackupTypes, BackedHolds, HangingHolds, Past, Backed!InLease,
      Backed!Live, Hanging!EnabledIsTimed
<1> QED
  BY <1>1, <1>2, <1>3, <1>4 DEF Next, vars

LEMMA DatabasesAlways == Spec => []DatabasesInv
BY DatabasesInit, DatabasesStep, Constants, PTL DEF Spec

(* No two operations work on one database of the cluster, nor two on the   *)
(* backups of a service, with crashes, expiring leases and any deadline    *)
(* shorter than the lease.                                                 *)
THEOREM LeasesAreExclusive == Spec => []LeasesExclude
<1>1. DatabasesInv => LeasesExclude
  BY Constants
  DEF DatabasesInv, LeasesInv, BackedHolds, LeasesExclude, DatabaseLeaseExcludes,
      BackupLeaseExcludes, Backed!LeaseExcludes, Constants
<1> QED
  BY <1>1, DatabasesAlways, PTL

(* A scheduled run past its check works for an enabled schedule, and an    *)
(* enabled schedule has its timer unless an edit is switching it off.      *)
THEOREM SchedulesAndTimers == Spec => []SchedulesMatch
<1>1. DatabasesInv => SchedulesMatch
  BY DEF DatabasesInv, BackedHolds, HangingHolds, SchedulesMatch, ScheduledOnlyWhenEnabled,
         EnabledIsTimed, Past, Backed!ScheduledOnlyWhenEnabled, Hanging!ScheduledOnlyWhenEnabled
<1> QED
  BY <1>1, DatabasesAlways, PTL

---------------------------------------------------------------------------
(* The cluster's databases.  One invariant, Managed(C), for requests C of  *)
(* every kind, with failing steps and crashes, when the enable dialog is   *)
(* given one default user: what holds at each stage of each request, that  *)
(* the locked stages belong to the holder of the lock, and that the user   *)
(* psql logs in as exists and keeps its database, so that an answer "does  *)
(* not exist" speaks of the database asked for.                            *)

OneDefault == \A u, v \in Defaults : u = v

ManagedTypes ==
  /\ enabled \in BOOLEAN /\ running \in BOOLEAN
  /\ live \in [Names -> Names \cup {None}] /\ owner \in [Names -> Names \cup {None}]
  /\ roles \subseteq Names /\ users \subseteq Names
  /\ access \subseteq Names \X Names /\ grants \subseteq Names \X Names
  /\ rows \in [Names -> 0..MaxID] /\ lastID \in 0..MaxID
  /\ schedules \subseteq 1..MaxID /\ timers \subseteq 1..MaxID
  /\ backups \subseteq (1..MaxID) \X Names
RequestTypes(C) ==
  /\ leased \subseteq 1..MaxID /\ holder \in C \cup {None} /\ pc \in [C -> Task]

LoginKept ==
  /\ admin \in Defaults \cup {None} /\ env \in Defaults \cup {None}
  /\ login \in Defaults \cup {None}
  /\ enabled => admin # None /\ env # None
  /\ login # None => login \in roles /\ live[login] # None
  /\ running => login # None
  /\ roles # {} => login # None

LockStages == {"check", "cluster", "rows", "up", "database", "drop", "unrecord", "grant",
               "revoke"}
InLock(c) == pc[c].at \in LockStages \/ (pc[c].at = "record" /\ pc[c].op # "schedule")
Locked(C) == \A c \in C : InLock(c) => holder = c

RoomFor(c) ==
  /\ pc[c].op = "enable" /\ pc[c].at \in {"cluster", "rows"} =>
       rows[pc[c].u] # 0 \/ lastID < MaxID
  /\ pc[c].op = "create" /\ pc[c].at \in {"database", "record"} =>
       lastID < MaxID /\ rows[pc[c].d] = 0
Named(c) ==
  /\ pc[c].op = "enable" => pc[c].u \in Defaults
  /\ pc[c].op = "create" => pc[c].u \in Names /\ pc[c].d \in Names
  /\ pc[c].op = "drop" => pc[c].d \in Names
  /\ pc[c].op \in {"adduser", "grants"} => pc[c].u \in Names
  /\ pc[c].op = "deluser" => pc[c].u \in Names \ Defaults
NotDefault(c) ==
  /\ pc[c].op = "create" /\ pc[c].at \in {"database", "record"} /\ pc[c].mine =>
       pc[c].u \notin Defaults
  /\ pc[c].op = "create" /\ pc[c].at = "record" => pc[c].d \notin Defaults
  /\ pc[c].op = "adduser" /\ pc[c].at \in {"grant", "record"} => pc[c].u \notin Defaults
Started(c) ==
  /\ pc[c].op = "enable" /\ pc[c].at \in {"cluster", "rows", "up"} => env # None
  /\ pc[c].op = "start" => env # None
Gone(c) == pc[c].op = "drop" /\ pc[c].at = "unrecord" => live[pc[c].d] = None /\ login # None
LeaseNamed(c) ==
  /\ pc[c].at = "lease" => -pc[c].id \in 1..MaxID
  /\ pc[c].at = "leased" \/ (pc[c].op = "schedule" /\ pc[c].at = "record") =>
       pc[c].id \in 1..MaxID
Known(c) == RoomFor(c) /\ Named(c) /\ NotDefault(c) /\ Started(c) /\ Gone(c) /\ LeaseNamed(c)

Managed(C) ==
  /\ ManagedTypes /\ RequestTypes(C) /\ LoginKept /\ Locked(C) /\ \A c \in C : Known(c)

(* One request at a time, no failing step: what SQLite lists PostgreSQL    *)
(* has, but for what the request at hand has removed and not yet           *)
(* unrecorded; before the container was first created nothing is listed.   *)
At(op_, at_) == pc[r].op = op_ /\ pc[r].at = at_
Listed ==
  /\ \A d \in Names : rows[d] # 0 => live[d] # None \/ (At("drop", "unrecord") /\ d = pc[r].d)
  /\ \A u \in users : u \in roles \/ (At("deluser", "record") /\ u = pc[r].u)
  /\ \A g \in grants : g \in access \/ (At("drop", "unrecord") /\ g[2] = pc[r].d)
                       \/ (At("grants", "record") /\ g[1] = pc[r].u)
Fresh ==
  IF At("enable", "up")
  THEN /\ \A d \in Names : rows[d] # 0 => d \in Defaults
       /\ users \subseteq Defaults /\ grants \subseteq Defaults \X Defaults
       /\ rows[pc[r].u] # 0 /\ pc[r].u \in users
  ELSE (\A d \in Names : rows[d] = 0) /\ users = {} /\ grants = {}
Creating ==
  pc[r].op = "create" /\ pc[r].at \in {"database", "record"} =>
    /\ pc[r].u \in roles /\ (pc[r].mine => pc[r].u \notin users)
    /\ pc[r].at = "record" => live[pc[r].d] # None /\ <<pc[r].u, pc[r].d>> \in access
AddingUser ==
  pc[r].op = "adduser" /\ pc[r].at \in {"grant", "record"} =>
    /\ pc[r].u \in roles /\ pc[r].u \notin users
    /\ pc[r].at = "record" => \A d \in pc[r].g : <<pc[r].u, d>> \in access
Granting ==
  pc[r].op = "grants" =>
    /\ pc[r].u \in users /\ \A d \in Names : d \in pc[r].seen <=> <<pc[r].u, d>> \in grants
    /\ pc[r].at \in {"revoke", "record"} => \A d \in pc[r].g : <<pc[r].u, d>> \in access
Deleting ==
  pc[r].op = "deluser" =>
    pc[r].u \in users /\ (pc[r].at = "record" => \A g \in grants : g[1] # pc[r].u)
Working ==
  /\ enabled /\ ~At("enable", "rows") /\ ~At("enable", "up") => login # None
  /\ pc[r].op \notin {"idle", "enable", "disable"} => login # None
ClusterHolds ==
  /\ Working /\ (login = None => Fresh)
  /\ login # None => Listed /\ rows[login] # 0 /\ login \in users
  /\ Creating /\ AddingUser /\ Granting /\ Deleting

(* One request at a time, steps may fail: a database without a row is one  *)
(* that the request at hand has just created.                              *)
FailingHolds ==
  /\ pc[r].op \in {"idle", "enable", "create", "drop", "deluser", "schedule", "unschedule"}
  /\ pc[r].op = "create" /\ pc[r].at \in {"database", "record"} => running
  /\ At("enable", "up") => rows[pc[r].u] # 0
  /\ \A d \in Names : live[d] # None /\ rows[d] = 0 => At("create", "record") /\ d = pc[r].d

(* What a step does to the request: it goes on to its next stage or it     *)
(* returns, with its lock and its lease.                                   *)
Advances(C, c, stage) ==
  /\ pc' \in [C -> Task] /\ \A e \in C \ {c} : pc'[e] = pc[e]
  /\ pc'[c].at = stage /\ pc'[c].op = pc[c].op /\ pc'[c].u = pc[c].u /\ pc'[c].d = pc[c].d
  /\ pc'[c].g = pc[c].g /\ pc'[c].seen = pc[c].seen /\ pc'[c].id = pc[c].id
  /\ pc'[c].mine = pc[c].mine
Leaves(C, c) ==
  /\ pc' \in [C -> Task] /\ \A e \in C \ {c} : pc'[e] = pc[e]
  /\ pc'[c] = Failing!Idle
  /\ holder' = IF holder = c THEN None ELSE holder
  /\ leased' \subseteq leased
Steady == (env # None => env' # None) /\ (login # None => login' # None)
Guarded(c) ==
  holder = c \/ (UNCHANGED <<rows, lastID>> /\ (live' = live \/ login = None))

LEMMA IdleRequest ==
  /\ Failing!Idle \in Task /\ Failing!Idle.op = "idle" /\ Failing!Idle.at = "none"
  /\ Failing!Idle.id = 0
BY DEF Failing!Idle, Task, LeaseStages, Leases!Ops

LEMMA Advanced ==
  ASSUME NEW C, NEW c \in C, pc \in [C -> Task], NEW stage \in LeaseStages,
         Failing!Goto(c, stage)
  PROVE  Advances(C, c, stage)
<1> DEFINE next == [pc[c] EXCEPT !.at = stage]
<1>1. pc[c] \in Task /\ pc' = [pc EXCEPT ![c] = next]
  BY DEF Failing!Goto
<1>2. next \in Task
  BY <1>1 DEF Task
<1>3. next.at = stage /\ next.op = pc[c].op /\ next.u = pc[c].u /\ next.d = pc[c].d
  BY <1>1 DEF Task
<1>4. next.g = pc[c].g /\ next.seen = pc[c].seen /\ next.id = pc[c].id
      /\ next.mine = pc[c].mine
  BY <1>1 DEF Task
<1> HIDE DEF next
<1> QED
  BY <1>1, <1>2, <1>3, <1>4 DEF Advances

LEMMA Left ==
  ASSUME NEW C, NEW c \in C, pc \in [C -> Task], Failing!Return(c)
  PROVE  Leaves(C, c)
BY IdleRequest DEF Failing!Return, Leaves

(* What the other requests know stays known: rows, the row counter and the *)
(* live databases change only under the lock.                              *)
LEMMA OthersKnown ==
  ASSUME NEW C, None \notin C, Managed(C), NEW c \in C, NEW e \in C \ {c}, pc'[e] = pc[e],
         Steady, Guarded(c)
  PROVE  Known(e)' /\ (InLock(e)' => InLock(e))
<1>1. InLock(e)' => InLock(e)
  BY DEF InLock
<1>2. Known(e)
  BY DEF Managed
<1>3. Named(e)' /\ NotDefault(e)' /\ Started(e)' /\ LeaseNamed(e)'
  BY <1>2 DEF Known, Named, NotDefault, Started, LeaseNamed, Steady
<1>4. RoomFor(e)' /\ Gone(e)'
  <2>1. CASE UNCHANGED <<rows, lastID>> /\ (live' = live \/ login = None)
    BY <1>2, <2>1 DEF Known, RoomFor, Gone, Steady
  <2>2. CASE holder = c
    <3>1. ~InLock(e)
      BY <2>2 DEF Managed, Locked
    <3> QED
      BY <3>1 DEF InLock, LockStages, RoomFor, Gone
  <2> QED
    BY <2>1, <2>2 DEF Guarded
<1> QED
  BY <1>1, <1>3, <1>4 DEF Known

LEMMA ManagedLeaves ==
  ASSUME NEW C, None \notin C, Managed(C), NEW c \in C, Leaves(C, c), ManagedTypes', LoginKept',
         Steady, Guarded(c)
  PROVE  Managed(C)'
<1>1. RequestTypes(C)'
  BY DEF Managed, RequestTypes, Leaves
<1>2. \A e \in C \ {c} : Known(e)' /\ (InLock(e)' => InLock(e))
  BY OthersKnown DEF Leaves
<1>3. Known(c)' /\ ~InLock(c)'
  <2>1. pc'[c].op = "idle" /\ pc'[c].at = "none"
    BY IdleRequest DEF Leaves
  <2> QED
    BY <2>1 DEF Known, RoomFor, Named, NotDefault, Started, Gone, LeaseNamed, InLock, LockStages
<1>4. Locked(C)'
  BY <1>2, <1>3 DEF Managed, Locked, Leaves
<1> QED
  BY <1>1, <1>2, <1>3, <1>4 DEF Managed

LEMMA ManagedMoves ==
  ASSUME NEW C, None \notin C, Managed(C), NEW c \in C,
         pc' \in [C -> Task], \A e \in C \ {c} : pc'[e] = pc[e],
         leased' \subseteq 1..MaxID, holder' = holder \/ (holder = None /\ holder' = c),
         ManagedTypes', LoginKept', Steady, Guarded(c), Known(c)', InLock(c)' => holder' = c
  PROVE  Managed(C)'
<1>1. RequestTypes(C)'
  BY DEF Managed, RequestTypes
<1>2. \A e \in C \ {c} : Known(e)' /\ (InLock(e)' => InLock(e))
  BY OthersKnown
<1>4. Locked(C)'
  BY <1>2 DEF Managed, Locked
<1> QED
  BY <1>1, <1>2, <1>4 DEF Managed

LEMMA ManagedAdvances ==
  ASSUME NEW C, None \notin C, Managed(C), NEW c \in C, NEW stage, Advances(C, c, stage),
         leased' = leased, holder' = holder, ManagedTypes', LoginKept', Steady, Guarded(c),
         Known(c)', InLock(c)' => holder = c
  PROVE  Managed(C)'
BY ManagedMoves DEF Advances, Managed, RequestTypes

LEMMA DataKept ==
  ASSUME ManagedTypes, LoginKept,
         UNCHANGED <<Failing!cluster, Failing!postgres, Failing!sqlite, Failing!backupState>>
  PROVE  ManagedTypes' /\ LoginKept' /\ Steady
BY DEF ManagedTypes, LoginKept, Steady, Failing!cluster, Failing!postgres, Failing!sqlite,
       Failing!backupState

(* docker compose up finds a volume made for the one default user, or      *)
(* makes it.                                                               *)
LEMMA UpKeeps ==
  ASSUME Constants, OneDefault, ManagedTypes, LoginKept, env # None, Failing!Up,
         UNCHANGED <<Failing!sqlite, Failing!backupState>>
  PROVE  ManagedTypes' /\ LoginKept' /\ Steady /\ (live' = live \/ login = None)
<1>1. env \in Defaults /\ env \in Names /\ env \notin {None}
  BY DEF LoginKept, Constants, Leases!DefaultsAreNames
<1>2. /\ running' = TRUE /\ login' = env /\ UNCHANGED <<enabled, admin, env>>
      /\ UNCHANGED <<rows, owner, users, grants, lastID, schedules, timers, backups>>
  BY DEF Failing!Up, Failing!sqlite, Failing!backupState
<1>3. CASE roles = {}
  <2>1. /\ roles' = {env} /\ access' = {<<env, env>>} /\ live' = [live EXCEPT ![env] = env]
    BY <1>3 DEF Failing!Up
  <2>2. login = None
    BY <1>3 DEF LoginKept
  <2>3. ManagedTypes'
    BY <1>1, <1>2, <2>1 DEF ManagedTypes
  <2>4. live'[env] # None /\ env \in roles'
    BY <1>1, <2>1 DEF ManagedTypes
  <2> QED
    BY <1>1, <1>2, <2>2, <2>3, <2>4 DEF LoginKept, Steady
<1>4. CASE roles # {}
  <2>1. UNCHANGED <<live, roles, access>>
    BY <1>4 DEF Failing!Up, Failing!postgres
  <2>2. login = env
    BY <1>1, <1>4 DEF LoginKept, OneDefault
  <2>3. ManagedTypes'
    BY <1>2, <2>1 DEF ManagedTypes
  <2> QED
    BY <1>1, <1>2, <2>1, <2>2, <2>3 DEF LoginKept, Steady
<1> QED
  BY <1>3, <1>4

(* A row is numbered, or set back to none.                                 *)
LEMMA RowNumbered ==
  ASSUME rows \in [Names -> 0..MaxID], lastID \in 0..MaxID, lastID < MaxID, Constants, NEW d
  PROVE  [rows EXCEPT ![d] = lastID + 1] \in [Names -> 0..MaxID] /\ lastID + 1 \in 0..MaxID
<1>1. lastID + 1 \in 0..MaxID
  BY DEF Constants
<1> QED
  BY <1>1
LEMMA RowCleared ==
  ASSUME rows \in [Names -> 0..MaxID], Constants, NEW d
  PROVE  [rows EXCEPT ![d] = 0] \in [Names -> 0..MaxID]
<1>1. 0 \in 0..MaxID
  BY DEF Constants
<1> QED
  BY <1>1

LEMMA ClusterSteps ==
  ASSUME NEW C, None \notin C, Managed(C), NEW c \in C, OneDefault, Constants,
         Failing!EnableFiles(c) \/ Failing!EnableCluster(c) \/ Failing!EnableRows(c) \/
              Failing!EnableUp(c) \/ Failing!DisableStop(c) \/ Failing!DisableRecord(c) \/
              Failing!StartCluster(c) \/ Failing!StopCluster(c) \/ Failing!RestartCluster(c)
  PROVE  Managed(C)'
<1>0. ManagedTypes /\ LoginKept /\ Locked(C) /\ pc \in [C -> Task] /\ leased \subseteq 1..MaxID
      /\ Known(c) /\ pc[c] \in Task
  BY DEF Managed, RequestTypes
<1>1. CASE Failing!EnableFiles(c)
  <2>1. Advances(C, c, "cluster")
    BY <1>0, <1>1, Advanced DEF Failing!EnableFiles, LeaseStages
  <2>2. ManagedTypes'
    BY <1>0, <1>1 DEF ManagedTypes, Task, Known, Named, Failing!EnableFiles, Failing!At,
         Failing!cluster, Failing!postgres, Failing!sqlite, Failing!backupState
  <2>3. LoginKept' /\ Steady
    BY <1>0, <1>1 DEF ManagedTypes, LoginKept, Steady, Known, Named, NotDefault, Started,
         OneDefault, Failing!EnableFiles, Failing!At, Failing!cluster, Failing!postgres,
         Failing!sqlite, Failing!backupState
  <2>4. Guarded(c)
    BY <1>0, <1>1 DEF Guarded, Locked, InLock, LockStages, Failing!EnableFiles, Failing!At,
         Failing!cluster, Failing!postgres, Failing!sqlite, Failing!backupState
  <2>5. Known(c)'
    BY <1>0, <1>1, <2>1, Constants DEF Advances, Known, RoomFor, Named, NotDefault, Started, Gone,
         LeaseNamed, ManagedTypes, LoginKept, Failing!EnableFiles, Failing!At, Failing!cluster,
         Failing!postgres, Failing!sqlite, Failing!backupState, Failing!Room, Constants,
         Leases!DefaultsAreNames
  <2>6. leased' = leased /\ holder' = holder /\ (InLock(c)' => holder = c)
    BY <1>0, <1>1, <2>1 DEF Advances, Locked, InLock, LockStages, Failing!EnableFiles, Failing!At,
         Failing!cluster, Failing!postgres, Failing!sqlite, Failing!backupState
  <2> QED
    BY <2>1, <2>2, <2>3, <2>4, <2>5, <2>6, ManagedAdvances
<1>2. CASE Failing!EnableCluster(c)
  <2>1. Advances(C, c, "rows")
    BY <1>0, <1>2, Advanced DEF Failing!EnableCluster, LeaseStages
  <2>2. ManagedTypes'
    BY <1>0, <1>2 DEF ManagedTypes, Task, Known, Named, Failing!EnableCluster, Failing!At,
         Failing!cluster, Failing!postgres, Failing!sqlite, Failing!backupState
  <2>3. LoginKept' /\ Steady
    BY <1>0, <1>2 DEF ManagedTypes, LoginKept, Steady, Known, Named, NotDefault, Started,
         OneDefault, Failing!EnableCluster, Failing!At, Failing!cluster, Failing!postgres,
         Failing!sqlite, Failing!backupState
  <2>4. Guarded(c)
    BY <1>0, <1>2 DEF Guarded, Locked, InLock, LockStages, Failing!EnableCluster, Failing!At,
         Failing!cluster, Failing!postgres, Failing!sqlite, Failing!backupState
  <2>5. Known(c)'
    BY <1>0, <1>2, <2>1 DEF Advances, Known, RoomFor, Named, NotDefault, Started, Gone, LeaseNamed,
         ManagedTypes, LoginKept, Failing!EnableCluster, Failing!At, Failing!cluster,
         Failing!postgres, Failing!sqlite, Failing!backupState
  <2>6. leased' = leased /\ holder' = holder /\ (InLock(c)' => holder = c)
    BY <1>0, <1>2, <2>1 DEF Advances, Locked, InLock, LockStages, Failing!EnableCluster, Failing!At,
         Failing!cluster, Failing!postgres, Failing!sqlite, Failing!backupState
  <2> QED
    BY <2>1, <2>2, <2>3, <2>4, <2>5, <2>6, ManagedAdvances
<1>3. CASE Failing!EnableRows(c)
  <2>1. Advances(C, c, "up")
    BY <1>0, <1>3, Advanced DEF Failing!EnableRows, LeaseStages
  <2>2. ManagedTypes'
    <3>1. /\ pc[c].op = "enable" /\ pc[c].at = "rows" /\ pc[c].u \in Names
      BY <1>0, <1>3, Constants DEF Known, Named, Constants, Leases!DefaultsAreNames,
                           Failing!EnableRows, Failing!At
    <3>2. rows' \in [Names -> 0..MaxID] /\ lastID' \in 0..MaxID
      <4>1. CASE rows[pc[c].u] # 0
        BY <1>0, <1>3, <4>1 DEF ManagedTypes, Failing!EnableRows
      <4>2. CASE rows[pc[c].u] = 0
        <5>1. lastID < MaxID
          BY <1>0, <3>1, <4>2 DEF Known, RoomFor
        <5>2. lastID' = lastID + 1 /\ rows' = [rows EXCEPT ![pc[c].u] = lastID + 1]
          BY <1>3, <4>2 DEF Failing!EnableRows
        <5> QED
          BY <1>0, <5>1, <5>2, RowNumbered DEF ManagedTypes
      <4> QED
        BY <4>1, <4>2
    <3>3. /\ owner' \in [Names -> Names \cup {None}] /\ users' \subseteq Names
          /\ grants' \subseteq Names \X Names
      BY <1>0, <1>3, <3>1 DEF ManagedTypes, Failing!EnableRows
    <3>4. UNCHANGED <<enabled, running, live, roles, access, schedules, timers, backups>>
      BY <1>3 DEF Failing!EnableRows, Failing!cluster, Failing!postgres, Failing!backupState
    <3> QED
      BY <1>0, <3>2, <3>3, <3>4 DEF ManagedTypes
  <2>3. LoginKept' /\ Steady
    BY <1>0, <1>3 DEF ManagedTypes, LoginKept, Steady, Known, Named, NotDefault, Started,
         OneDefault, Failing!EnableRows, Failing!At, Failing!cluster, Failing!postgres,
         Failing!sqlite, Failing!backupState
  <2>4. Guarded(c)
    BY <1>0, <1>3 DEF Guarded, Locked, InLock, LockStages, Failing!EnableRows, Failing!At,
         Failing!cluster, Failing!postgres, Failing!sqlite, Failing!backupState
  <2>5. Known(c)'
    BY <1>0, <1>3, <2>1 DEF Advances, Known, RoomFor, Named, NotDefault, Started, Gone, LeaseNamed,
         ManagedTypes, LoginKept, Failing!EnableRows, Failing!At, Failing!cluster, Failing!postgres,
         Failing!sqlite, Failing!backupState
  <2>6. leased' = leased /\ holder' = holder /\ (InLock(c)' => holder = c)
    BY <1>0, <1>3, <2>1 DEF Advances, Locked, InLock, LockStages, Failing!EnableRows, Failing!At,
         Failing!cluster, Failing!postgres, Failing!sqlite, Failing!backupState
  <2> QED
    BY <2>1, <2>2, <2>3, <2>4, <2>5, <2>6, ManagedAdvances
<1>4. CASE Failing!EnableUp(c)
  <2>1. Leaves(C, c)
    BY <1>0, <1>4, Left DEF Failing!EnableUp
  <2>a. env # None /\ Failing!Up /\ UNCHANGED <<Failing!sqlite, Failing!backupState>>
    BY <1>0, <1>4 DEF Failing!EnableUp, Failing!At, Known, Started
  <2>2. ManagedTypes' /\ LoginKept' /\ Steady
    BY <1>0, <2>a, UpKeeps
  <2>4. Guarded(c)
    BY <1>0, <2>a, UpKeeps DEF Guarded, Failing!sqlite
  <2> QED
    BY <2>1, <2>2, <2>4, ManagedLeaves
<1>5. CASE Failing!DisableStop(c)
  <2>1. Advances(C, c, "record")
    BY <1>0, <1>5, Advanced DEF Failing!DisableStop, LeaseStages
  <2>2. ManagedTypes'
    BY <1>0, <1>5 DEF ManagedTypes, Task, Known, Named, Failing!DisableStop, Failing!At,
         Failing!cluster, Failing!postgres, Failing!sqlite, Failing!backupState
  <2>3. LoginKept' /\ Steady
    BY <1>0, <1>5 DEF ManagedTypes, LoginKept, Steady, Known, Named, NotDefault, Started,
         OneDefault, Failing!DisableStop, Failing!At, Failing!cluster, Failing!postgres,
         Failing!sqlite, Failing!backupState
  <2>4. Guarded(c)
    BY <1>0, <1>5 DEF Guarded, Locked, InLock, LockStages, Failing!DisableStop, Failing!At,
         Failing!cluster, Failing!postgres, Failing!sqlite, Failing!backupState
  <2>5. Known(c)'
    BY <1>0, <1>5, <2>1 DEF Advances, Known, RoomFor, Named, NotDefault, Started, Gone, LeaseNamed,
         ManagedTypes, LoginKept, Failing!DisableStop, Failing!At, Failing!cluster,
         Failing!postgres, Failing!sqlite, Failing!backupState
  <2>6. leased' = leased /\ holder' = holder /\ (InLock(c)' => holder = c)
    BY <1>0, <1>5, <2>1 DEF Advances, Locked, InLock, LockStages, Failing!DisableStop, Failing!At,
         Failing!cluster, Failing!postgres, Failing!sqlite, Failing!backupState
  <2> QED
    BY <2>1, <2>2, <2>3, <2>4, <2>5, <2>6, ManagedAdvances
<1>6. CASE Failing!DisableRecord(c)
  <2>1. Leaves(C, c)
    BY <1>0, <1>6, Left DEF Failing!DisableRecord
  <2>2. ManagedTypes'
    BY <1>0, <1>6 DEF ManagedTypes, Task, Known, Named, Failing!DisableRecord, Failing!At,
         Failing!cluster, Failing!postgres, Failing!sqlite, Failing!backupState
  <2>3. LoginKept' /\ Steady
    BY <1>0, <1>6 DEF ManagedTypes, LoginKept, Steady, Known, Named, NotDefault, Started,
         OneDefault, Failing!DisableRecord, Failing!At, Failing!cluster, Failing!postgres,
         Failing!sqlite, Failing!backupState
  <2>4. Guarded(c)
    BY <1>0, <1>6 DEF Guarded, Locked, InLock, LockStages, Failing!DisableRecord, Failing!At,
         Failing!cluster, Failing!postgres, Failing!sqlite, Failing!backupState
  <2> QED
    BY <2>1, <2>2, <2>3, <2>4, ManagedLeaves
<1>7. CASE Failing!StartCluster(c)
  <2>1. Leaves(C, c)
    BY <1>0, <1>7, Left DEF Failing!StartCluster
  <2>a. env # None /\ Failing!Up /\ UNCHANGED <<Failing!sqlite, Failing!backupState>>
    BY <1>0, <1>7 DEF Failing!StartCluster, Failing!At, Known, Started
  <2>2. ManagedTypes' /\ LoginKept' /\ Steady
    BY <1>0, <2>a, UpKeeps
  <2>4. Guarded(c)
    BY <1>0, <2>a, UpKeeps DEF Guarded, Failing!sqlite
  <2> QED
    BY <2>1, <2>2, <2>4, ManagedLeaves
<1>8. CASE Failing!StopCluster(c)
  <2>1. Leaves(C, c)
    BY <1>0, <1>8, Left DEF Failing!StopCluster
  <2>2. ManagedTypes'
    BY <1>0, <1>8 DEF ManagedTypes, Task, Known, Named, Failing!StopCluster, Failing!At,
         Failing!cluster, Failing!postgres, Failing!sqlite, Failing!backupState
  <2>3. LoginKept' /\ Steady
    BY <1>0, <1>8 DEF ManagedTypes, LoginKept, Steady, Known, Named, NotDefault, Started,
         OneDefault, Failing!StopCluster, Failing!At, Failing!cluster, Failing!postgres,
         Failing!sqlite, Failing!backupState
  <2>4. Guarded(c)
    BY <1>0, <1>8 DEF Guarded, Locked, InLock, LockStages, Failing!StopCluster, Failing!At,
         Failing!cluster, Failing!postgres, Failing!sqlite, Failing!backupState
  <2> QED
    BY <2>1, <2>2, <2>3, <2>4, ManagedLeaves
<1>9. CASE Failing!RestartCluster(c)
  <2>1. Leaves(C, c)
    BY <1>0, <1>9, Left DEF Failing!RestartCluster
  <2>2. ManagedTypes'
    BY <1>0, <1>9 DEF ManagedTypes, Task, Known, Named, Failing!RestartCluster, Failing!At,
         Failing!cluster, Failing!postgres, Failing!sqlite, Failing!backupState
  <2>3. LoginKept' /\ Steady
    BY <1>0, <1>9 DEF ManagedTypes, LoginKept, Steady, Known, Named, NotDefault, Started,
         OneDefault, Failing!RestartCluster, Failing!At, Failing!cluster, Failing!postgres,
         Failing!sqlite, Failing!backupState
  <2>4. Guarded(c)
    BY <1>0, <1>9 DEF Guarded, Locked, InLock, LockStages, Failing!RestartCluster, Failing!At,
         Failing!cluster, Failing!postgres, Failing!sqlite, Failing!backupState
  <2> QED
    BY <2>1, <2>2, <2>3, <2>4, ManagedLeaves
<1> QED
  BY <1>1, <1>2, <1>3, <1>4, <1>5, <1>6, <1>7, <1>8, <1>9

LEMMA DatabaseSteps ==
  ASSUME NEW C, None \notin C, Managed(C), NEW c \in C, OneDefault, Constants,
         Failing!CreateLive(c) \/ Failing!CreateRecord(c) \/ Failing!CreateUndo(c) \/
              Failing!DropLive(c) \/ Failing!DropRefused(c) \/ Failing!DropRecord(c)
  PROVE  Managed(C)'
<1>0. ManagedTypes /\ LoginKept /\ Locked(C) /\ pc \in [C -> Task] /\ leased \subseteq 1..MaxID
      /\ Known(c) /\ pc[c] \in Task
  BY DEF Managed, RequestTypes
<1>1. CASE Failing!CreateLive(c)
  <2>1. Advances(C, c, "record")
    BY <1>0, <1>1, Advanced DEF Failing!CreateLive, LeaseStages
  <2>2. ManagedTypes'
    BY <1>0, <1>1 DEF ManagedTypes, Task, Known, Named, Failing!CreateLive, Failing!At,
         Failing!cluster, Failing!postgres, Failing!sqlite, Failing!backupState
  <2>3. LoginKept' /\ Steady
    BY <1>0, <1>1 DEF ManagedTypes, LoginKept, Steady, Known, Named, NotDefault, Started,
         OneDefault, Failing!CreateLive, Failing!At, Failing!cluster, Failing!postgres,
         Failing!sqlite, Failing!backupState, Failing!Answers
  <2>4. Guarded(c)
    BY <1>0, <1>1 DEF Guarded, Locked, InLock, LockStages, Failing!CreateLive, Failing!At,
         Failing!cluster, Failing!postgres, Failing!sqlite, Failing!backupState
  <2>5. Known(c)'
    BY <1>0, <1>1, <2>1 DEF Advances, Known, RoomFor, Named, NotDefault, Started, Gone, LeaseNamed,
         ManagedTypes, LoginKept, Failing!CreateLive, Failing!At, Failing!cluster, Failing!postgres,
         Failing!sqlite, Failing!backupState, Failing!Answers, OneDefault
  <2>6. leased' = leased /\ holder' = holder /\ (InLock(c)' => holder = c)
    BY <1>0, <1>1, <2>1 DEF Advances, Locked, InLock, LockStages, Failing!CreateLive, Failing!At,
         Failing!cluster, Failing!postgres, Failing!sqlite, Failing!backupState
  <2> QED
    BY <2>1, <2>2, <2>3, <2>4, <2>5, <2>6, ManagedAdvances
<1>2. CASE Failing!CreateRecord(c)
  <2>1. Leaves(C, c)
    BY <1>0, <1>2, Left DEF Failing!CreateRecord
  <2>2. ManagedTypes'
    <3>1. /\ pc[c].u \in Names /\ pc[c].d \in Names /\ lastID < MaxID
      BY <1>0, <1>2 DEF Known, Named, RoomFor, Failing!CreateRecord, Failing!At
    <3>2. rows' \in [Names -> 0..MaxID] /\ lastID' \in 0..MaxID
      <4>1. lastID' = lastID + 1 /\ rows' = [rows EXCEPT ![pc[c].d] = lastID + 1]
        BY <1>2 DEF Failing!CreateRecord
      <4> QED
        BY <1>0, <3>1, <4>1, RowNumbered DEF ManagedTypes
    <3>3. /\ owner' \in [Names -> Names \cup {None}] /\ users' \subseteq Names
          /\ grants' \subseteq Names \X Names
      BY <1>0, <1>2, <3>1 DEF ManagedTypes, Failing!CreateRecord
    <3>4. UNCHANGED <<enabled, running, live, roles, access, schedules, timers, backups>>
      BY <1>2 DEF Failing!CreateRecord, Failing!cluster, Failing!postgres, Failing!backupState
    <3> QED
      BY <1>0, <3>2, <3>3, <3>4 DEF ManagedTypes
  <2>3. LoginKept' /\ Steady
    BY <1>0, <1>2 DEF ManagedTypes, LoginKept, Steady, Known, Named, NotDefault, Started,
         OneDefault, Failing!CreateRecord, Failing!At, Failing!cluster, Failing!postgres,
         Failing!sqlite, Failing!backupState
  <2>4. Guarded(c)
    BY <1>0, <1>2 DEF Guarded, Locked, InLock, LockStages, Failing!CreateRecord, Failing!At,
         Failing!cluster, Failing!postgres, Failing!sqlite, Failing!backupState
  <2> QED
    BY <2>1, <2>2, <2>3, <2>4, ManagedLeaves
<1>3. CASE Failing!CreateUndo(c)
  <2>1. Leaves(C, c)
    BY <1>0, <1>3, Left DEF Failing!CreateUndo
  <2>2. ManagedTypes'
    BY <1>0, <1>3 DEF ManagedTypes, Task, Known, Named, Failing!CreateUndo, Failing!At,
         Failing!cluster, Failing!postgres, Failing!sqlite, Failing!backupState
  <2>3. LoginKept' /\ Steady
    BY <1>0, <1>3 DEF ManagedTypes, LoginKept, Steady, Known, Named, NotDefault, Started,
         OneDefault, Failing!CreateUndo, Failing!At, Failing!cluster, Failing!postgres,
         Failing!sqlite, Failing!backupState
  <2>4. Guarded(c)
    BY <1>0, <1>3 DEF Guarded, Locked, InLock, LockStages, Failing!CreateUndo, Failing!At,
         Failing!cluster, Failing!postgres, Failing!sqlite, Failing!backupState
  <2> QED
    BY <2>1, <2>2, <2>3, <2>4, ManagedLeaves
<1>4. CASE Failing!DropLive(c)
  <2>1. Advances(C, c, "unrecord")
    BY <1>0, <1>4, Advanced DEF Failing!DropLive, LeaseStages
  <2>2. ManagedTypes'
    BY <1>0, <1>4 DEF ManagedTypes, Task, Known, Named, Failing!DropLive, Failing!At,
         Failing!cluster, Failing!postgres, Failing!sqlite, Failing!backupState
  <2>3. LoginKept' /\ Steady
    BY <1>0, <1>4 DEF ManagedTypes, LoginKept, Steady, Known, Named, NotDefault, Started,
         OneDefault, Failing!DropLive, Failing!At, Failing!cluster, Failing!postgres,
         Failing!sqlite, Failing!backupState, Failing!AlreadyGone, Failing!NoSuchRole,
         Failing!Answers
  <2>4. Guarded(c)
    BY <1>0, <1>4 DEF Guarded, Locked, InLock, LockStages, Failing!DropLive, Failing!At,
         Failing!cluster, Failing!postgres, Failing!sqlite, Failing!backupState
  <2>5. Known(c)'
    BY <1>0, <1>4, <2>1 DEF Advances, Known, RoomFor, Named, NotDefault, Started, Gone, LeaseNamed,
         ManagedTypes, LoginKept, Failing!DropLive, Failing!At, Failing!cluster, Failing!postgres,
         Failing!sqlite, Failing!backupState, Failing!AlreadyGone, Failing!NoSuchRole,
         Failing!Answers
  <2>6. leased' = leased /\ holder' = holder /\ (InLock(c)' => holder = c)
    BY <1>0, <1>4, <2>1 DEF Advances, Locked, InLock, LockStages, Failing!DropLive, Failing!At,
         Failing!cluster, Failing!postgres, Failing!sqlite, Failing!backupState
  <2> QED
    BY <2>1, <2>2, <2>3, <2>4, <2>5, <2>6, ManagedAdvances
<1>5. CASE Failing!DropRefused(c)
  <2>1. Leaves(C, c)
    BY <1>0, <1>5, Left DEF Failing!DropRefused
  <2>2. UNCHANGED <<Failing!cluster, Failing!postgres, Failing!sqlite, Failing!backupState>>
    BY <1>5 DEF Failing!DropRefused
  <2>3. ManagedTypes' /\ LoginKept' /\ Steady
    BY <1>0, <2>2, DataKept
  <2>4. Guarded(c)
    BY <2>2 DEF Guarded, Failing!postgres, Failing!sqlite
  <2> QED
    BY <2>1, <2>3, <2>4, ManagedLeaves
<1>6. CASE Failing!DropRecord(c)
  <2>1. Leaves(C, c)
    BY <1>0, <1>6, Left DEF Failing!DropRecord
  <2>2. ManagedTypes'
    <3>1. rows' = [rows EXCEPT ![pc[c].d] = 0] /\ owner' = [owner EXCEPT ![pc[c].d] = None]
      BY <1>6 DEF Failing!DropRecord, Failing!Unrecord
    <3>2. rows' \in [Names -> 0..MaxID] /\ owner' \in [Names -> Names \cup {None}]
      BY <1>0, <3>1, RowCleared DEF ManagedTypes
    <3>3. grants' \subseteq grants /\ schedules' \subseteq schedules /\ backups' \subseteq backups
      BY <1>6 DEF Failing!DropRecord, Failing!Unrecord
    <3>4. UNCHANGED <<enabled, running, live, roles, access, users, lastID, timers>>
      BY <1>6 DEF Failing!DropRecord, Failing!Unrecord, Failing!cluster, Failing!postgres
    <3> QED
      BY <1>0, <3>2, <3>3, <3>4 DEF ManagedTypes
  <2>3. LoginKept' /\ Steady
    BY <1>0, <1>6 DEF ManagedTypes, LoginKept, Steady, Known, Named, NotDefault, Started,
         OneDefault, Failing!DropRecord, Failing!At, Failing!cluster, Failing!postgres,
         Failing!sqlite, Failing!backupState, Failing!Unrecord
  <2>4. Guarded(c)
    BY <1>0, <1>6 DEF Guarded, Locked, InLock, LockStages, Failing!DropRecord, Failing!At,
         Failing!cluster, Failing!postgres, Failing!sqlite, Failing!backupState, Failing!Unrecord
  <2> QED
    BY <2>1, <2>2, <2>3, <2>4, ManagedLeaves
<1> QED
  BY <1>1, <1>2, <1>3, <1>4, <1>5, <1>6

LEMMA UserSteps ==
  ASSUME NEW C, None \notin C, Managed(C), NEW c \in C, OneDefault, Constants,
         Failing!UserRole(c) \/ Failing!UserGrants(c) \/ Failing!UserRecord(c) \/
              Failing!UserUndo(c) \/ Failing!GrantRecord(c) \/ Failing!DeleteRole(c) \/
              Failing!DeleteUserRecord(c)
  PROVE  Managed(C)'
<1>0. ManagedTypes /\ LoginKept /\ Locked(C) /\ pc \in [C -> Task] /\ leased \subseteq 1..MaxID
      /\ Known(c) /\ pc[c] \in Task
  BY DEF Managed, RequestTypes
<1>1. CASE Failing!UserRole(c)
  <2>1. Advances(C, c, "grant")
    BY <1>0, <1>1, Advanced DEF Failing!UserRole, LeaseStages
  <2>2. ManagedTypes'
    BY <1>0, <1>1 DEF ManagedTypes, Task, Known, Named, Failing!UserRole, Failing!At,
         Failing!cluster, Failing!postgres, Failing!sqlite, Failing!backupState
  <2>3. LoginKept' /\ Steady
    BY <1>0, <1>1 DEF ManagedTypes, LoginKept, Steady, Known, Named, NotDefault, Started,
         OneDefault, Failing!UserRole, Failing!At, Failing!cluster, Failing!postgres,
         Failing!sqlite, Failing!backupState, Failing!Answers
  <2>4. Guarded(c)
    BY <1>0, <1>1 DEF Guarded, Locked, InLock, LockStages, Failing!UserRole, Failing!At,
         Failing!cluster, Failing!postgres, Failing!sqlite, Failing!backupState
  <2>5. Known(c)'
    BY <1>0, <1>1, <2>1 DEF Advances, Known, RoomFor, Named, NotDefault, Started, Gone, LeaseNamed,
         ManagedTypes, LoginKept, Failing!UserRole, Failing!At, Failing!cluster, Failing!postgres,
         Failing!sqlite, Failing!backupState, Failing!Answers, OneDefault
  <2>6. leased' = leased /\ holder' = holder /\ (InLock(c)' => holder = c)
    BY <1>0, <1>1, <2>1 DEF Advances, Locked, InLock, LockStages, Failing!UserRole, Failing!At,
         Failing!cluster, Failing!postgres, Failing!sqlite, Failing!backupState
  <2> QED
    BY <2>1, <2>2, <2>3, <2>4, <2>5, <2>6, ManagedAdvances
<1>2. CASE Failing!UserGrants(c)
  <2>1. Advances(C, c, "record")
    BY <1>0, <1>2, Advanced DEF Failing!UserGrants, LeaseStages
  <2>2. ManagedTypes'
    BY <1>0, <1>2 DEF ManagedTypes, Task, Known, Named, Failing!UserGrants, Failing!At,
         Failing!cluster, Failing!postgres, Failing!sqlite, Failing!backupState, Failing!Granted
  <2>3. LoginKept' /\ Steady
    BY <1>0, <1>2 DEF ManagedTypes, LoginKept, Steady, Known, Named, NotDefault, Started,
         OneDefault, Failing!UserGrants, Failing!At, Failing!cluster, Failing!postgres,
         Failing!sqlite, Failing!backupState
  <2>4. Guarded(c)
    BY <1>0, <1>2 DEF Guarded, Locked, InLock, LockStages, Failing!UserGrants, Failing!At,
         Failing!cluster, Failing!postgres, Failing!sqlite, Failing!backupState
  <2>5. Known(c)'
    BY <1>0, <1>2, <2>1 DEF Advances, Known, RoomFor, Named, NotDefault, Started, Gone, LeaseNamed,
         ManagedTypes, LoginKept, Failing!UserGrants, Failing!At, Failing!cluster, Failing!postgres,
         Failing!sqlite, Failing!backupState
  <2>6. leased' = leased /\ holder' = holder /\ (InLock(c)' => holder = c)
    BY <1>0, <1>2, <2>1 DEF Advances, Locked, InLock, LockStages, Failing!UserGrants, Failing!At,
         Failing!cluster, Failing!postgres, Failing!sqlite, Failing!backupState
  <2> QED
    BY <2>1, <2>2, <2>3, <2>4, <2>5, <2>6, ManagedAdvances
<1>3. CASE Failing!UserRecord(c)
  <2>1. Leaves(C, c)
    BY <1>0, <1>3, Left DEF Failing!UserRecord
  <2>2. ManagedTypes'
    BY <1>0, <1>3 DEF ManagedTypes, Task, Known, Named, Failing!UserRecord, Failing!At,
         Failing!cluster, Failing!postgres, Failing!sqlite, Failing!backupState
  <2>3. LoginKept' /\ Steady
    BY <1>0, <1>3 DEF ManagedTypes, LoginKept, Steady, Known, Named, NotDefault, Started,
         OneDefault, Failing!UserRecord, Failing!At, Failing!cluster, Failing!postgres,
         Failing!sqlite, Failing!backupState
  <2>4. Guarded(c)
    BY <1>0, <1>3 DEF Guarded, Locked, InLock, LockStages, Failing!UserRecord, Failing!At,
         Failing!cluster, Failing!postgres, Failing!sqlite, Failing!backupState
  <2> QED
    BY <2>1, <2>2, <2>3, <2>4, ManagedLeaves
<1>4. CASE Failing!UserUndo(c)
  <2>1. Leaves(C, c)
    BY <1>0, <1>4, Left DEF Failing!UserUndo
  <2>2. ManagedTypes'
    BY <1>0, <1>4 DEF ManagedTypes, Task, Known, Named, Failing!UserUndo, Failing!At,
         Failing!cluster, Failing!postgres, Failing!sqlite, Failing!backupState, Failing!Granted,
         Failing!Missing
  <2>3. LoginKept' /\ Steady
    BY <1>0, <1>4 DEF ManagedTypes, LoginKept, Steady, Known, Named, NotDefault, Started,
         OneDefault, Failing!UserUndo, Failing!At, Failing!cluster, Failing!postgres,
         Failing!sqlite, Failing!backupState
  <2>4. Guarded(c)
    BY <1>0, <1>4 DEF Guarded, Locked, InLock, LockStages, Failing!UserUndo, Failing!At,
         Failing!cluster, Failing!postgres, Failing!sqlite, Failing!backupState
  <2> QED
    BY <2>1, <2>2, <2>3, <2>4, ManagedLeaves
<1>5. CASE Failing!GrantRecord(c)
  <2>1. Leaves(C, c)
    BY <1>0, <1>5, Left DEF Failing!GrantRecord
  <2>2. ManagedTypes'
    BY <1>0, <1>5 DEF ManagedTypes, Task, Known, Named, Failing!GrantRecord, Failing!At,
         Failing!cluster, Failing!postgres, Failing!sqlite, Failing!backupState
  <2>3. LoginKept' /\ Steady
    BY <1>0, <1>5 DEF ManagedTypes, LoginKept, Steady, Known, Named, NotDefault, Started,
         OneDefault, Failing!GrantRecord, Failing!At, Failing!cluster, Failing!postgres,
         Failing!sqlite, Failing!backupState
  <2>4. Guarded(c)
    BY <1>0, <1>5 DEF Guarded, Locked, InLock, LockStages, Failing!GrantRecord, Failing!At,
         Failing!cluster, Failing!postgres, Failing!sqlite, Failing!backupState
  <2> QED
    BY <2>1, <2>2, <2>3, <2>4, ManagedLeaves
<1>6. CASE Failing!DeleteRole(c)
  <2>1. Advances(C, c, "record")
    BY <1>0, <1>6, Advanced DEF Failing!DeleteRole, LeaseStages
  <2>2. ManagedTypes'
    BY <1>0, <1>6 DEF ManagedTypes, Task, Known, Named, Failing!DeleteRole, Failing!At,
         Failing!cluster, Failing!postgres, Failing!sqlite, Failing!backupState
  <2>3. LoginKept' /\ Steady
    BY <1>0, <1>6 DEF ManagedTypes, LoginKept, Steady, Known, Named, NotDefault, Started,
         OneDefault, Failing!DeleteRole, Failing!At, Failing!cluster, Failing!postgres,
         Failing!sqlite, Failing!backupState
  <2>4. Guarded(c)
    BY <1>0, <1>6 DEF Guarded, Locked, InLock, LockStages, Failing!DeleteRole, Failing!At,
         Failing!cluster, Failing!postgres, Failing!sqlite, Failing!backupState
  <2>5. Known(c)'
    BY <1>0, <1>6, <2>1 DEF Advances, Known, RoomFor, Named, NotDefault, Started, Gone, LeaseNamed,
         ManagedTypes, LoginKept, Failing!DeleteRole, Failing!At, Failing!cluster, Failing!postgres,
         Failing!sqlite, Failing!backupState
  <2>6. leased' = leased /\ holder' = holder /\ (InLock(c)' => holder = c)
    BY <1>0, <1>6, <2>1 DEF Advances, Locked, InLock, LockStages, Failing!DeleteRole, Failing!At,
         Failing!cluster, Failing!postgres, Failing!sqlite, Failing!backupState
  <2> QED
    BY <2>1, <2>2, <2>3, <2>4, <2>5, <2>6, ManagedAdvances
<1>7. CASE Failing!DeleteUserRecord(c)
  <2>1. Leaves(C, c)
    BY <1>0, <1>7, Left DEF Failing!DeleteUserRecord
  <2>2. ManagedTypes'
    BY <1>0, <1>7 DEF ManagedTypes, Task, Known, Named, Failing!DeleteUserRecord, Failing!At,
         Failing!cluster, Failing!postgres, Failing!sqlite, Failing!backupState
  <2>3. LoginKept' /\ Steady
    BY <1>0, <1>7 DEF ManagedTypes, LoginKept, Steady, Known, Named, NotDefault, Started,
         OneDefault, Failing!DeleteUserRecord, Failing!At, Failing!cluster, Failing!postgres,
         Failing!sqlite, Failing!backupState
  <2>4. Guarded(c)
    BY <1>0, <1>7 DEF Guarded, Locked, InLock, LockStages, Failing!DeleteUserRecord, Failing!At,
         Failing!cluster, Failing!postgres, Failing!sqlite, Failing!backupState
  <2> QED
    BY <2>1, <2>2, <2>3, <2>4, ManagedLeaves
<1> QED
  BY <1>1, <1>2, <1>3, <1>4, <1>5, <1>6, <1>7

LEMMA BackupSteps ==
  ASSUME NEW C, None \notin C, Managed(C), NEW c \in C, OneDefault, Constants,
         Failing!Refused(c) \/ Failing!LeaseRefused(c) \/ Failing!Install(c) \/
              Failing!ScheduleRecord(c) \/ Failing!ScheduleUndo(c) \/ Failing!Unschedule(c) \/
              Failing!RunBackup(c) \/ Failing!BackupFails(c) \/ Failing!RestoreBackup(c) \/
              Failing!StepFails(c)
  PROVE  Managed(C)'
<1>0. ManagedTypes /\ LoginKept /\ Locked(C) /\ pc \in [C -> Task] /\ leased \subseteq 1..MaxID
      /\ Known(c) /\ pc[c] \in Task
  BY DEF Managed, RequestTypes
<1>1. CASE Failing!Refused(c)
  <2>1. Leaves(C, c)
    BY <1>0, <1>1, Left DEF Failing!Refused
  <2>2. UNCHANGED <<Failing!cluster, Failing!postgres, Failing!sqlite, Failing!backupState>>
    BY <1>1 DEF Failing!Refused
  <2>3. ManagedTypes' /\ LoginKept' /\ Steady
    BY <1>0, <2>2, DataKept
  <2>4. Guarded(c)
    BY <2>2 DEF Guarded, Failing!postgres, Failing!sqlite
  <2> QED
    BY <2>1, <2>3, <2>4, ManagedLeaves
<1>2. CASE Failing!LeaseRefused(c)
  <2>1. Leaves(C, c)
    BY <1>0, <1>2, Left DEF Failing!LeaseRefused
  <2>2. UNCHANGED <<Failing!cluster, Failing!postgres, Failing!sqlite, Failing!backupState>>
    BY <1>2 DEF Failing!LeaseRefused
  <2>3. ManagedTypes' /\ LoginKept' /\ Steady
    BY <1>0, <2>2, DataKept
  <2>4. Guarded(c)
    BY <2>2 DEF Guarded, Failing!postgres, Failing!sqlite
  <2> QED
    BY <2>1, <2>3, <2>4, ManagedLeaves
<1>3. CASE Failing!Install(c)
  <2>1. Advances(C, c, "record")
    BY <1>0, <1>3, Advanced DEF Failing!Install, LeaseStages
  <2>2. ManagedTypes'
    BY <1>0, <1>3 DEF ManagedTypes, Task, Known, Named, Failing!Install, Failing!At,
         Failing!cluster, Failing!postgres, Failing!sqlite, Failing!backupState, LeaseNamed
  <2>3. LoginKept' /\ Steady
    BY <1>0, <1>3 DEF ManagedTypes, LoginKept, Steady, Known, Named, NotDefault, Started,
         OneDefault, Failing!Install, Failing!At, Failing!cluster, Failing!postgres, Failing!sqlite,
         Failing!backupState
  <2>4. Guarded(c)
    BY <1>0, <1>3 DEF Guarded, Locked, InLock, LockStages, Failing!Install, Failing!At,
         Failing!cluster, Failing!postgres, Failing!sqlite, Failing!backupState
  <2>5. Known(c)'
    BY <1>0, <1>3, <2>1 DEF Advances, Known, RoomFor, Named, NotDefault, Started, Gone, LeaseNamed,
         ManagedTypes, LoginKept, Failing!Install, Failing!At, Failing!cluster, Failing!postgres,
         Failing!sqlite, Failing!backupState
  <2>6. leased' = leased /\ holder' = holder /\ (InLock(c)' => holder = c)
    BY <1>0, <1>3, <2>1 DEF Advances, Locked, InLock, LockStages, Failing!Install, Failing!At,
         Failing!cluster, Failing!postgres, Failing!sqlite, Failing!backupState
  <2> QED
    BY <2>1, <2>2, <2>3, <2>4, <2>5, <2>6, ManagedAdvances
<1>4. CASE Failing!ScheduleRecord(c)
  <2>1. Leaves(C, c)
    BY <1>0, <1>4, Left DEF Failing!ScheduleRecord
  <2>2. ManagedTypes'
    BY <1>0, <1>4 DEF ManagedTypes, Task, Known, Named, Failing!ScheduleRecord, Failing!At,
         Failing!cluster, Failing!postgres, Failing!sqlite, Failing!backupState, LeaseNamed
  <2>3. LoginKept' /\ Steady
    BY <1>0, <1>4 DEF ManagedTypes, LoginKept, Steady, Known, Named, NotDefault, Started,
         OneDefault, Failing!ScheduleRecord, Failing!At, Failing!cluster, Failing!postgres,
         Failing!sqlite, Failing!backupState
  <2>4. Guarded(c)
    BY <1>0, <1>4 DEF Guarded, Locked, InLock, LockStages, Failing!ScheduleRecord, Failing!At,
         Failing!cluster, Failing!postgres, Failing!sqlite, Failing!backupState
  <2> QED
    BY <2>1, <2>2, <2>3, <2>4, ManagedLeaves
<1>5. CASE Failing!ScheduleUndo(c)
  <2>1. Leaves(C, c)
    BY <1>0, <1>5, Left DEF Failing!ScheduleUndo
  <2>2. ManagedTypes'
    BY <1>0, <1>5 DEF ManagedTypes, Task, Known, Named, Failing!ScheduleUndo, Failing!At,
         Failing!cluster, Failing!postgres, Failing!sqlite, Failing!backupState
  <2>3. LoginKept' /\ Steady
    BY <1>0, <1>5 DEF ManagedTypes, LoginKept, Steady, Known, Named, NotDefault, Started,
         OneDefault, Failing!ScheduleUndo, Failing!At, Failing!cluster, Failing!postgres,
         Failing!sqlite, Failing!backupState
  <2>4. Guarded(c)
    BY <1>0, <1>5 DEF Guarded, Locked, InLock, LockStages, Failing!ScheduleUndo, Failing!At,
         Failing!cluster, Failing!postgres, Failing!sqlite, Failing!backupState
  <2> QED
    BY <2>1, <2>2, <2>3, <2>4, ManagedLeaves
<1>6. CASE Failing!Unschedule(c)
  <2>1. Leaves(C, c)
    BY <1>0, <1>6, Left DEF Failing!Unschedule
  <2>2. ManagedTypes'
    BY <1>0, <1>6 DEF ManagedTypes, Task, Known, Named, Failing!Unschedule, Failing!At,
         Failing!cluster, Failing!postgres, Failing!sqlite, Failing!backupState
  <2>3. LoginKept' /\ Steady
    BY <1>0, <1>6 DEF ManagedTypes, LoginKept, Steady, Known, Named, NotDefault, Started,
         OneDefault, Failing!Unschedule, Failing!At, Failing!cluster, Failing!postgres,
         Failing!sqlite, Failing!backupState
  <2>4. Guarded(c)
    BY <1>0, <1>6 DEF Guarded, Locked, InLock, LockStages, Failing!Unschedule, Failing!At,
         Failing!cluster, Failing!postgres, Failing!sqlite, Failing!backupState
  <2> QED
    BY <2>1, <2>2, <2>3, <2>4, ManagedLeaves
<1>7. CASE Failing!RunBackup(c)
  <2>1. Leaves(C, c)
    BY <1>0, <1>7, Left DEF Failing!RunBackup
  <2>2. ManagedTypes'
    BY <1>0, <1>7, Constants DEF ManagedTypes, Task, Known, Named, Failing!RunBackup, Failing!At,
         Failing!cluster, Failing!postgres, Failing!sqlite, Failing!backupState, LeaseNamed,
         LoginKept, Failing!Answers
  <2>3. LoginKept' /\ Steady
    BY <1>0, <1>7 DEF ManagedTypes, LoginKept, Steady, Known, Named, NotDefault, Started,
         OneDefault, Failing!RunBackup, Failing!At, Failing!cluster, Failing!postgres,
         Failing!sqlite, Failing!backupState
  <2>4. Guarded(c)
    BY <1>0, <1>7 DEF Guarded, Locked, InLock, LockStages, Failing!RunBackup, Failing!At,
         Failing!cluster, Failing!postgres, Failing!sqlite, Failing!backupState
  <2> QED
    BY <2>1, <2>2, <2>3, <2>4, ManagedLeaves
<1>8. CASE Failing!BackupFails(c)
  <2>1. Leaves(C, c)
    BY <1>0, <1>8, Left DEF Failing!BackupFails
  <2>2. UNCHANGED <<Failing!cluster, Failing!postgres, Failing!sqlite, Failing!backupState>>
    BY <1>8 DEF Failing!BackupFails
  <2>3. ManagedTypes' /\ LoginKept' /\ Steady
    BY <1>0, <2>2, DataKept
  <2>4. Guarded(c)
    BY <2>2 DEF Guarded, Failing!postgres, Failing!sqlite
  <2> QED
    BY <2>1, <2>3, <2>4, ManagedLeaves
<1>9. CASE Failing!RestoreBackup(c)
  <2>1. Leaves(C, c)
    BY <1>0, <1>9, Left DEF Failing!RestoreBackup
  <2>2. UNCHANGED <<Failing!cluster, Failing!postgres, Failing!sqlite, Failing!backupState>>
    BY <1>9 DEF Failing!RestoreBackup
  <2>3. ManagedTypes' /\ LoginKept' /\ Steady
    BY <1>0, <2>2, DataKept
  <2>4. Guarded(c)
    BY <2>2 DEF Guarded, Failing!postgres, Failing!sqlite
  <2> QED
    BY <2>1, <2>3, <2>4, ManagedLeaves
<1>10. CASE Failing!StepFails(c)
  <2>1. Leaves(C, c)
    BY <1>0, <1>10, Left DEF Failing!StepFails
  <2>2. UNCHANGED <<Failing!cluster, Failing!postgres, Failing!sqlite, Failing!backupState>>
    BY <1>10 DEF Failing!StepFails
  <2>3. ManagedTypes' /\ LoginKept' /\ Steady
    BY <1>0, <2>2, DataKept
  <2>4. Guarded(c)
    BY <2>2 DEF Guarded, Failing!postgres, Failing!sqlite
  <2> QED
    BY <2>1, <2>3, <2>4, ManagedLeaves
<1> QED
  BY <1>1, <1>2, <1>3, <1>4, <1>5, <1>6, <1>7, <1>8, <1>9, <1>10

LEMMA LockSteps ==
  ASSUME NEW C, None \notin C, Managed(C), NEW c \in C, OneDefault, Constants,
         Failing!Lock(c) \/ Failing!CreateRole(c) \/ Failing!DropLease(c) \/ Failing!TakeLease(c)
  PROVE  Managed(C)'
<1>0. ManagedTypes /\ LoginKept /\ Locked(C) /\ pc \in [C -> Task] /\ leased \subseteq 1..MaxID
      /\ Known(c) /\ pc[c] \in Task
  BY DEF Managed, RequestTypes
<1>1. CASE Failing!Lock(c)
  <2>1. Advances(C, c, "check")
    BY <1>0, <1>1, Advanced DEF Failing!Lock, LeaseStages
  <2>2. UNCHANGED <<Failing!cluster, Failing!postgres, Failing!sqlite, Failing!backupState>>
    BY <1>1 DEF Failing!Lock
  <2>3. ManagedTypes' /\ LoginKept' /\ Steady
    BY <1>0, <2>2, DataKept
  <2>4. Guarded(c)
    BY <2>2 DEF Guarded, Failing!postgres, Failing!sqlite
  <2>5. Known(c)'
    BY <1>0, <2>1, <2>2
    DEF Advances, Known, RoomFor, Named, NotDefault, Started, Gone, LeaseNamed, Failing!cluster
  <2>6. holder = None /\ holder' = c /\ leased' = leased
    BY <1>1 DEF Failing!Lock
  <2> QED
    BY <1>0, <2>1, <2>3, <2>4, <2>5, <2>6, ManagedMoves DEF Advances
<1>2. CASE Failing!CreateRole(c)
  <2> DEFINE mine == pc[c].u \notin roles
             next == [pc[c] EXCEPT !.at = "database", !.mine = mine]
  <2>1. mine \in BOOLEAN /\ pc' = [pc EXCEPT ![c] = next] /\ "database" \in LeaseStages
    BY <1>2 DEF Failing!CreateRole, LeaseStages
  <2>m. mine = (pc[c].u \notin roles)
    OBVIOUS
  <2> HIDE DEF mine
  <2>2. next \in Task
    BY <1>0, <2>1 DEF Task
  <2>3. next.at = "database" /\ next.op = pc[c].op /\ next.u = pc[c].u /\ next.d = pc[c].d
    BY <1>0, <2>1 DEF Task
  <2>4. next.id = pc[c].id /\ next.mine = mine
    BY <1>0, <2>1 DEF Task
  <2> HIDE DEF next
  <2>5. /\ pc' \in [C -> Task] /\ \A e \in C \ {c} : pc'[e] = pc[e]
        /\ pc'[c] = next
    BY <1>0, <2>1, <2>2
  <2>6. /\ pc[c].op = "create" /\ pc[c].at = "check" /\ rows[pc[c].d] = 0 /\ Failing!Answers
        /\ lastID < MaxID /\ roles' = roles \cup {pc[c].u}
        /\ UNCHANGED <<enabled, admin, env, login, running, live, access, rows, owner, users,
                       grants, lastID, schedules, timers, backups, leased, holder>>
    BY <1>2 DEF Failing!CreateRole, Failing!At, Failing!cluster, Failing!sqlite,
                Failing!backupState
  <2>7. ManagedTypes' /\ LoginKept' /\ Steady /\ Guarded(c)
    BY <1>0, <2>6 DEF ManagedTypes, LoginKept, Steady, Guarded, Known, Named, Failing!Answers
  <2>8. pc[c].u \notin roles => pc[c].u \notin Defaults
    BY <1>0, <2>6 DEF LoginKept, OneDefault, Failing!Answers
  <2>9. Known(c)'
    BY <1>0, <2>3, <2>4, <2>5, <2>6, <2>8, <2>m
    DEF Known, RoomFor, Named, NotDefault, Started, Gone, LeaseNamed
  <2>10. holder = c
    BY <1>0, <2>6 DEF Locked, InLock, LockStages
  <2> QED
    BY <1>0, <2>5, <2>6, <2>7, <2>9, <2>10, ManagedMoves
<1>3. ASSUME NEW stage \in {"drop", "leased"}, NEW id \in 1..MaxID,
             pc' = [pc EXCEPT ![c].at = stage, ![c].id = id],
             leased' = leased \cup {id},
             UNCHANGED <<Failing!cluster, Failing!postgres, Failing!sqlite, Failing!backupState>>,
             holder' = holder, stage = "drop" => holder = c
      PROVE  Managed(C)'
  <2> DEFINE next == [pc[c] EXCEPT !.at = stage, !.id = id]
  <2>1. id \in Int /\ stage \in LeaseStages
    BY <1>3 DEF LeaseStages
  <2>b. pc' = [pc EXCEPT ![c] = next]
    BY <1>3
  <2>2. next \in Task
    BY <1>0, <2>1 DEF Task
  <2>3. next.at = stage /\ next.op = pc[c].op /\ next.u = pc[c].u /\ next.d = pc[c].d
    BY <1>0, <2>1 DEF Task
  <2>4. next.id = id /\ next.mine = pc[c].mine
    BY <1>0, <2>1 DEF Task
  <2> HIDE DEF next
  <2>5. /\ pc' \in [C -> Task] /\ \A e \in C \ {c} : pc'[e] = pc[e]
        /\ pc'[c] = next
    BY <1>0, <2>b, <2>2
  <2>6. ManagedTypes' /\ LoginKept' /\ Steady
    BY <1>0, <1>3, DataKept
  <2>7. Guarded(c)
    BY <1>3 DEF Guarded, Failing!postgres, Failing!sqlite
  <2>8. env' = env
    BY <1>3 DEF Failing!cluster
  <2>9. Known(c)'
    BY <1>0, <2>3, <2>4, <2>5, <2>8
    DEF Known, RoomFor, Named, NotDefault, Started, Gone, LeaseNamed
  <2>10. InLock(c)' => holder' = c
    BY <1>3, <2>3, <2>5 DEF InLock, LockStages
  <2>11. leased' \subseteq 1..MaxID
    BY <1>0, <1>3
  <2> QED
    BY <1>0, <1>3, <2>5, <2>6, <2>7, <2>9, <2>10, <2>11, ManagedMoves
<1>4. CASE Failing!DropLease(c)
  <2> DEFINE id == rows[pc[c].d]
  <2>1. pc[c].op = "drop" /\ pc[c].at = "check" /\ id # 0
    BY <1>4 DEF Failing!DropLease, Failing!At
  <2>2. id \in 1..MaxID
    BY <1>0, <2>1 DEF ManagedTypes, Known, Named
  <2>3. holder = c
    BY <1>0, <2>1 DEF Locked, InLock, LockStages
  <2>4. /\ pc' = [pc EXCEPT ![c].at = "drop", ![c].id = id]
        /\ leased' = leased \cup {id} /\ holder' = holder
        /\ UNCHANGED <<Failing!cluster, Failing!postgres, Failing!sqlite, Failing!backupState>>
    BY <1>4 DEF Failing!DropLease
  <2> HIDE DEF id
  <2> QED
    BY <1>3, <2>2, <2>3, <2>4
<1>5. CASE Failing!TakeLease(c)
  <2> DEFINE id == -pc[c].id
  <2>1. id \in 1..MaxID
    BY <1>0, <1>5 DEF Known, LeaseNamed, Failing!TakeLease
  <2>2. /\ pc' = [pc EXCEPT ![c].at = "leased", ![c].id = id]
        /\ leased' = leased \cup {id} /\ holder' = holder
        /\ UNCHANGED <<Failing!cluster, Failing!postgres, Failing!sqlite, Failing!backupState>>
    BY <1>5 DEF Failing!TakeLease
  <2> HIDE DEF id
  <2> QED
    BY <1>3, <2>1, <2>2
<1> QED
  BY <1>1, <1>2, <1>4, <1>5

LEMMA GrantSteps ==
  ASSUME NEW C, None \notin C, Managed(C), NEW c \in C, OneDefault, Constants,
         Failing!GrantNew(c) \/ Failing!RevokeOld(c)
  PROVE  Managed(C)'
<1>0. ManagedTypes /\ LoginKept /\ Locked(C) /\ pc \in [C -> Task] /\ Known(c) /\ pc[c] \in Task
  BY DEF Managed, RequestTypes
<1>1. ASSUME access' \subseteq Names \X Names,
             UNCHANGED <<Failing!cluster, live, roles, Failing!sqlite, Failing!backupState>>
      PROVE  ManagedTypes' /\ LoginKept' /\ Steady /\ Guarded(c) /\ env' = env
  BY <1>0, <1>1 DEF ManagedTypes, LoginKept, Steady, Guarded, Failing!cluster, Failing!sqlite,
                    Failing!backupState
<1>2. pc[c].op = "grants" => pc[c].u \in Names /\ pc[c].g \subseteq Names
  BY <1>0 DEF Known, Named, Task
<1>3. ASSUME NEW stage \in {"revoke", "record"}, Failing!Goto(c, stage), pc[c].op = "grants",
             UNCHANGED <<holder, leased>>, InLock(c),
             ManagedTypes', LoginKept', Steady, Guarded(c), env' = env
      PROVE  Managed(C)'
  <2>1. Advances(C, c, stage)
    BY <1>0, <1>3, Advanced DEF LeaseStages
  <2>2. Known(c)'
    BY <1>0, <1>3, <2>1
    DEF Advances, Known, RoomFor, Named, NotDefault, Started, Gone, LeaseNamed
  <2> QED
    BY <1>0, <1>3, <2>1, <2>2, ManagedAdvances DEF Locked
<1>4. ASSUME Failing!Return(c), ManagedTypes', LoginKept', Steady, Guarded(c)
      PROVE  Managed(C)'
  BY <1>0, <1>4, Left, ManagedLeaves
<1>5. CASE Failing!GrantNew(c)
  <2>1. pc[c].op = "grants" /\ InLock(c)
    BY <1>5 DEF Failing!GrantNew, Failing!At, InLock, LockStages
  <2>2. access' \subseteq Names \X Names
    BY <1>0, <1>2, <1>5, <2>1 DEF Failing!GrantNew, Failing!Granted, ManagedTypes
  <2>3. ManagedTypes' /\ LoginKept' /\ Steady /\ Guarded(c) /\ env' = env
    BY <1>1, <1>5, <2>2 DEF Failing!GrantNew
  <2>4. Failing!Return(c) \/ (Failing!Goto(c, "revoke") /\ UNCHANGED <<holder, leased>>)
    BY <1>5 DEF Failing!GrantNew
  <2> QED
    BY <1>3, <1>4, <2>1, <2>3, <2>4
<1>6. CASE Failing!RevokeOld(c)
  <2>1. pc[c].op = "grants" /\ InLock(c)
    BY <1>6 DEF Failing!RevokeOld, Failing!At, InLock, LockStages
  <2>2. access' \subseteq Names \X Names
    BY <1>0, <1>6 DEF Failing!RevokeOld, ManagedTypes
  <2>3. ManagedTypes' /\ LoginKept' /\ Steady /\ Guarded(c) /\ env' = env
    BY <1>1, <1>6, <2>2 DEF Failing!RevokeOld
  <2>4. Failing!Return(c) \/ (Failing!Goto(c, "record") /\ UNCHANGED <<holder, leased>>)
    BY <1>6 DEF Failing!RevokeOld
  <2> QED
    BY <1>3, <1>4, <2>1, <2>3, <2>4
<1> QED
  BY <1>5, <1>6

(* A request that begins: what the handler has looked up before.           *)
Asked(w) ==
  /\ w \in Task
  /\ \/ w.op = "enable" /\ w.at = "lock" /\ w.u \in Defaults
     \/ w.op = "disable" /\ w.at = "lock"
     \/ enabled /\ w.op \in {"start", "stop"} /\ w.at = "run"
     \/ enabled /\ w.op = "create" /\ w.at = "lock" /\ w.u \in Names /\ w.d \in Names
     \/ enabled /\ w.op = "drop" /\ w.at = "lock" /\ w.d \in Names
     \/ enabled /\ w.op = "adduser" /\ w.at = "lock" /\ w.u \in Names
     \/ enabled /\ w.op = "grants" /\ w.at = "lock" /\ w.u \in users
        /\ w.seen = Failing!GrantsOf(w.u)
     \/ enabled /\ w.op = "deluser" /\ w.at = "lock" /\ w.u \in users \ {admin}
     \/ /\ enabled /\ w.op \in {"schedule", "unschedule", "backup", "restore"}
        /\ w.at = "lease" /\ w.d \in Names /\ rows[w.d] # 0 /\ w.id = -rows[w.d]
Starts(c, w) ==
  /\ Asked(w) /\ pc[c] = Failing!Idle /\ pc' = [pc EXCEPT ![c] = w]
  /\ UNCHANGED <<Failing!cluster, Failing!postgres, Failing!sqlite, Failing!backupState, leased,
                 holder, failed, crashed>>

LEMMA AskedKnown ==
  ASSUME ManagedTypes, LoginKept, OneDefault, Constants, NEW w, Asked(w)
  PROVE  /\ w.at \in {"lock", "run", "lease"}
         /\ w.op = "enable" => w.u \in Defaults
         /\ w.op = "create" => w.u \in Names /\ w.d \in Names
         /\ w.op = "drop" => w.d \in Names
         /\ w.op \in {"adduser", "grants"} => w.u \in Names
         /\ w.op = "deluser" => w.u \in Names \ Defaults
         /\ w.op = "start" => env # None
         /\ w.at = "lease" => -w.id \in 1..MaxID
<1>1. enabled => \A u \in users \ {admin} : u \in Names \ Defaults
  BY DEF ManagedTypes, LoginKept, OneDefault
<1>2. \A d \in Names : rows[d] # 0 => -(-rows[d]) \in 1..MaxID
  BY DEF ManagedTypes
<1> QED
  BY <1>1, <1>2 DEF Asked, ManagedTypes, LoginKept

LEMMA ManagedStarts ==
  ASSUME NEW C, None \notin C, Managed(C), NEW c \in C, OneDefault, Constants,
         NEW wish, Starts(c, wish)
  PROVE  Managed(C)'
<1>0. ManagedTypes /\ LoginKept /\ pc \in [C -> Task] /\ leased \subseteq 1..MaxID
  BY DEF Managed, RequestTypes
<1>1. /\ wish \in Task /\ wish.at \in {"lock", "run", "lease"}
      /\ wish.op = "enable" => wish.u \in Defaults
      /\ wish.op = "create" => wish.u \in Names /\ wish.d \in Names
      /\ wish.op = "drop" => wish.d \in Names
      /\ wish.op \in {"adduser", "grants"} => wish.u \in Names
      /\ wish.op = "deluser" => wish.u \in Names \ Defaults
      /\ wish.op = "start" => env # None
      /\ wish.at = "lease" => -wish.id \in 1..MaxID
  BY <1>0, AskedKnown DEF Starts, Asked
<1>2. UNCHANGED <<Failing!cluster, Failing!postgres, Failing!sqlite, Failing!backupState, leased,
                  holder>>
  BY DEF Starts
<1>3. ManagedTypes' /\ LoginKept' /\ Steady /\ Guarded(c) /\ env' = env
  BY <1>0, <1>2, DataKept DEF Guarded, Failing!postgres, Failing!sqlite, Failing!cluster
<1>4. pc' \in [C -> Task] /\ pc'[c] = wish /\ \A e \in C \ {c} : pc'[e] = pc[e]
  BY <1>0, <1>1 DEF Starts
<1>5. Known(c)'
  BY <1>1, <1>3, <1>4 DEF Known, RoomFor, Named, NotDefault, Started, Gone, LeaseNamed
<1>6. ~InLock(c)'
  BY <1>1, <1>4 DEF InLock, LockStages
<1> QED
  BY <1>0, <1>2, <1>3, <1>4, <1>5, <1>6, ManagedMoves

(* The three instances: every step one of them takes is one of these.      *)
Steps(C) ==
  \/ \E c \in C : \E wish : Starts(c, wish)
  \/ \E c \in C : Failing!Step(c) \/ Failing!StepFails(c)
  \/ /\ pc' = [c \in C |-> Failing!Idle] /\ holder' = None
     /\ UNCHANGED <<Failing!cluster, Failing!postgres, Failing!sqlite, Failing!backupState, leased>>
  \/ /\ leased' \subseteq leased
     /\ UNCHANGED <<Failing!cluster, Failing!postgres, Failing!sqlite, Failing!backupState, holder,
                    pc>>

LEMMA ManagedNext ==
  ASSUME NEW C, None \notin C, Managed(C), OneDefault, Constants, Steps(C)
  PROVE  Managed(C)'
<1>1. CASE \E c \in C : \E wish : Starts(c, wish)
  BY <1>1, ManagedStarts
<1>2. ASSUME NEW c \in C, Failing!Step(c) \/ Failing!StepFails(c) PROVE Managed(C)'
  BY <1>2, LockSteps, GrantSteps, ClusterSteps, DatabaseSteps, UserSteps, BackupSteps DEF Failing!Step
<1>3. CASE /\ pc' = [c \in C |-> Failing!Idle] /\ holder' = None
           /\ UNCHANGED <<Failing!cluster, Failing!postgres, Failing!sqlite, Failing!backupState,
                          leased>>
  <2>1. ManagedTypes' /\ LoginKept'
    BY <1>3, DataKept DEF Managed
  <2>2. RequestTypes(C)'
    BY <1>3, IdleRequest DEF Managed, RequestTypes
  <2>3. \A c \in C : Known(c)' /\ ~InLock(c)'
    BY <1>3, IdleRequest
    DEF Known, RoomFor, Named, NotDefault, Started, Gone, LeaseNamed, InLock, LockStages
  <2> QED
    BY <2>1, <2>2, <2>3 DEF Managed, Locked
<1>4. CASE /\ leased' \subseteq leased
           /\ UNCHANGED <<Failing!cluster, Failing!postgres, Failing!sqlite, Failing!backupState,
                          holder, pc>>
  <2>1. ManagedTypes' /\ LoginKept'
    BY <1>4, DataKept DEF Managed
  <2>2. RequestTypes(C)'
    BY <1>4 DEF Managed, RequestTypes
  <2>3. UNCHANGED <<env, login, rows, lastID, live, pc, holder>>
    BY <1>4 DEF Failing!cluster, Failing!postgres, Failing!sqlite
  <2>4. \A c \in C : Known(c)' /\ (InLock(c)' => InLock(c))
    BY <2>3
    DEF Managed, Known, RoomFor, Named, NotDefault, Started, Gone, LeaseNamed, InLock
  <2> QED
    BY <2>1, <2>2, <2>3, <2>4 DEF Managed, Locked
<1> QED
  BY <1>1, <1>2, <1>3, <1>4 DEF Steps

LEMMA ManagedInit ==
  ASSUME NEW C, None \notin C, Constants, pc = [c \in C |-> Failing!Idle], holder = None,
         enabled = FALSE, running = FALSE, admin = None, env = None, login = None,
         live = [d \in Names |-> None], roles = {}, access = {},
         rows = [d \in Names |-> 0], owner = [d \in Names |-> None], users = {}, grants = {},
         lastID = 0, schedules = {}, timers = {}, backups = {}, leased = {}
  PROVE  Managed(C)
<1>1. 0 \in 0..MaxID
  BY DEF Constants
<1>2. ManagedTypes /\ LoginKept
  BY <1>1 DEF ManagedTypes, LoginKept
<1>3. RequestTypes(C)
  BY IdleRequest DEF RequestTypes
<1>4. \A c \in C : Known(c) /\ ~InLock(c)
  BY IdleRequest
  DEF Known, RoomFor, Named, NotDefault, Started, Gone, LeaseNamed, InLock, LockStages
<1> QED
  BY <1>2, <1>3, <1>4 DEF Managed, Locked

(* A database is forgotten when PostgreSQL has it no more.                 *)
LEMMA Forgotten ==
  ASSUME NEW C, None \notin C, Managed(C), OneDefault, Constants, Steps(C)
  PROVE  \A d \in Names : rows[d] # 0 /\ rows'[d] = 0 => live[d] = None
<1>1. ManagedTypes /\ Constants
  BY DEF Managed
<1>2. rows' = rows => \A d \in Names : rows[d] # 0 /\ rows'[d] = 0 => live[d] = None
  OBVIOUS
<1>3. ASSUME NEW c \in C, Failing!Step(c) \/ Failing!StepFails(c),
             ~Failing!EnableRows(c), ~Failing!CreateRecord(c), ~Failing!DropRecord(c)
      PROVE  rows' = rows
  BY <1>3 DEF Failing!Lock, Failing!Refused, Failing!EnableFiles, Failing!EnableCluster,
       Failing!EnableUp, Failing!DisableStop, Failing!DisableRecord, Failing!StartCluster,
       Failing!StopCluster, Failing!RestartCluster, Failing!CreateRole, Failing!CreateLive,
       Failing!CreateUndo, Failing!DropLease, Failing!DropLive, Failing!DropRefused,
       Failing!UserRole, Failing!UserGrants, Failing!UserRecord, Failing!UserUndo,
       Failing!GrantNew, Failing!RevokeOld, Failing!GrantRecord, Failing!DeleteRole,
       Failing!DeleteUserRecord, Failing!TakeLease, Failing!LeaseRefused, Failing!Install,
       Failing!ScheduleRecord, Failing!ScheduleUndo, Failing!Unschedule, Failing!RunBackup,
       Failing!BackupFails, Failing!RestoreBackup, Failing!StepFails, Failing!Step, Failing!sqlite
<1>4. ASSUME NEW c \in C, Failing!EnableRows(c) \/ Failing!CreateRecord(c), NEW d \in Names
      PROVE  rows[d] # 0 => rows'[d] # 0
  <2>1. lastID + 1 # 0
    BY <1>1 DEF ManagedTypes
  <2>2. rows' = rows \/ rows' = [rows EXCEPT ![pc[c].u] = lastID + 1]
        \/ rows' = [rows EXCEPT ![pc[c].d] = lastID + 1]
    BY <1>4 DEF Failing!EnableRows, Failing!CreateRecord
  <2> QED
    BY <1>1, <2>1, <2>2 DEF ManagedTypes
<1>5. ASSUME NEW c \in C, Failing!DropRecord(c), NEW d \in Names, rows[d] # 0, rows'[d] = 0
      PROVE  live[d] = None
  <2>1. pc[c].op = "drop" /\ pc[c].at = "unrecord" /\ rows' = [rows EXCEPT ![pc[c].d] = 0]
    BY <1>5 DEF Failing!DropRecord, Failing!Unrecord, Failing!At
  <2>2. live[pc[c].d] = None
    BY <2>1 DEF Managed, Known, Gone
  <2>3. d = pc[c].d
    BY <1>1, <1>5, <2>1 DEF ManagedTypes
  <2> QED
    BY <2>2, <2>3
<1> QED
  BY <1>2, <1>3, <1>4, <1>5 DEF Steps, Starts, Failing!sqlite

LEMMA LeasesAsFailing ==
  ASSUME NEW c, failed = 0, Leases!Step(c)
  PROVE  Failing!Step(c) /\ failed' = 0 /\ crashed' = crashed
<1>1. Leases!Lock(c) => Failing!Lock(c) /\ failed' = 0 /\ crashed' = crashed
  BY DEF Leases!Lock, Leases!backupState, Leases!sqlite, Leases!postgres, Leases!cluster,
       Leases!Goto, Failing!Lock, Failing!backupState, Failing!sqlite, Failing!postgres,
       Failing!cluster, Failing!Goto
<1>2. Leases!Refused(c) => Failing!Refused(c) /\ failed' = 0 /\ crashed' = crashed
  BY DEF Leases!Refused, Leases!backupState, Leases!sqlite, Leases!postgres, Leases!cluster,
       Leases!Return, Leases!Idle, Leases!Droppable, Leases!NoSuchRole, Leases!Answers, Leases!Room,
       Failing!Refused, Failing!backupState, Failing!sqlite, Failing!postgres, Failing!cluster,
       Failing!Return, Failing!Idle, Failing!Droppable, Failing!NoSuchRole, Failing!Answers,
       Failing!Room
<1>3. Leases!EnableFiles(c) => Failing!EnableFiles(c) /\ failed' = 0 /\ crashed' = crashed
  BY DEF Leases!EnableFiles, Leases!backupState, Leases!sqlite, Leases!postgres, Leases!Goto,
       Leases!Room, Leases!At, Failing!EnableFiles, Failing!backupState, Failing!sqlite,
       Failing!postgres, Failing!Goto, Failing!Room, Failing!At
<1>4. Leases!EnableCluster(c) => Failing!EnableCluster(c) /\ failed' = 0 /\ crashed' = crashed
  BY DEF Leases!EnableCluster, Leases!backupState, Leases!sqlite, Leases!postgres, Leases!Goto,
       Leases!At, Failing!EnableCluster, Failing!backupState, Failing!sqlite, Failing!postgres,
       Failing!Goto, Failing!At
<1>5. Leases!EnableRows(c) => Failing!EnableRows(c) /\ failed' = 0 /\ crashed' = crashed
  BY DEF Leases!EnableRows, Leases!backupState, Leases!postgres, Leases!cluster, Leases!Goto,
       Leases!At, Failing!EnableRows, Failing!backupState, Failing!postgres, Failing!cluster,
       Failing!Goto, Failing!At
<1>6. Leases!EnableUp(c) => Failing!EnableUp(c) /\ failed' = 0 /\ crashed' = crashed
  BY DEF Leases!EnableUp, Leases!backupState, Leases!sqlite, Leases!Return, Leases!Idle, Leases!Up,
       Leases!postgres, Leases!At, Failing!EnableUp, Failing!backupState, Failing!sqlite,
       Failing!Return, Failing!Idle, Failing!Up, Failing!postgres, Failing!At
<1>7. Leases!DisableStop(c) => Failing!DisableStop(c) /\ failed' = 0 /\ crashed' = crashed
  BY DEF Leases!DisableStop, Leases!backupState, Leases!sqlite, Leases!postgres, Leases!Goto,
       Leases!At, Failing!DisableStop, Failing!backupState, Failing!sqlite, Failing!postgres,
       Failing!Goto, Failing!At
<1>8. Leases!DisableRecord(c) => Failing!DisableRecord(c) /\ failed' = 0 /\ crashed' = crashed
  BY DEF Leases!DisableRecord, Leases!backupState, Leases!sqlite, Leases!postgres, Leases!Return,
       Leases!Idle, Leases!At, Failing!DisableRecord, Failing!backupState, Failing!sqlite,
       Failing!postgres, Failing!Return, Failing!Idle, Failing!At
<1>9. Leases!StartCluster(c) => Failing!StartCluster(c) /\ failed' = 0 /\ crashed' = crashed
  BY DEF Leases!StartCluster, Leases!backupState, Leases!sqlite, Leases!Return, Leases!Idle,
       Leases!Up, Leases!postgres, Leases!At, Failing!StartCluster, Failing!backupState,
       Failing!sqlite, Failing!Return, Failing!Idle, Failing!Up, Failing!postgres, Failing!At
<1>10. Leases!StopCluster(c) => Failing!StopCluster(c) /\ failed' = 0 /\ crashed' = crashed
  BY DEF Leases!StopCluster, Leases!backupState, Leases!sqlite, Leases!postgres, Leases!Return,
       Leases!Idle, Leases!At, Failing!StopCluster, Failing!backupState, Failing!sqlite,
       Failing!postgres, Failing!Return, Failing!Idle, Failing!At
<1>11. Leases!RestartCluster(c) => Failing!RestartCluster(c) /\ failed' = 0 /\ crashed' = crashed
  BY DEF Leases!RestartCluster, Leases!backupState, Leases!sqlite, Leases!postgres, Leases!Return,
       Leases!Idle, Leases!At, Failing!RestartCluster, Failing!backupState, Failing!sqlite,
       Failing!postgres, Failing!Return, Failing!Idle, Failing!At
<1>12. Leases!CreateRole(c) => Failing!CreateRole(c) /\ failed' = 0 /\ crashed' = crashed
  BY DEF Leases!CreateRole, Leases!backupState, Leases!sqlite, Leases!cluster, Leases!Answers,
       Leases!At, Failing!CreateRole, Failing!backupState, Failing!sqlite, Failing!cluster,
       Failing!Answers, Failing!At
<1>13. Leases!CreateLive(c) => Failing!CreateLive(c) /\ failed' = 0 /\ crashed' = crashed
  BY DEF Leases!CreateLive, Leases!backupState, Leases!sqlite, Leases!cluster, Leases!Goto,
       Leases!Answers, Leases!At, Failing!CreateLive, Failing!backupState, Failing!sqlite,
       Failing!cluster, Failing!Goto, Failing!Answers, Failing!At
<1>14. Leases!CreateRecord(c) => Failing!CreateRecord(c) /\ failed' = 0 /\ crashed' = crashed
  BY DEF Leases!CreateRecord, Leases!backupState, Leases!postgres, Leases!cluster, Leases!Return,
       Leases!Idle, Leases!At, Failing!CreateRecord, Failing!backupState, Failing!postgres,
       Failing!cluster, Failing!Return, Failing!Idle, Failing!At
<1>15. Leases!CreateUndo(c) => Failing!CreateUndo(c) /\ failed' = 0 /\ crashed' = crashed
  BY DEF Leases!CreateUndo, Leases!backupState, Leases!sqlite, Leases!cluster, Leases!Return,
       Leases!Idle, Leases!postgres, Leases!Answers, Leases!Fail, Failing!CreateUndo,
       Failing!backupState, Failing!sqlite, Failing!cluster, Failing!Return, Failing!Idle,
       Failing!postgres, Failing!Answers, Failing!Fail
<1>16. Leases!DropLease(c) => Failing!DropLease(c) /\ failed' = 0 /\ crashed' = crashed
  BY DEF Leases!DropLease, Leases!backupState, Leases!sqlite, Leases!postgres, Leases!cluster,
       Leases!At, Failing!DropLease, Failing!backupState, Failing!sqlite, Failing!postgres,
       Failing!cluster, Failing!At
<1>17. Leases!DropLive(c) => Failing!DropLive(c) /\ failed' = 0 /\ crashed' = crashed
  BY DEF Leases!DropLive, Leases!backupState, Leases!sqlite, Leases!cluster, Leases!Goto,
       Leases!Answers, Leases!AlreadyGone, Leases!NoSuchRole, Leases!At, Failing!DropLive,
       Failing!backupState, Failing!sqlite, Failing!cluster, Failing!Goto, Failing!Answers,
       Failing!AlreadyGone, Failing!NoSuchRole, Failing!At
<1>18. Leases!DropRefused(c) => Failing!DropRefused(c) /\ failed' = 0 /\ crashed' = crashed
  BY DEF Leases!DropRefused, Leases!backupState, Leases!sqlite, Leases!postgres, Leases!cluster,
       Leases!Return, Leases!Idle, Leases!Answers, Leases!AlreadyGone, Leases!NoSuchRole, Leases!At,
       Failing!DropRefused, Failing!backupState, Failing!sqlite, Failing!postgres, Failing!cluster,
       Failing!Return, Failing!Idle, Failing!Answers, Failing!AlreadyGone, Failing!NoSuchRole,
       Failing!At
<1>19. Leases!DropRecord(c) => Failing!DropRecord(c) /\ failed' = 0 /\ crashed' = crashed
  BY DEF Leases!DropRecord, Leases!postgres, Leases!cluster, Leases!Return, Leases!Idle,
       Leases!Unrecord, Leases!At, Failing!DropRecord, Failing!postgres, Failing!cluster,
       Failing!Return, Failing!Idle, Failing!Unrecord, Failing!At
<1>20. Leases!UserRole(c) => Failing!UserRole(c) /\ failed' = 0 /\ crashed' = crashed
  BY DEF Leases!UserRole, Leases!backupState, Leases!sqlite, Leases!cluster, Leases!Goto,
       Leases!Answers, Leases!At, Failing!UserRole, Failing!backupState, Failing!sqlite,
       Failing!cluster, Failing!Goto, Failing!Answers, Failing!At
<1>21. Leases!UserGrants(c) => Failing!UserGrants(c) /\ failed' = 0 /\ crashed' = crashed
  BY DEF Leases!UserGrants, Leases!backupState, Leases!sqlite, Leases!cluster, Leases!Goto,
       Leases!Granted, Leases!Missing, Leases!Answers, Leases!At, Failing!UserGrants,
       Failing!backupState, Failing!sqlite, Failing!cluster, Failing!Goto, Failing!Granted,
       Failing!Missing, Failing!Answers, Failing!At
<1>22. Leases!UserRecord(c) => Failing!UserRecord(c) /\ failed' = 0 /\ crashed' = crashed
  BY DEF Leases!UserRecord, Leases!backupState, Leases!postgres, Leases!cluster, Leases!Return,
       Leases!Idle, Leases!At, Failing!UserRecord, Failing!backupState, Failing!postgres,
       Failing!cluster, Failing!Return, Failing!Idle, Failing!At
<1>23. Leases!UserUndo(c) => Failing!UserUndo(c) /\ failed' = 0 /\ crashed' = crashed
  BY DEF Leases!UserUndo, Leases!backupState, Leases!sqlite, Leases!cluster, Leases!Return,
       Leases!Idle, Leases!Answers, Leases!Fail, Leases!Granted, Leases!Missing, Failing!UserUndo,
       Failing!backupState, Failing!sqlite, Failing!cluster, Failing!Return, Failing!Idle,
       Failing!Answers, Failing!Fail, Failing!Granted, Failing!Missing
<1>24. Leases!GrantNew(c) => Failing!GrantNew(c) /\ failed' = 0 /\ crashed' = crashed
  BY DEF Leases!GrantNew, Leases!backupState, Leases!sqlite, Leases!cluster, Leases!Return,
       Leases!Idle, Leases!Granted, Leases!Goto, Leases!Answers, Leases!At, Failing!GrantNew,
       Failing!backupState, Failing!sqlite, Failing!cluster, Failing!Return, Failing!Idle,
       Failing!Granted, Failing!Goto, Failing!Answers, Failing!At
<1>25. Leases!RevokeOld(c) => Failing!RevokeOld(c) /\ failed' = 0 /\ crashed' = crashed
  BY DEF Leases!RevokeOld, Leases!backupState, Leases!sqlite, Leases!cluster, Leases!Return,
       Leases!Idle, Leases!Goto, Leases!Answers, Leases!At, Failing!RevokeOld, Failing!backupState,
       Failing!sqlite, Failing!cluster, Failing!Return, Failing!Idle, Failing!Goto, Failing!Answers,
       Failing!At
<1>26. Leases!GrantRecord(c) => Failing!GrantRecord(c) /\ failed' = 0 /\ crashed' = crashed
  BY DEF Leases!GrantRecord, Leases!backupState, Leases!postgres, Leases!cluster, Leases!Return,
       Leases!Idle, Leases!At, Failing!GrantRecord, Failing!backupState, Failing!postgres,
       Failing!cluster, Failing!Return, Failing!Idle, Failing!At
<1>27. Leases!DeleteRole(c) => Failing!DeleteRole(c) /\ failed' = 0 /\ crashed' = crashed
  BY DEF Leases!DeleteRole, Leases!backupState, Leases!sqlite, Leases!cluster, Leases!Goto,
       Leases!Droppable, Leases!Answers, Leases!NoSuchRole, Leases!At, Failing!DeleteRole,
       Failing!backupState, Failing!sqlite, Failing!cluster, Failing!Goto, Failing!Droppable,
       Failing!Answers, Failing!NoSuchRole, Failing!At
<1>28. Leases!DeleteUserRecord(c) => Failing!DeleteUserRecord(c) /\ failed' = 0 /\ crashed' = crashed
  BY DEF Leases!DeleteUserRecord, Leases!backupState, Leases!postgres, Leases!cluster,
       Leases!Return, Leases!Idle, Leases!At, Failing!DeleteUserRecord, Failing!backupState,
       Failing!postgres, Failing!cluster, Failing!Return, Failing!Idle, Failing!At
<1>29. Leases!TakeLease(c) => Failing!TakeLease(c) /\ failed' = 0 /\ crashed' = crashed
  BY DEF Leases!TakeLease, Leases!backupState, Leases!sqlite, Leases!postgres, Leases!cluster,
       Leases!Registered, Failing!TakeLease, Failing!backupState, Failing!sqlite, Failing!postgres,
       Failing!cluster, Failing!Registered
<1>30. Leases!LeaseRefused(c) => Failing!LeaseRefused(c) /\ failed' = 0 /\ crashed' = crashed
  BY DEF Leases!LeaseRefused, Leases!backupState, Leases!sqlite, Leases!postgres, Leases!cluster,
       Leases!Return, Leases!Idle, Leases!Registered, Failing!LeaseRefused, Failing!backupState,
       Failing!sqlite, Failing!postgres, Failing!cluster, Failing!Return, Failing!Idle,
       Failing!Registered
<1>31. Leases!Install(c) => Failing!Install(c) /\ failed' = 0 /\ crashed' = crashed
  BY DEF Leases!Install, Leases!sqlite, Leases!postgres, Leases!cluster, Leases!Goto, Leases!At,
       Failing!Install, Failing!sqlite, Failing!postgres, Failing!cluster, Failing!Goto, Failing!At
<1>32. Leases!ScheduleRecord(c) => Failing!ScheduleRecord(c) /\ failed' = 0 /\ crashed' = crashed
  BY DEF Leases!ScheduleRecord, Leases!sqlite, Leases!postgres, Leases!cluster, Leases!Return,
       Leases!Idle, Leases!At, Failing!ScheduleRecord, Failing!sqlite, Failing!postgres,
       Failing!cluster, Failing!Return, Failing!Idle, Failing!At
<1>33. Leases!ScheduleUndo(c) => Failing!ScheduleUndo(c) /\ failed' = 0 /\ crashed' = crashed
  BY DEF Leases!ScheduleUndo, Leases!sqlite, Leases!postgres, Leases!cluster, Leases!Return,
       Leases!Idle, Leases!Fail, Leases!At, Failing!ScheduleUndo, Failing!sqlite, Failing!postgres,
       Failing!cluster, Failing!Return, Failing!Idle, Failing!Fail, Failing!At
<1>34. Leases!Unschedule(c) => Failing!Unschedule(c) /\ failed' = 0 /\ crashed' = crashed
  BY DEF Leases!Unschedule, Leases!sqlite, Leases!postgres, Leases!cluster, Leases!Return,
       Leases!Idle, Leases!At, Failing!Unschedule, Failing!sqlite, Failing!postgres,
       Failing!cluster, Failing!Return, Failing!Idle, Failing!At
<1>35. Leases!RunBackup(c) => Failing!RunBackup(c) /\ failed' = 0 /\ crashed' = crashed
  BY DEF Leases!RunBackup, Leases!sqlite, Leases!postgres, Leases!cluster, Leases!Return,
       Leases!Idle, Leases!Answers, Leases!At, Failing!RunBackup, Failing!sqlite, Failing!postgres,
       Failing!cluster, Failing!Return, Failing!Idle, Failing!Answers, Failing!At
<1>36. Leases!BackupFails(c) => Failing!BackupFails(c) /\ failed' = 0 /\ crashed' = crashed
  BY DEF Leases!BackupFails, Leases!backupState, Leases!sqlite, Leases!postgres, Leases!cluster,
       Leases!Return, Leases!Idle, Leases!Answers, Failing!BackupFails, Failing!backupState,
       Failing!sqlite, Failing!postgres, Failing!cluster, Failing!Return, Failing!Idle,
       Failing!Answers
<1>37. Leases!RestoreBackup(c) => Failing!RestoreBackup(c) /\ failed' = 0 /\ crashed' = crashed
  BY DEF Leases!RestoreBackup, Leases!backupState, Leases!sqlite, Leases!postgres, Leases!cluster,
       Leases!Return, Leases!Idle, Leases!Answers, Leases!At, Failing!RestoreBackup,
       Failing!backupState, Failing!sqlite, Failing!postgres, Failing!cluster, Failing!Return,
       Failing!Idle, Failing!Answers, Failing!At
<1> QED
  BY <1>1, <1>2, <1>3, <1>4, <1>5, <1>6, <1>7, <1>8, <1>9, <1>10, <1>11, <1>12, <1>13, <1>14, <1>15,
       <1>16, <1>17, <1>18, <1>19, <1>20, <1>21, <1>22, <1>23, <1>24, <1>25, <1>26, <1>27, <1>28,
       <1>29, <1>30, <1>31, <1>32, <1>33, <1>34, <1>35, <1>36, <1>37 DEF Leases!Step, Failing!Step

LEMMA ClusterAsFailing ==
  ASSUME NEW c, failed = 0, Cluster!Step(c)
  PROVE  Failing!Step(c) /\ failed' = 0 /\ crashed' = crashed
<1>1. Cluster!Lock(c) => Failing!Lock(c) /\ failed' = 0 /\ crashed' = crashed
  BY DEF Cluster!Lock, Cluster!backupState, Cluster!sqlite, Cluster!postgres, Cluster!cluster,
       Cluster!Goto, Failing!Lock, Failing!backupState, Failing!sqlite, Failing!postgres,
       Failing!cluster, Failing!Goto
<1>2. Cluster!Refused(c) => Failing!Refused(c) /\ failed' = 0 /\ crashed' = crashed
  BY DEF Cluster!Refused, Cluster!backupState, Cluster!sqlite, Cluster!postgres, Cluster!cluster,
       Cluster!Return, Cluster!Idle, Cluster!Droppable, Cluster!NoSuchRole, Cluster!Answers,
       Cluster!Room, Failing!Refused, Failing!backupState, Failing!sqlite, Failing!postgres,
       Failing!cluster, Failing!Return, Failing!Idle, Failing!Droppable, Failing!NoSuchRole,
       Failing!Answers, Failing!Room
<1>3. Cluster!EnableFiles(c) => Failing!EnableFiles(c) /\ failed' = 0 /\ crashed' = crashed
  BY DEF Cluster!EnableFiles, Cluster!backupState, Cluster!sqlite, Cluster!postgres, Cluster!Goto,
       Cluster!Room, Cluster!At, Failing!EnableFiles, Failing!backupState, Failing!sqlite,
       Failing!postgres, Failing!Goto, Failing!Room, Failing!At
<1>4. Cluster!EnableCluster(c) => Failing!EnableCluster(c) /\ failed' = 0 /\ crashed' = crashed
  BY DEF Cluster!EnableCluster, Cluster!backupState, Cluster!sqlite, Cluster!postgres, Cluster!Goto,
       Cluster!At, Failing!EnableCluster, Failing!backupState, Failing!sqlite, Failing!postgres,
       Failing!Goto, Failing!At
<1>5. Cluster!EnableRows(c) => Failing!EnableRows(c) /\ failed' = 0 /\ crashed' = crashed
  BY DEF Cluster!EnableRows, Cluster!backupState, Cluster!postgres, Cluster!cluster, Cluster!Goto,
       Cluster!At, Failing!EnableRows, Failing!backupState, Failing!postgres, Failing!cluster,
       Failing!Goto, Failing!At
<1>6. Cluster!EnableUp(c) => Failing!EnableUp(c) /\ failed' = 0 /\ crashed' = crashed
  BY DEF Cluster!EnableUp, Cluster!backupState, Cluster!sqlite, Cluster!Return, Cluster!Idle,
       Cluster!Up, Cluster!postgres, Cluster!At, Failing!EnableUp, Failing!backupState,
       Failing!sqlite, Failing!Return, Failing!Idle, Failing!Up, Failing!postgres, Failing!At
<1>7. Cluster!DisableStop(c) => Failing!DisableStop(c) /\ failed' = 0 /\ crashed' = crashed
  BY DEF Cluster!DisableStop, Cluster!backupState, Cluster!sqlite, Cluster!postgres, Cluster!Goto,
       Cluster!At, Failing!DisableStop, Failing!backupState, Failing!sqlite, Failing!postgres,
       Failing!Goto, Failing!At
<1>8. Cluster!DisableRecord(c) => Failing!DisableRecord(c) /\ failed' = 0 /\ crashed' = crashed
  BY DEF Cluster!DisableRecord, Cluster!backupState, Cluster!sqlite, Cluster!postgres,
       Cluster!Return, Cluster!Idle, Cluster!At, Failing!DisableRecord, Failing!backupState,
       Failing!sqlite, Failing!postgres, Failing!Return, Failing!Idle, Failing!At
<1>9. Cluster!StartCluster(c) => Failing!StartCluster(c) /\ failed' = 0 /\ crashed' = crashed
  BY DEF Cluster!StartCluster, Cluster!backupState, Cluster!sqlite, Cluster!Return, Cluster!Idle,
       Cluster!Up, Cluster!postgres, Cluster!At, Failing!StartCluster, Failing!backupState,
       Failing!sqlite, Failing!Return, Failing!Idle, Failing!Up, Failing!postgres, Failing!At
<1>10. Cluster!StopCluster(c) => Failing!StopCluster(c) /\ failed' = 0 /\ crashed' = crashed
  BY DEF Cluster!StopCluster, Cluster!backupState, Cluster!sqlite, Cluster!postgres, Cluster!Return,
       Cluster!Idle, Cluster!At, Failing!StopCluster, Failing!backupState, Failing!sqlite,
       Failing!postgres, Failing!Return, Failing!Idle, Failing!At
<1>11. Cluster!RestartCluster(c) => Failing!RestartCluster(c) /\ failed' = 0 /\ crashed' = crashed
  BY DEF Cluster!RestartCluster, Cluster!backupState, Cluster!sqlite, Cluster!postgres,
       Cluster!Return, Cluster!Idle, Cluster!At, Failing!RestartCluster, Failing!backupState,
       Failing!sqlite, Failing!postgres, Failing!Return, Failing!Idle, Failing!At
<1>12. Cluster!CreateRole(c) => Failing!CreateRole(c) /\ failed' = 0 /\ crashed' = crashed
  BY DEF Cluster!CreateRole, Cluster!backupState, Cluster!sqlite, Cluster!cluster, Cluster!Answers,
       Cluster!At, Failing!CreateRole, Failing!backupState, Failing!sqlite, Failing!cluster,
       Failing!Answers, Failing!At
<1>13. Cluster!CreateLive(c) => Failing!CreateLive(c) /\ failed' = 0 /\ crashed' = crashed
  BY DEF Cluster!CreateLive, Cluster!backupState, Cluster!sqlite, Cluster!cluster, Cluster!Goto,
       Cluster!Answers, Cluster!At, Failing!CreateLive, Failing!backupState, Failing!sqlite,
       Failing!cluster, Failing!Goto, Failing!Answers, Failing!At
<1>14. Cluster!CreateRecord(c) => Failing!CreateRecord(c) /\ failed' = 0 /\ crashed' = crashed
  BY DEF Cluster!CreateRecord, Cluster!backupState, Cluster!postgres, Cluster!cluster,
       Cluster!Return, Cluster!Idle, Cluster!At, Failing!CreateRecord, Failing!backupState,
       Failing!postgres, Failing!cluster, Failing!Return, Failing!Idle, Failing!At
<1>15. Cluster!CreateUndo(c) => Failing!CreateUndo(c) /\ failed' = 0 /\ crashed' = crashed
  BY DEF Cluster!CreateUndo, Cluster!backupState, Cluster!sqlite, Cluster!cluster, Cluster!Return,
       Cluster!Idle, Cluster!postgres, Cluster!Answers, Cluster!Fail, Failing!CreateUndo,
       Failing!backupState, Failing!sqlite, Failing!cluster, Failing!Return, Failing!Idle,
       Failing!postgres, Failing!Answers, Failing!Fail
<1>16. Cluster!DropLease(c) => Failing!DropLease(c) /\ failed' = 0 /\ crashed' = crashed
  BY DEF Cluster!DropLease, Cluster!backupState, Cluster!sqlite, Cluster!postgres, Cluster!cluster,
       Cluster!At, Failing!DropLease, Failing!backupState, Failing!sqlite, Failing!postgres,
       Failing!cluster, Failing!At
<1>17. Cluster!DropLive(c) => Failing!DropLive(c) /\ failed' = 0 /\ crashed' = crashed
  BY DEF Cluster!DropLive, Cluster!backupState, Cluster!sqlite, Cluster!cluster, Cluster!Goto,
       Cluster!Answers, Cluster!AlreadyGone, Cluster!NoSuchRole, Cluster!At, Failing!DropLive,
       Failing!backupState, Failing!sqlite, Failing!cluster, Failing!Goto, Failing!Answers,
       Failing!AlreadyGone, Failing!NoSuchRole, Failing!At
<1>18. Cluster!DropRefused(c) => Failing!DropRefused(c) /\ failed' = 0 /\ crashed' = crashed
  BY DEF Cluster!DropRefused, Cluster!backupState, Cluster!sqlite, Cluster!postgres,
       Cluster!cluster, Cluster!Return, Cluster!Idle, Cluster!Answers, Cluster!AlreadyGone,
       Cluster!NoSuchRole, Cluster!At, Failing!DropRefused, Failing!backupState, Failing!sqlite,
       Failing!postgres, Failing!cluster, Failing!Return, Failing!Idle, Failing!Answers,
       Failing!AlreadyGone, Failing!NoSuchRole, Failing!At
<1>19. Cluster!DropRecord(c) => Failing!DropRecord(c) /\ failed' = 0 /\ crashed' = crashed
  BY DEF Cluster!DropRecord, Cluster!postgres, Cluster!cluster, Cluster!Return, Cluster!Idle,
       Cluster!Unrecord, Cluster!At, Failing!DropRecord, Failing!postgres, Failing!cluster,
       Failing!Return, Failing!Idle, Failing!Unrecord, Failing!At
<1>20. Cluster!UserRole(c) => Failing!UserRole(c) /\ failed' = 0 /\ crashed' = crashed
  BY DEF Cluster!UserRole, Cluster!backupState, Cluster!sqlite, Cluster!cluster, Cluster!Goto,
       Cluster!Answers, Cluster!At, Failing!UserRole, Failing!backupState, Failing!sqlite,
       Failing!cluster, Failing!Goto, Failing!Answers, Failing!At
<1>21. Cluster!UserGrants(c) => Failing!UserGrants(c) /\ failed' = 0 /\ crashed' = crashed
  BY DEF Cluster!UserGrants, Cluster!backupState, Cluster!sqlite, Cluster!cluster, Cluster!Goto,
       Cluster!Granted, Cluster!Missing, Cluster!Answers, Cluster!At, Failing!UserGrants,
       Failing!backupState, Failing!sqlite, Failing!cluster, Failing!Goto, Failing!Granted,
       Failing!Missing, Failing!Answers, Failing!At
<1>22. Cluster!UserRecord(c) => Failing!UserRecord(c) /\ failed' = 0 /\ crashed' = crashed
  BY DEF Cluster!UserRecord, Cluster!backupState, Cluster!postgres, Cluster!cluster, Cluster!Return,
       Cluster!Idle, Cluster!At, Failing!UserRecord, Failing!backupState, Failing!postgres,
       Failing!cluster, Failing!Return, Failing!Idle, Failing!At
<1>23. Cluster!UserUndo(c) => Failing!UserUndo(c) /\ failed' = 0 /\ crashed' = crashed
  BY DEF Cluster!UserUndo, Cluster!backupState, Cluster!sqlite, Cluster!cluster, Cluster!Return,
       Cluster!Idle, Cluster!Answers, Cluster!Fail, Cluster!Granted, Cluster!Missing,
       Failing!UserUndo, Failing!backupState, Failing!sqlite, Failing!cluster, Failing!Return,
       Failing!Idle, Failing!Answers, Failing!Fail, Failing!Granted, Failing!Missing
<1>24. Cluster!GrantNew(c) => Failing!GrantNew(c) /\ failed' = 0 /\ crashed' = crashed
  BY DEF Cluster!GrantNew, Cluster!backupState, Cluster!sqlite, Cluster!cluster, Cluster!Return,
       Cluster!Idle, Cluster!Granted, Cluster!Goto, Cluster!Answers, Cluster!At, Failing!GrantNew,
       Failing!backupState, Failing!sqlite, Failing!cluster, Failing!Return, Failing!Idle,
       Failing!Granted, Failing!Goto, Failing!Answers, Failing!At
<1>25. Cluster!RevokeOld(c) => Failing!RevokeOld(c) /\ failed' = 0 /\ crashed' = crashed
  BY DEF Cluster!RevokeOld, Cluster!backupState, Cluster!sqlite, Cluster!cluster, Cluster!Return,
       Cluster!Idle, Cluster!Goto, Cluster!Answers, Cluster!At, Failing!RevokeOld,
       Failing!backupState, Failing!sqlite, Failing!cluster, Failing!Return, Failing!Idle,
       Failing!Goto, Failing!Answers, Failing!At
<1>26. Cluster!GrantRecord(c) => Failing!GrantRecord(c) /\ failed' = 0 /\ crashed' = crashed
  BY DEF Cluster!GrantRecord, Cluster!backupState, Cluster!postgres, Cluster!cluster,
       Cluster!Return, Cluster!Idle, Cluster!At, Failing!GrantRecord, Failing!backupState,
       Failing!postgres, Failing!cluster, Failing!Return, Failing!Idle, Failing!At
<1>27. Cluster!DeleteRole(c) => Failing!DeleteRole(c) /\ failed' = 0 /\ crashed' = crashed
  BY DEF Cluster!DeleteRole, Cluster!backupState, Cluster!sqlite, Cluster!cluster, Cluster!Goto,
       Cluster!Droppable, Cluster!Answers, Cluster!NoSuchRole, Cluster!At, Failing!DeleteRole,
       Failing!backupState, Failing!sqlite, Failing!cluster, Failing!Goto, Failing!Droppable,
       Failing!Answers, Failing!NoSuchRole, Failing!At
<1>28. Cluster!DeleteUserRecord(c) => Failing!DeleteUserRecord(c) /\ failed' = 0 /\ crashed' = crashed
  BY DEF Cluster!DeleteUserRecord, Cluster!backupState, Cluster!postgres, Cluster!cluster,
       Cluster!Return, Cluster!Idle, Cluster!At, Failing!DeleteUserRecord, Failing!backupState,
       Failing!postgres, Failing!cluster, Failing!Return, Failing!Idle, Failing!At
<1>29. Cluster!TakeLease(c) => Failing!TakeLease(c) /\ failed' = 0 /\ crashed' = crashed
  BY DEF Cluster!TakeLease, Cluster!backupState, Cluster!sqlite, Cluster!postgres, Cluster!cluster,
       Cluster!Registered, Failing!TakeLease, Failing!backupState, Failing!sqlite, Failing!postgres,
       Failing!cluster, Failing!Registered
<1>30. Cluster!LeaseRefused(c) => Failing!LeaseRefused(c) /\ failed' = 0 /\ crashed' = crashed
  BY DEF Cluster!LeaseRefused, Cluster!backupState, Cluster!sqlite, Cluster!postgres,
       Cluster!cluster, Cluster!Return, Cluster!Idle, Cluster!Registered, Failing!LeaseRefused,
       Failing!backupState, Failing!sqlite, Failing!postgres, Failing!cluster, Failing!Return,
       Failing!Idle, Failing!Registered
<1>31. Cluster!Install(c) => Failing!Install(c) /\ failed' = 0 /\ crashed' = crashed
  BY DEF Cluster!Install, Cluster!sqlite, Cluster!postgres, Cluster!cluster, Cluster!Goto,
       Cluster!At, Failing!Install, Failing!sqlite, Failing!postgres, Failing!cluster, Failing!Goto,
       Failing!At
<1>32. Cluster!ScheduleRecord(c) => Failing!ScheduleRecord(c) /\ failed' = 0 /\ crashed' = crashed
  BY DEF Cluster!ScheduleRecord, Cluster!sqlite, Cluster!postgres, Cluster!cluster, Cluster!Return,
       Cluster!Idle, Cluster!At, Failing!ScheduleRecord, Failing!sqlite, Failing!postgres,
       Failing!cluster, Failing!Return, Failing!Idle, Failing!At
<1>33. Cluster!ScheduleUndo(c) => Failing!ScheduleUndo(c) /\ failed' = 0 /\ crashed' = crashed
  BY DEF Cluster!ScheduleUndo, Cluster!sqlite, Cluster!postgres, Cluster!cluster, Cluster!Return,
       Cluster!Idle, Cluster!Fail, Cluster!At, Failing!ScheduleUndo, Failing!sqlite,
       Failing!postgres, Failing!cluster, Failing!Return, Failing!Idle, Failing!Fail, Failing!At
<1>34. Cluster!Unschedule(c) => Failing!Unschedule(c) /\ failed' = 0 /\ crashed' = crashed
  BY DEF Cluster!Unschedule, Cluster!sqlite, Cluster!postgres, Cluster!cluster, Cluster!Return,
       Cluster!Idle, Cluster!At, Failing!Unschedule, Failing!sqlite, Failing!postgres,
       Failing!cluster, Failing!Return, Failing!Idle, Failing!At
<1>35. Cluster!RunBackup(c) => Failing!RunBackup(c) /\ failed' = 0 /\ crashed' = crashed
  BY DEF Cluster!RunBackup, Cluster!sqlite, Cluster!postgres, Cluster!cluster, Cluster!Return,
       Cluster!Idle, Cluster!Answers, Cluster!At, Failing!RunBackup, Failing!sqlite,
       Failing!postgres, Failing!cluster, Failing!Return, Failing!Idle, Failing!Answers, Failing!At
<1>36. Cluster!BackupFails(c) => Failing!BackupFails(c) /\ failed' = 0 /\ crashed' = crashed
  BY DEF Cluster!BackupFails, Cluster!backupState, Cluster!sqlite, Cluster!postgres,
       Cluster!cluster, Cluster!Return, Cluster!Idle, Cluster!Answers, Failing!BackupFails,
       Failing!backupState, Failing!sqlite, Failing!postgres, Failing!cluster, Failing!Return,
       Failing!Idle, Failing!Answers
<1>37. Cluster!RestoreBackup(c) => Failing!RestoreBackup(c) /\ failed' = 0 /\ crashed' = crashed
  BY DEF Cluster!RestoreBackup, Cluster!backupState, Cluster!sqlite, Cluster!postgres,
       Cluster!cluster, Cluster!Return, Cluster!Idle, Cluster!Answers, Cluster!At,
       Failing!RestoreBackup, Failing!backupState, Failing!sqlite, Failing!postgres,
       Failing!cluster, Failing!Return, Failing!Idle, Failing!Answers, Failing!At
<1> QED
  BY <1>1, <1>2, <1>3, <1>4, <1>5, <1>6, <1>7, <1>8, <1>9, <1>10, <1>11, <1>12, <1>13, <1>14, <1>15,
       <1>16, <1>17, <1>18, <1>19, <1>20, <1>21, <1>22, <1>23, <1>24, <1>25, <1>26, <1>27, <1>28,
       <1>29, <1>30, <1>31, <1>32, <1>33, <1>34, <1>35, <1>36, <1>37 DEF Cluster!Step, Failing!Step

LEMMA FailingCounts ==
  ASSUME NEW c, failed \in 0..Failures, Failures \in Nat, Failing!Step(c) \/ Failing!StepFails(c)
  PROVE  failed' \in 0..Failures /\ crashed' = crashed
<1>f. Failing!Fail => failed' \in 0..Failures
  BY DEF Failing!Fail
<1>1. Failing!Lock(c) => failed' \in 0..Failures /\ crashed' = crashed
  BY <1>f DEF Failing!Lock
<1>2. Failing!Refused(c) => failed' \in 0..Failures /\ crashed' = crashed
  BY <1>f DEF Failing!Refused
<1>3. Failing!EnableFiles(c) => failed' \in 0..Failures /\ crashed' = crashed
  BY <1>f DEF Failing!EnableFiles
<1>4. Failing!EnableCluster(c) => failed' \in 0..Failures /\ crashed' = crashed
  BY <1>f DEF Failing!EnableCluster
<1>5. Failing!EnableRows(c) => failed' \in 0..Failures /\ crashed' = crashed
  BY <1>f DEF Failing!EnableRows
<1>6. Failing!EnableUp(c) => failed' \in 0..Failures /\ crashed' = crashed
  BY <1>f DEF Failing!EnableUp
<1>7. Failing!DisableStop(c) => failed' \in 0..Failures /\ crashed' = crashed
  BY <1>f DEF Failing!DisableStop
<1>8. Failing!DisableRecord(c) => failed' \in 0..Failures /\ crashed' = crashed
  BY <1>f DEF Failing!DisableRecord
<1>9. Failing!StartCluster(c) => failed' \in 0..Failures /\ crashed' = crashed
  BY <1>f DEF Failing!StartCluster
<1>10. Failing!StopCluster(c) => failed' \in 0..Failures /\ crashed' = crashed
  BY <1>f DEF Failing!StopCluster
<1>11. Failing!RestartCluster(c) => failed' \in 0..Failures /\ crashed' = crashed
  BY <1>f DEF Failing!RestartCluster
<1>12. Failing!CreateRole(c) => failed' \in 0..Failures /\ crashed' = crashed
  BY <1>f DEF Failing!CreateRole
<1>13. Failing!CreateLive(c) => failed' \in 0..Failures /\ crashed' = crashed
  BY <1>f DEF Failing!CreateLive
<1>14. Failing!CreateRecord(c) => failed' \in 0..Failures /\ crashed' = crashed
  BY <1>f DEF Failing!CreateRecord
<1>15. Failing!CreateUndo(c) => failed' \in 0..Failures /\ crashed' = crashed
  BY <1>f DEF Failing!CreateUndo
<1>16. Failing!DropLease(c) => failed' \in 0..Failures /\ crashed' = crashed
  BY <1>f DEF Failing!DropLease
<1>17. Failing!DropLive(c) => failed' \in 0..Failures /\ crashed' = crashed
  BY <1>f DEF Failing!DropLive
<1>18. Failing!DropRefused(c) => failed' \in 0..Failures /\ crashed' = crashed
  BY <1>f DEF Failing!DropRefused
<1>19. Failing!DropRecord(c) => failed' \in 0..Failures /\ crashed' = crashed
  BY <1>f DEF Failing!DropRecord
<1>20. Failing!UserRole(c) => failed' \in 0..Failures /\ crashed' = crashed
  BY <1>f DEF Failing!UserRole
<1>21. Failing!UserGrants(c) => failed' \in 0..Failures /\ crashed' = crashed
  BY <1>f DEF Failing!UserGrants
<1>22. Failing!UserRecord(c) => failed' \in 0..Failures /\ crashed' = crashed
  BY <1>f DEF Failing!UserRecord
<1>23. Failing!UserUndo(c) => failed' \in 0..Failures /\ crashed' = crashed
  BY <1>f DEF Failing!UserUndo
<1>24. Failing!GrantNew(c) => failed' \in 0..Failures /\ crashed' = crashed
  BY <1>f DEF Failing!GrantNew
<1>25. Failing!RevokeOld(c) => failed' \in 0..Failures /\ crashed' = crashed
  BY <1>f DEF Failing!RevokeOld
<1>26. Failing!GrantRecord(c) => failed' \in 0..Failures /\ crashed' = crashed
  BY <1>f DEF Failing!GrantRecord
<1>27. Failing!DeleteRole(c) => failed' \in 0..Failures /\ crashed' = crashed
  BY <1>f DEF Failing!DeleteRole
<1>28. Failing!DeleteUserRecord(c) => failed' \in 0..Failures /\ crashed' = crashed
  BY <1>f DEF Failing!DeleteUserRecord
<1>29. Failing!TakeLease(c) => failed' \in 0..Failures /\ crashed' = crashed
  BY <1>f DEF Failing!TakeLease
<1>30. Failing!LeaseRefused(c) => failed' \in 0..Failures /\ crashed' = crashed
  BY <1>f DEF Failing!LeaseRefused
<1>31. Failing!Install(c) => failed' \in 0..Failures /\ crashed' = crashed
  BY <1>f DEF Failing!Install
<1>32. Failing!ScheduleRecord(c) => failed' \in 0..Failures /\ crashed' = crashed
  BY <1>f DEF Failing!ScheduleRecord
<1>33. Failing!ScheduleUndo(c) => failed' \in 0..Failures /\ crashed' = crashed
  BY <1>f DEF Failing!ScheduleUndo
<1>34. Failing!Unschedule(c) => failed' \in 0..Failures /\ crashed' = crashed
  BY <1>f DEF Failing!Unschedule
<1>35. Failing!RunBackup(c) => failed' \in 0..Failures /\ crashed' = crashed
  BY <1>f DEF Failing!RunBackup
<1>36. Failing!BackupFails(c) => failed' \in 0..Failures /\ crashed' = crashed
  BY <1>f DEF Failing!BackupFails
<1>37. Failing!RestoreBackup(c) => failed' \in 0..Failures /\ crashed' = crashed
  BY <1>f DEF Failing!RestoreBackup
<1>38. Failing!StepFails(c) => failed' \in 0..Failures /\ crashed' = crashed
  BY <1>f DEF Failing!StepFails
<1> QED
  BY <1>1, <1>2, <1>3, <1>4, <1>5, <1>6, <1>7, <1>8, <1>9, <1>10, <1>11, <1>12, <1>13, <1>14, <1>15,
       <1>16, <1>17, <1>18, <1>19, <1>20, <1>21, <1>22, <1>23, <1>24, <1>25, <1>26, <1>27, <1>28,
       <1>29, <1>30, <1>31, <1>32, <1>33, <1>34, <1>35, <1>36, <1>37, <1>38 DEF Failing!Step

LEMMA LeasesBegins ==
  ASSUME NEW c, ManagedTypes, Constants, Leases!BeginAny(c)
  PROVE  \E w : Starts(c, w) /\ w.op \in {"enable", "create", "drop", "backup", "restore"}
<1> DEFINE Kinds == {"enable", "create", "drop", "backup", "restore"}
<1>a. ASSUME NEW w, Asked(w), Leases!Begin(c, w)
      PROVE  Starts(c, w) /\ w.op \in Kinds
  BY <1>a DEF Starts, Leases!Begin, Leases!Idle, Leases!cluster, Leases!postgres, Leases!sqlite,
       Leases!backupState, Failing!Idle, Failing!cluster, Failing!postgres, Failing!sqlite,
       Failing!backupState
<1> SUFFICES \E w : Asked(w) /\ Leases!Begin(c, w)
  BY <1>a
<1> HIDE DEF Kinds
<1>0. /\ Leases!Idle \in Task /\ Leases!RequireEnabled = enabled
      /\ \A u : Leases!GrantsOf(u) = Failing!GrantsOf(u)
  BY IdleRequest DEF Leases!Idle, Failing!Idle, Leases!RequireEnabled, Leases!GrantsOf, Failing!GrantsOf
<1>1. \A name \in Leases!Ops, at \in {"lock", "run", "lease"} :
        /\ Leases!Request(name, at) \in Task
        /\ Leases!Request(name, at).op = name /\ Leases!Request(name, at).at = at
  BY <1>0 DEF Leases!Request, Task, LeaseStages
<1>2. ASSUME NEW u \in Defaults, Leases!Enable(c, u)
      PROVE  \E w : Asked(w) /\ Leases!Begin(c, w)
  <2>s. u \in Names
    BY <1>2, Constants DEF Constants, Leases!DefaultsAreNames
  <2> DEFINE base == Leases!Request("enable", "lock")
  <2>1. base \in Task /\ base.op = "enable" /\ base.at = "lock"
    BY <1>1 DEF Leases!Ops
  <2> DEFINE w == [base EXCEPT !.u = u]
  <2>2. Leases!Begin(c, w)
    BY <1>2 DEF Leases!Enable
  <2> HIDE DEF base
  <2>3. w \in Task
    BY <1>2, <2>1, <2>s DEF Task
  <2>4. w.op = "enable"
    BY <1>2, <2>1, <2>s DEF Task
  <2>5. w.at = "lock"
    BY <1>2, <2>1, <2>s DEF Task
  <2>6. w.u = u
    BY <1>2, <2>1, <2>s DEF Task
  <2> HIDE DEF w
  <2>7. Asked(w)
    BY <1>0, <1>2, <2>3, <2>4, <2>5, <2>6 DEF Asked, Leases!Enable
  <2> QED
    BY <2>2, <2>7
<1>3. ASSUME NEW d \in Names, NEW u \in Names, Leases!CreateDatabase(c, d, u)
      PROVE  \E w : Asked(w) /\ Leases!Begin(c, w)
  <2> DEFINE base == Leases!Request("create", "lock")
  <2>1. base \in Task /\ base.op = "create" /\ base.at = "lock"
    BY <1>1 DEF Leases!Ops
  <2> DEFINE w == [base EXCEPT !.d = d, !.u = u]
  <2>2. Leases!Begin(c, w)
    BY <1>3 DEF Leases!CreateDatabase
  <2> HIDE DEF base
  <2>3. w \in Task
    BY <1>3, <2>1 DEF Task
  <2>4. w.op = "create"
    BY <1>3, <2>1 DEF Task
  <2>5. w.at = "lock"
    BY <1>3, <2>1 DEF Task
  <2>6. w.u = u /\ w.d = d
    BY <1>3, <2>1 DEF Task
  <2> HIDE DEF w
  <2>7. Asked(w)
    BY <1>0, <1>3, <2>3, <2>4, <2>5, <2>6 DEF Asked, Leases!CreateDatabase
  <2> QED
    BY <2>2, <2>7
<1>4. ASSUME NEW d \in Names, Leases!DropDatabase(c, d)
      PROVE  \E w : Asked(w) /\ Leases!Begin(c, w)
  <2> DEFINE base == Leases!Request("drop", "lock")
  <2>1. base \in Task /\ base.op = "drop" /\ base.at = "lock"
    BY <1>1 DEF Leases!Ops
  <2> DEFINE w == [base EXCEPT !.d = d]
  <2>2. Leases!Begin(c, w)
    BY <1>4 DEF Leases!DropDatabase
  <2> HIDE DEF base
  <2>3. w \in Task
    BY <1>4, <2>1 DEF Task
  <2>4. w.op = "drop"
    BY <1>4, <2>1 DEF Task
  <2>5. w.at = "lock"
    BY <1>4, <2>1 DEF Task
  <2>6. w.d = d
    BY <1>4, <2>1 DEF Task
  <2> HIDE DEF w
  <2>7. Asked(w)
    BY <1>0, <1>4, <2>3, <2>4, <2>5, <2>6 DEF Asked, Leases!DropDatabase
  <2> QED
    BY <2>2, <2>7
<1>5. ASSUME NEW u \in Names, NEW g \in SUBSET Names, Leases!CreateUser(c, u, g)
      PROVE  \E w : Asked(w) /\ Leases!Begin(c, w)
  <2> DEFINE base == Leases!Request("adduser", "lock")
  <2>1. base \in Task /\ base.op = "adduser" /\ base.at = "lock"
    BY <1>1 DEF Leases!Ops
  <2> DEFINE w == [base EXCEPT !.u = u, !.g = g]
  <2>2. Leases!Begin(c, w)
    BY <1>5 DEF Leases!CreateUser
  <2> HIDE DEF base
  <2>3. w \in Task
    BY <1>5, <2>1 DEF Task
  <2>4. w.op = "adduser"
    BY <1>5, <2>1 DEF Task
  <2>5. w.at = "lock"
    BY <1>5, <2>1 DEF Task
  <2>6. w.u = u
    BY <1>5, <2>1 DEF Task
  <2> HIDE DEF w
  <2>7. Asked(w)
    BY <1>0, <1>5, <2>3, <2>4, <2>5, <2>6 DEF Asked, Leases!CreateUser
  <2> QED
    BY <2>2, <2>7
<1>6. ASSUME NEW u \in Names, NEW g \in SUBSET Names, Leases!SetUserPermissions(c, u, g)
      PROVE  \E w : Asked(w) /\ Leases!Begin(c, w)
  <2> DEFINE seen == Leases!GrantsOf(u)
  <2>s. seen \in SUBSET Names /\ seen = Failing!GrantsOf(u)
    BY <1>0 DEF Failing!GrantsOf
  <2>t. seen = Leases!GrantsOf(u)
    OBVIOUS
  <2> HIDE DEF seen
  <2> DEFINE base == Leases!Request("grants", "lock")
  <2>1. base \in Task /\ base.op = "grants" /\ base.at = "lock"
    BY <1>1 DEF Leases!Ops
  <2> DEFINE w == [base EXCEPT !.u = u, !.g = g, !.seen = seen]
  <2>2. Leases!Begin(c, w)
    BY <1>6, <2>t DEF Leases!SetUserPermissions
  <2> HIDE DEF base
  <2>3. w \in Task
    BY <1>6, <2>1, <2>s DEF Task
  <2>4. w.op = "grants"
    BY <1>6, <2>1, <2>s DEF Task
  <2>5. w.at = "lock"
    BY <1>6, <2>1, <2>s DEF Task
  <2>6. w.u = u /\ w.seen = seen
    BY <1>6, <2>1, <2>s DEF Task
  <2> HIDE DEF w
  <2>7. Asked(w)
    BY <1>0, <1>6, <2>3, <2>4, <2>5, <2>6, <2>s, <2>t DEF Asked, Leases!SetUserPermissions
  <2> QED
    BY <2>2, <2>7
<1>7. ASSUME NEW u \in Names, Leases!DeleteUser(c, u)
      PROVE  \E w : Asked(w) /\ Leases!Begin(c, w)
  <2> DEFINE base == Leases!Request("deluser", "lock")
  <2>1. base \in Task /\ base.op = "deluser" /\ base.at = "lock"
    BY <1>1 DEF Leases!Ops
  <2> DEFINE w == [base EXCEPT !.u = u]
  <2>2. Leases!Begin(c, w)
    BY <1>7 DEF Leases!DeleteUser
  <2> HIDE DEF base
  <2>3. w \in Task
    BY <1>7, <2>1 DEF Task
  <2>4. w.op = "deluser"
    BY <1>7, <2>1 DEF Task
  <2>5. w.at = "lock"
    BY <1>7, <2>1 DEF Task
  <2>6. w.u = u
    BY <1>7, <2>1 DEF Task
  <2> HIDE DEF w
  <2>7. Asked(w)
    BY <1>0, <1>7, <2>3, <2>4, <2>5, <2>6 DEF Asked, Leases!DeleteUser
  <2> QED
    BY <2>2, <2>7
<1>8. ASSUME NEW d \in Names, NEW name \in {"schedule", "unschedule", "backup", "restore"},
             Leases!LeaseRequest(c, name, d)
      PROVE  \E w : Asked(w) /\ Leases!Begin(c, w)
  <2> DEFINE id == -rows[d]
  <2>s. id \in Int
    BY DEF ManagedTypes
  <2>t. id = -rows[d]
    OBVIOUS
  <2> HIDE DEF id
  <2> DEFINE base == Leases!Request(name, "lease")
  <2>1. base \in Task /\ base.op = name /\ base.at = "lease"
    BY <1>1 DEF Leases!Ops
  <2> DEFINE w == [base EXCEPT !.d = d, !.id = id]
  <2>2. Leases!Begin(c, w)
    BY <1>8, <2>t DEF Leases!LeaseRequest
  <2> HIDE DEF base
  <2>3. w \in Task
    BY <1>8, <2>1, <2>s DEF Task
  <2>4. w.op = name
    BY <1>8, <2>1, <2>s DEF Task
  <2>5. w.at = "lease"
    BY <1>8, <2>1, <2>s DEF Task
  <2>6. w.d = d /\ w.id = id
    BY <1>8, <2>1, <2>s DEF Task
  <2> HIDE DEF w
  <2>7. Asked(w)
    BY <1>0, <1>8, <2>3, <2>4, <2>5, <2>6, <2>s, <2>t DEF Asked, Leases!LeaseRequest
  <2> QED
    BY <2>2, <2>7
<1>9. ASSUME Leases!Disable(c) PROVE \E w : Asked(w) /\ Leases!Begin(c, w)
  <2> DEFINE w == Leases!Request("disable", "lock")
  <2>1. Leases!Begin(c, w)
    BY <1>9 DEF Leases!Disable
  <2>2. w \in Task /\ w.op = "disable" /\ w.at = "lock"
    BY <1>1 DEF Leases!Ops
  <2> HIDE DEF w
  <2> QED
    BY <2>1, <2>2 DEF Asked
<1>10. ASSUME Leases!Start(c) \/ Leases!Stop(c) PROVE \E w : Asked(w) /\ Leases!Begin(c, w)
  <2>0. PICK name \in {"start", "stop"} : enabled /\ Leases!Begin(c, Leases!Request(name, "run"))
    BY <1>0, <1>10 DEF Leases!Start, Leases!Stop
  <2> DEFINE w == Leases!Request(name, "run")
  <2>2. w \in Task /\ w.op = name /\ w.at = "run"
    BY <1>1 DEF Leases!Ops
  <2>1. enabled /\ Leases!Begin(c, w)
    BY <2>0
  <2> HIDE DEF w
  <2> QED
    BY <2>1, <2>2 DEF Asked
<1> QED
  BY <1>2, <1>3, <1>4, <1>5, <1>6, <1>7, <1>8, <1>9, <1>10 DEF Leases!BeginAny

LEMMA ClusterBegins ==
  ASSUME NEW c, ManagedTypes, Constants, Cluster!BeginAny(c)
  PROVE  \E w : /\ Starts(c, w)
              /\ w.op \in {"enable", "disable", "start", "stop", "create", "drop", "adduser",
                          "grants", "deluser"}
<1> DEFINE Kinds == {"enable", "disable", "start", "stop", "create", "drop", "adduser", "grants",
            "deluser"}
<1>a. ASSUME NEW w, Asked(w), Cluster!Begin(c, w)
      PROVE  Starts(c, w) /\ w.op \in Kinds
  BY <1>a DEF Starts, Cluster!Begin, Cluster!Idle, Cluster!cluster, Cluster!postgres,
       Cluster!sqlite, Cluster!backupState, Failing!Idle, Failing!cluster, Failing!postgres,
       Failing!sqlite, Failing!backupState
<1> SUFFICES \E w : Asked(w) /\ Cluster!Begin(c, w)
  BY <1>a
<1> HIDE DEF Kinds
<1>0. /\ Cluster!Idle \in Task /\ Cluster!RequireEnabled = enabled
      /\ \A u : Cluster!GrantsOf(u) = Failing!GrantsOf(u)
  BY IdleRequest DEF Cluster!Idle, Failing!Idle, Cluster!RequireEnabled, Cluster!GrantsOf, Failing!GrantsOf
<1>1. \A name \in Leases!Ops, at \in {"lock", "run", "lease"} :
        /\ Cluster!Request(name, at) \in Task
        /\ Cluster!Request(name, at).op = name /\ Cluster!Request(name, at).at = at
  BY <1>0 DEF Cluster!Request, Task, LeaseStages
<1>2. ASSUME NEW u \in Defaults, Cluster!Enable(c, u)
      PROVE  \E w : Asked(w) /\ Cluster!Begin(c, w)
  <2>s. u \in Names
    BY <1>2, Constants DEF Constants, Leases!DefaultsAreNames
  <2> DEFINE base == Cluster!Request("enable", "lock")
  <2>1. base \in Task /\ base.op = "enable" /\ base.at = "lock"
    BY <1>1 DEF Leases!Ops
  <2> DEFINE w == [base EXCEPT !.u = u]
  <2>2. Cluster!Begin(c, w)
    BY <1>2 DEF Cluster!Enable
  <2> HIDE DEF base
  <2>3. w \in Task
    BY <1>2, <2>1, <2>s DEF Task
  <2>4. w.op = "enable"
    BY <1>2, <2>1, <2>s DEF Task
  <2>5. w.at = "lock"
    BY <1>2, <2>1, <2>s DEF Task
  <2>6. w.u = u
    BY <1>2, <2>1, <2>s DEF Task
  <2> HIDE DEF w
  <2>7. Asked(w)
    BY <1>0, <1>2, <2>3, <2>4, <2>5, <2>6 DEF Asked, Cluster!Enable
  <2> QED
    BY <2>2, <2>7
<1>3. ASSUME NEW d \in Names, NEW u \in Names, Cluster!CreateDatabase(c, d, u)
      PROVE  \E w : Asked(w) /\ Cluster!Begin(c, w)
  <2> DEFINE base == Cluster!Request("create", "lock")
  <2>1. base \in Task /\ base.op = "create" /\ base.at = "lock"
    BY <1>1 DEF Leases!Ops
  <2> DEFINE w == [base EXCEPT !.d = d, !.u = u]
  <2>2. Cluster!Begin(c, w)
    BY <1>3 DEF Cluster!CreateDatabase
  <2> HIDE DEF base
  <2>3. w \in Task
    BY <1>3, <2>1 DEF Task
  <2>4. w.op = "create"
    BY <1>3, <2>1 DEF Task
  <2>5. w.at = "lock"
    BY <1>3, <2>1 DEF Task
  <2>6. w.u = u /\ w.d = d
    BY <1>3, <2>1 DEF Task
  <2> HIDE DEF w
  <2>7. Asked(w)
    BY <1>0, <1>3, <2>3, <2>4, <2>5, <2>6 DEF Asked, Cluster!CreateDatabase
  <2> QED
    BY <2>2, <2>7
<1>4. ASSUME NEW d \in Names, Cluster!DropDatabase(c, d)
      PROVE  \E w : Asked(w) /\ Cluster!Begin(c, w)
  <2> DEFINE base == Cluster!Request("drop", "lock")
  <2>1. base \in Task /\ base.op = "drop" /\ base.at = "lock"
    BY <1>1 DEF Leases!Ops
  <2> DEFINE w == [base EXCEPT !.d = d]
  <2>2. Cluster!Begin(c, w)
    BY <1>4 DEF Cluster!DropDatabase
  <2> HIDE DEF base
  <2>3. w \in Task
    BY <1>4, <2>1 DEF Task
  <2>4. w.op = "drop"
    BY <1>4, <2>1 DEF Task
  <2>5. w.at = "lock"
    BY <1>4, <2>1 DEF Task
  <2>6. w.d = d
    BY <1>4, <2>1 DEF Task
  <2> HIDE DEF w
  <2>7. Asked(w)
    BY <1>0, <1>4, <2>3, <2>4, <2>5, <2>6 DEF Asked, Cluster!DropDatabase
  <2> QED
    BY <2>2, <2>7
<1>5. ASSUME NEW u \in Names, NEW g \in SUBSET Names, Cluster!CreateUser(c, u, g)
      PROVE  \E w : Asked(w) /\ Cluster!Begin(c, w)
  <2> DEFINE base == Cluster!Request("adduser", "lock")
  <2>1. base \in Task /\ base.op = "adduser" /\ base.at = "lock"
    BY <1>1 DEF Leases!Ops
  <2> DEFINE w == [base EXCEPT !.u = u, !.g = g]
  <2>2. Cluster!Begin(c, w)
    BY <1>5 DEF Cluster!CreateUser
  <2> HIDE DEF base
  <2>3. w \in Task
    BY <1>5, <2>1 DEF Task
  <2>4. w.op = "adduser"
    BY <1>5, <2>1 DEF Task
  <2>5. w.at = "lock"
    BY <1>5, <2>1 DEF Task
  <2>6. w.u = u
    BY <1>5, <2>1 DEF Task
  <2> HIDE DEF w
  <2>7. Asked(w)
    BY <1>0, <1>5, <2>3, <2>4, <2>5, <2>6 DEF Asked, Cluster!CreateUser
  <2> QED
    BY <2>2, <2>7
<1>6. ASSUME NEW u \in Names, NEW g \in SUBSET Names, Cluster!SetUserPermissions(c, u, g)
      PROVE  \E w : Asked(w) /\ Cluster!Begin(c, w)
  <2> DEFINE seen == Cluster!GrantsOf(u)
  <2>s. seen \in SUBSET Names /\ seen = Failing!GrantsOf(u)
    BY <1>0 DEF Failing!GrantsOf
  <2>t. seen = Cluster!GrantsOf(u)
    OBVIOUS
  <2> HIDE DEF seen
  <2> DEFINE base == Cluster!Request("grants", "lock")
  <2>1. base \in Task /\ base.op = "grants" /\ base.at = "lock"
    BY <1>1 DEF Leases!Ops
  <2> DEFINE w == [base EXCEPT !.u = u, !.g = g, !.seen = seen]
  <2>2. Cluster!Begin(c, w)
    BY <1>6, <2>t DEF Cluster!SetUserPermissions
  <2> HIDE DEF base
  <2>3. w \in Task
    BY <1>6, <2>1, <2>s DEF Task
  <2>4. w.op = "grants"
    BY <1>6, <2>1, <2>s DEF Task
  <2>5. w.at = "lock"
    BY <1>6, <2>1, <2>s DEF Task
  <2>6. w.u = u /\ w.seen = seen
    BY <1>6, <2>1, <2>s DEF Task
  <2> HIDE DEF w
  <2>7. Asked(w)
    BY <1>0, <1>6, <2>3, <2>4, <2>5, <2>6, <2>s, <2>t DEF Asked, Cluster!SetUserPermissions
  <2> QED
    BY <2>2, <2>7
<1>7. ASSUME NEW u \in Names, Cluster!DeleteUser(c, u)
      PROVE  \E w : Asked(w) /\ Cluster!Begin(c, w)
  <2> DEFINE base == Cluster!Request("deluser", "lock")
  <2>1. base \in Task /\ base.op = "deluser" /\ base.at = "lock"
    BY <1>1 DEF Leases!Ops
  <2> DEFINE w == [base EXCEPT !.u = u]
  <2>2. Cluster!Begin(c, w)
    BY <1>7 DEF Cluster!DeleteUser
  <2> HIDE DEF base
  <2>3. w \in Task
    BY <1>7, <2>1 DEF Task
  <2>4. w.op = "deluser"
    BY <1>7, <2>1 DEF Task
  <2>5. w.at = "lock"
    BY <1>7, <2>1 DEF Task
  <2>6. w.u = u
    BY <1>7, <2>1 DEF Task
  <2> HIDE DEF w
  <2>7. Asked(w)
    BY <1>0, <1>7, <2>3, <2>4, <2>5, <2>6 DEF Asked, Cluster!DeleteUser
  <2> QED
    BY <2>2, <2>7
<1>8. ASSUME NEW d \in Names, NEW name \in {"schedule", "unschedule", "backup", "restore"},
             Cluster!LeaseRequest(c, name, d)
      PROVE  \E w : Asked(w) /\ Cluster!Begin(c, w)
  <2> DEFINE id == -rows[d]
  <2>s. id \in Int
    BY DEF ManagedTypes
  <2>t. id = -rows[d]
    OBVIOUS
  <2> HIDE DEF id
  <2> DEFINE base == Cluster!Request(name, "lease")
  <2>1. base \in Task /\ base.op = name /\ base.at = "lease"
    BY <1>1 DEF Leases!Ops
  <2> DEFINE w == [base EXCEPT !.d = d, !.id = id]
  <2>2. Cluster!Begin(c, w)
    BY <1>8, <2>t DEF Cluster!LeaseRequest
  <2> HIDE DEF base
  <2>3. w \in Task
    BY <1>8, <2>1, <2>s DEF Task
  <2>4. w.op = name
    BY <1>8, <2>1, <2>s DEF Task
  <2>5. w.at = "lease"
    BY <1>8, <2>1, <2>s DEF Task
  <2>6. w.d = d /\ w.id = id
    BY <1>8, <2>1, <2>s DEF Task
  <2> HIDE DEF w
  <2>7. Asked(w)
    BY <1>0, <1>8, <2>3, <2>4, <2>5, <2>6, <2>s, <2>t DEF Asked, Cluster!LeaseRequest
  <2> QED
    BY <2>2, <2>7
<1>9. ASSUME Cluster!Disable(c) PROVE \E w : Asked(w) /\ Cluster!Begin(c, w)
  <2> DEFINE w == Cluster!Request("disable", "lock")
  <2>1. Cluster!Begin(c, w)
    BY <1>9 DEF Cluster!Disable
  <2>2. w \in Task /\ w.op = "disable" /\ w.at = "lock"
    BY <1>1 DEF Leases!Ops
  <2> HIDE DEF w
  <2> QED
    BY <2>1, <2>2 DEF Asked
<1>10. ASSUME Cluster!Start(c) \/ Cluster!Stop(c) PROVE \E w : Asked(w) /\ Cluster!Begin(c, w)
  <2>0. PICK name \in {"start", "stop"} : enabled /\ Cluster!Begin(c, Cluster!Request(name, "run"))
    BY <1>0, <1>10 DEF Cluster!Start, Cluster!Stop
  <2> DEFINE w == Cluster!Request(name, "run")
  <2>2. w \in Task /\ w.op = name /\ w.at = "run"
    BY <1>1 DEF Leases!Ops
  <2>1. enabled /\ Cluster!Begin(c, w)
    BY <2>0
  <2> HIDE DEF w
  <2> QED
    BY <2>1, <2>2 DEF Asked
<1> QED
  BY <1>2, <1>3, <1>4, <1>5, <1>6, <1>7, <1>8, <1>9, <1>10 DEF Cluster!BeginAny

LEMMA FailingBegins ==
  ASSUME NEW c, ManagedTypes, Constants, Failing!BeginAny(c)
  PROVE  \E w : Starts(c, w) /\ w.op \in {"enable", "create", "drop", "deluser", "schedule", "unschedule"}
<1> DEFINE Kinds == {"enable", "create", "drop", "deluser", "schedule", "unschedule"}
<1>a. ASSUME NEW w, Asked(w), Failing!Begin(c, w)
      PROVE  Starts(c, w) /\ w.op \in Kinds
  BY <1>a DEF Starts, Failing!Begin, Failing!Idle, Failing!cluster, Failing!postgres,
       Failing!sqlite, Failing!backupState, Failing!Idle, Failing!cluster, Failing!postgres,
       Failing!sqlite, Failing!backupState
<1> SUFFICES \E w : Asked(w) /\ Failing!Begin(c, w)
  BY <1>a
<1> HIDE DEF Kinds
<1>0. /\ Failing!Idle \in Task /\ Failing!RequireEnabled = enabled
      /\ \A u : Failing!GrantsOf(u) = Failing!GrantsOf(u)
  BY IdleRequest DEF Failing!Idle, Failing!Idle, Failing!RequireEnabled, Failing!GrantsOf, Failing!GrantsOf
<1>1. \A name \in Leases!Ops, at \in {"lock", "run", "lease"} :
        /\ Failing!Request(name, at) \in Task
        /\ Failing!Request(name, at).op = name /\ Failing!Request(name, at).at = at
  BY <1>0 DEF Failing!Request, Task, LeaseStages
<1>2. ASSUME NEW u \in Defaults, Failing!Enable(c, u)
      PROVE  \E w : Asked(w) /\ Failing!Begin(c, w)
  <2>s. u \in Names
    BY <1>2, Constants DEF Constants, Leases!DefaultsAreNames
  <2> DEFINE base == Failing!Request("enable", "lock")
  <2>1. base \in Task /\ base.op = "enable" /\ base.at = "lock"
    BY <1>1 DEF Leases!Ops
  <2> DEFINE w == [base EXCEPT !.u = u]
  <2>2. Failing!Begin(c, w)
    BY <1>2 DEF Failing!Enable
  <2> HIDE DEF base
  <2>3. w \in Task
    BY <1>2, <2>1, <2>s DEF Task
  <2>4. w.op = "enable"
    BY <1>2, <2>1, <2>s DEF Task
  <2>5. w.at = "lock"
    BY <1>2, <2>1, <2>s DEF Task
  <2>6. w.u = u
    BY <1>2, <2>1, <2>s DEF Task
  <2> HIDE DEF w
  <2>7. Asked(w)
    BY <1>0, <1>2, <2>3, <2>4, <2>5, <2>6 DEF Asked, Failing!Enable
  <2> QED
    BY <2>2, <2>7
<1>3. ASSUME NEW d \in Names, NEW u \in Names, Failing!CreateDatabase(c, d, u)
      PROVE  \E w : Asked(w) /\ Failing!Begin(c, w)
  <2> DEFINE base == Failing!Request("create", "lock")
  <2>1. base \in Task /\ base.op = "create" /\ base.at = "lock"
    BY <1>1 DEF Leases!Ops
  <2> DEFINE w == [base EXCEPT !.d = d, !.u = u]
  <2>2. Failing!Begin(c, w)
    BY <1>3 DEF Failing!CreateDatabase
  <2> HIDE DEF base
  <2>3. w \in Task
    BY <1>3, <2>1 DEF Task
  <2>4. w.op = "create"
    BY <1>3, <2>1 DEF Task
  <2>5. w.at = "lock"
    BY <1>3, <2>1 DEF Task
  <2>6. w.u = u /\ w.d = d
    BY <1>3, <2>1 DEF Task
  <2> HIDE DEF w
  <2>7. Asked(w)
    BY <1>0, <1>3, <2>3, <2>4, <2>5, <2>6 DEF Asked, Failing!CreateDatabase
  <2> QED
    BY <2>2, <2>7
<1>4. ASSUME NEW d \in Names, Failing!DropDatabase(c, d)
      PROVE  \E w : Asked(w) /\ Failing!Begin(c, w)
  <2> DEFINE base == Failing!Request("drop", "lock")
  <2>1. base \in Task /\ base.op = "drop" /\ base.at = "lock"
    BY <1>1 DEF Leases!Ops
  <2> DEFINE w == [base EXCEPT !.d = d]
  <2>2. Failing!Begin(c, w)
    BY <1>4 DEF Failing!DropDatabase
  <2> HIDE DEF base
  <2>3. w \in Task
    BY <1>4, <2>1 DEF Task
  <2>4. w.op = "drop"
    BY <1>4, <2>1 DEF Task
  <2>5. w.at = "lock"
    BY <1>4, <2>1 DEF Task
  <2>6. w.d = d
    BY <1>4, <2>1 DEF Task
  <2> HIDE DEF w
  <2>7. Asked(w)
    BY <1>0, <1>4, <2>3, <2>4, <2>5, <2>6 DEF Asked, Failing!DropDatabase
  <2> QED
    BY <2>2, <2>7
<1>5. ASSUME NEW u \in Names, NEW g \in SUBSET Names, Failing!CreateUser(c, u, g)
      PROVE  \E w : Asked(w) /\ Failing!Begin(c, w)
  <2> DEFINE base == Failing!Request("adduser", "lock")
  <2>1. base \in Task /\ base.op = "adduser" /\ base.at = "lock"
    BY <1>1 DEF Leases!Ops
  <2> DEFINE w == [base EXCEPT !.u = u, !.g = g]
  <2>2. Failing!Begin(c, w)
    BY <1>5 DEF Failing!CreateUser
  <2> HIDE DEF base
  <2>3. w \in Task
    BY <1>5, <2>1 DEF Task
  <2>4. w.op = "adduser"
    BY <1>5, <2>1 DEF Task
  <2>5. w.at = "lock"
    BY <1>5, <2>1 DEF Task
  <2>6. w.u = u
    BY <1>5, <2>1 DEF Task
  <2> HIDE DEF w
  <2>7. Asked(w)
    BY <1>0, <1>5, <2>3, <2>4, <2>5, <2>6 DEF Asked, Failing!CreateUser
  <2> QED
    BY <2>2, <2>7
<1>6. ASSUME NEW u \in Names, NEW g \in SUBSET Names, Failing!SetUserPermissions(c, u, g)
      PROVE  \E w : Asked(w) /\ Failing!Begin(c, w)
  <2> DEFINE seen == Failing!GrantsOf(u)
  <2>s. seen \in SUBSET Names /\ seen = Failing!GrantsOf(u)
    BY <1>0 DEF Failing!GrantsOf
  <2>t. seen = Failing!GrantsOf(u)
    OBVIOUS
  <2> HIDE DEF seen
  <2> DEFINE base == Failing!Request("grants", "lock")
  <2>1. base \in Task /\ base.op = "grants" /\ base.at = "lock"
    BY <1>1 DEF Leases!Ops
  <2> DEFINE w == [base EXCEPT !.u = u, !.g = g, !.seen = seen]
  <2>2. Failing!Begin(c, w)
    BY <1>6, <2>t DEF Failing!SetUserPermissions
  <2> HIDE DEF base
  <2>3. w \in Task
    BY <1>6, <2>1, <2>s DEF Task
  <2>4. w.op = "grants"
    BY <1>6, <2>1, <2>s DEF Task
  <2>5. w.at = "lock"
    BY <1>6, <2>1, <2>s DEF Task
  <2>6. w.u = u /\ w.seen = seen
    BY <1>6, <2>1, <2>s DEF Task
  <2> HIDE DEF w
  <2>7. Asked(w)
    BY <1>0, <1>6, <2>3, <2>4, <2>5, <2>6, <2>s, <2>t DEF Asked, Failing!SetUserPermissions
  <2> QED
    BY <2>2, <2>7
<1>7. ASSUME NEW u \in Names, Failing!DeleteUser(c, u)
      PROVE  \E w : Asked(w) /\ Failing!Begin(c, w)
  <2> DEFINE base == Failing!Request("deluser", "lock")
  <2>1. base \in Task /\ base.op = "deluser" /\ base.at = "lock"
    BY <1>1 DEF Leases!Ops
  <2> DEFINE w == [base EXCEPT !.u = u]
  <2>2. Failing!Begin(c, w)
    BY <1>7 DEF Failing!DeleteUser
  <2> HIDE DEF base
  <2>3. w \in Task
    BY <1>7, <2>1 DEF Task
  <2>4. w.op = "deluser"
    BY <1>7, <2>1 DEF Task
  <2>5. w.at = "lock"
    BY <1>7, <2>1 DEF Task
  <2>6. w.u = u
    BY <1>7, <2>1 DEF Task
  <2> HIDE DEF w
  <2>7. Asked(w)
    BY <1>0, <1>7, <2>3, <2>4, <2>5, <2>6 DEF Asked, Failing!DeleteUser
  <2> QED
    BY <2>2, <2>7
<1>8. ASSUME NEW d \in Names, NEW name \in {"schedule", "unschedule", "backup", "restore"},
             Failing!LeaseRequest(c, name, d)
      PROVE  \E w : Asked(w) /\ Failing!Begin(c, w)
  <2> DEFINE id == -rows[d]
  <2>s. id \in Int
    BY DEF ManagedTypes
  <2>t. id = -rows[d]
    OBVIOUS
  <2> HIDE DEF id
  <2> DEFINE base == Failing!Request(name, "lease")
  <2>1. base \in Task /\ base.op = name /\ base.at = "lease"
    BY <1>1 DEF Leases!Ops
  <2> DEFINE w == [base EXCEPT !.d = d, !.id = id]
  <2>2. Failing!Begin(c, w)
    BY <1>8, <2>t DEF Failing!LeaseRequest
  <2> HIDE DEF base
  <2>3. w \in Task
    BY <1>8, <2>1, <2>s DEF Task
  <2>4. w.op = name
    BY <1>8, <2>1, <2>s DEF Task
  <2>5. w.at = "lease"
    BY <1>8, <2>1, <2>s DEF Task
  <2>6. w.d = d /\ w.id = id
    BY <1>8, <2>1, <2>s DEF Task
  <2> HIDE DEF w
  <2>7. Asked(w)
    BY <1>0, <1>8, <2>3, <2>4, <2>5, <2>6, <2>s, <2>t DEF Asked, Failing!LeaseRequest
  <2> QED
    BY <2>2, <2>7
<1>9. ASSUME Failing!Disable(c) PROVE \E w : Asked(w) /\ Failing!Begin(c, w)
  <2> DEFINE w == Failing!Request("disable", "lock")
  <2>1. Failing!Begin(c, w)
    BY <1>9 DEF Failing!Disable
  <2>2. w \in Task /\ w.op = "disable" /\ w.at = "lock"
    BY <1>1 DEF Leases!Ops
  <2> HIDE DEF w
  <2> QED
    BY <2>1, <2>2 DEF Asked
<1>10. ASSUME Failing!Start(c) \/ Failing!Stop(c) PROVE \E w : Asked(w) /\ Failing!Begin(c, w)
  <2>0. PICK name \in {"start", "stop"} : enabled /\ Failing!Begin(c, Failing!Request(name, "run"))
    BY <1>0, <1>10 DEF Failing!Start, Failing!Stop
  <2> DEFINE w == Failing!Request(name, "run")
  <2>2. w \in Task /\ w.op = name /\ w.at = "run"
    BY <1>1 DEF Leases!Ops
  <2>1. enabled /\ Failing!Begin(c, w)
    BY <2>0
  <2> HIDE DEF w
  <2> QED
    BY <2>1, <2>2 DEF Asked
<1> QED
  BY <1>2, <1>3, <1>4, <1>5, <1>6, <1>7, <1>8, <1>9, <1>10 DEF Failing!BeginAny

LEMMA LeasesAsSteps ==
  ASSUME Constants, ManagedTypes, failed = 0, crashed \in 0..Crashes, Leases!Next
  PROVE  Steps(Requests) /\ failed' = 0 /\ crashed' \in 0..Crashes
<1>1. ASSUME NEW c \in Requests, Leases!BeginAny(c)
      PROVE  Steps(Requests) /\ failed' = 0 /\ crashed' \in 0..Crashes
  BY <1>1, LeasesBegins DEF Steps, Starts
<1>2. ASSUME NEW c \in Requests, Leases!Step(c)
      PROVE  Steps(Requests) /\ failed' = 0 /\ crashed' \in 0..Crashes
  BY <1>2, LeasesAsFailing DEF Steps
<1>3. ASSUME NEW c \in Requests, Leases!StepFails(c) PROVE FALSE
  BY <1>3 DEF Leases!StepFails, Leases!Fail
<1>4. CASE Leases!Crash
  <2>1. /\ pc' = [c \in Requests |-> Failing!Idle] /\ holder' = None
        /\ UNCHANGED <<Failing!cluster, Failing!postgres, Failing!sqlite, Failing!backupState, leased>>
    BY <1>4 DEF Leases!Crash, Leases!Idle, Failing!Idle, Leases!cluster, Leases!postgres,
                Leases!sqlite, Leases!backupState, Failing!cluster, Failing!postgres,
                Failing!sqlite, Failing!backupState
  <2>2. failed' = 0 /\ crashed' \in 0..Crashes
    BY <1>4, Constants DEF Leases!Crash, Constants
  <2> QED
    BY <2>1, <2>2 DEF Steps
<1>5. CASE Leases!LeaseExpires
  BY <1>5 DEF Steps, Leases!LeaseExpires, Leases!cluster, Leases!postgres, Leases!sqlite,
              Leases!backupState, Failing!cluster, Failing!postgres, Failing!sqlite,
              Failing!backupState
<1> QED
  BY <1>1, <1>2, <1>3, <1>4, <1>5 DEF Leases!Next

LEMMA ClusterAsSteps ==
  ASSUME Constants, ManagedTypes, failed = 0, crashed = 0, Cluster!Next
  PROVE  /\ failed' = 0 /\ crashed' = 0
         /\ \/ \E w : Starts(r, w)
            \/ Failing!Step(r)
            \/ UNCHANGED <<Failing!cluster, Failing!postgres, Failing!sqlite, Failing!backupState,
                           holder, pc>> /\ leased' \subseteq leased
<1>1. CASE Cluster!BeginAny(r)
  BY <1>1, ClusterBegins DEF Starts
<1>2. CASE Cluster!Step(r)
  BY <1>2, ClusterAsFailing
<1>3. ASSUME Cluster!StepFails(r) PROVE FALSE
  BY <1>3 DEF Cluster!StepFails, Cluster!Fail
<1>4. ASSUME Cluster!Crash PROVE FALSE
  BY <1>4 DEF Cluster!Crash
<1>5. CASE Cluster!LeaseExpires
  BY <1>5 DEF Cluster!LeaseExpires, Cluster!cluster, Cluster!postgres, Cluster!sqlite,
              Cluster!backupState, Failing!cluster, Failing!postgres, Failing!sqlite,
              Failing!backupState
<1> QED
  BY <1>1, <1>2, <1>3, <1>4, <1>5 DEF Cluster!Next

LEMMA FailingAsSteps ==
  ASSUME Constants, ManagedTypes, failed \in 0..Failures, crashed = 0, Failing!Next
  PROVE  /\ failed' \in 0..Failures /\ crashed' = 0
         /\ \/ \E w : Starts(r, w) /\ w.op \in {"enable", "create", "drop", "deluser", "schedule",
                                                 "unschedule"}
            \/ Failing!Step(r) \/ Failing!StepFails(r)
            \/ UNCHANGED <<Failing!cluster, Failing!postgres, Failing!sqlite, Failing!backupState,
                           holder, pc>> /\ leased' \subseteq leased
<1>0. Failures \in Nat
  BY DEF Constants
<1>1. CASE Failing!BeginAny(r)
  BY <1>1, FailingBegins DEF Starts
<1>2. CASE Failing!Step(r) \/ Failing!StepFails(r)
  BY <1>0, <1>2, FailingCounts
<1>4. ASSUME Failing!Crash PROVE FALSE
  BY <1>4 DEF Failing!Crash
<1>5. CASE Failing!LeaseExpires
  BY <1>5 DEF Failing!LeaseExpires
<1> QED
  BY <1>1, <1>2, <1>4, <1>5 DEF Failing!Next

(* The step of the request keeps what holds while steps may fail.          *)
LEMMA FailingEnds ==
  ASSUME FailingHolds, pc'[r] = Failing!Idle, ~At("create", "record"), UNCHANGED <<live, rows>>
  PROVE  FailingHolds'
BY IdleRequest DEF FailingHolds, At

LEMMA FailingMoves ==
  ASSUME FailingHolds, UNCHANGED <<live, rows, running>>, ~At("create", "record"),
         pc'[r].op \in {"idle", "enable", "create", "drop", "deluser", "schedule", "unschedule"},
         pc'[r].op = "create" /\ pc'[r].at \in {"database", "record"} => running,
         ~(pc'[r].op = "enable" /\ pc'[r].at = "up")
  PROVE  FailingHolds'
BY DEF FailingHolds, At

LEMMA FailingKeeps ==
  ASSUME Constants, OneDefault, Managed({r}), FailingHolds, Failing!Step(r) \/ Failing!StepFails(r)
  PROVE  FailingHolds'
<1>0. /\ ManagedTypes /\ LoginKept /\ Known(r) /\ pc \in [{r} -> Task] /\ r \in {r}
      /\ pc[r] \in Task
  BY DEF Managed, RequestTypes
<1>1. CASE Failing!Refused(r)
  <2>1. pc'[r] = Failing!Idle
    BY <1>0, <1>1, Left DEF Leaves, Failing!Refused
  <2>2. UNCHANGED <<live, rows>> /\ ~At("create", "record")
    BY <1>1 DEF Failing!Refused, Failing!At, At, Failing!postgres, Failing!sqlite
  <2> QED
    BY <2>1, <2>2, FailingEnds
<1>2. CASE Failing!DropRefused(r)
  <2>1. pc'[r] = Failing!Idle
    BY <1>0, <1>2, Left DEF Leaves, Failing!DropRefused
  <2>2. UNCHANGED <<live, rows>> /\ ~At("create", "record")
    BY <1>2 DEF Failing!DropRefused, Failing!At, At, Failing!postgres, Failing!sqlite
  <2> QED
    BY <2>1, <2>2, FailingEnds
<1>3. CASE Failing!DeleteUserRecord(r)
  <2>1. pc'[r] = Failing!Idle
    BY <1>0, <1>3, Left DEF Leaves, Failing!DeleteUserRecord
  <2>2. UNCHANGED <<live, rows>> /\ ~At("create", "record")
    BY <1>3 DEF Failing!DeleteUserRecord, Failing!At, At, Failing!postgres, Failing!sqlite
  <2> QED
    BY <2>1, <2>2, FailingEnds
<1>4. CASE Failing!LeaseRefused(r)
  <2>1. pc'[r] = Failing!Idle
    BY <1>0, <1>4, Left DEF Leaves, Failing!LeaseRefused
  <2>2. UNCHANGED <<live, rows>> /\ ~At("create", "record")
    BY <1>4 DEF Failing!LeaseRefused, Failing!At, At, Failing!postgres, Failing!sqlite
  <2> QED
    BY <2>1, <2>2, FailingEnds
<1>5. CASE Failing!ScheduleRecord(r)
  <2>1. pc'[r] = Failing!Idle
    BY <1>0, <1>5, Left DEF Leaves, Failing!ScheduleRecord
  <2>2. UNCHANGED <<live, rows>> /\ ~At("create", "record")
    BY <1>5 DEF Failing!ScheduleRecord, Failing!At, At, Failing!postgres, Failing!sqlite
  <2> QED
    BY <2>1, <2>2, FailingEnds
<1>6. CASE Failing!ScheduleUndo(r)
  <2>1. pc'[r] = Failing!Idle
    BY <1>0, <1>6, Left DEF Leaves, Failing!ScheduleUndo
  <2>2. UNCHANGED <<live, rows>> /\ ~At("create", "record")
    BY <1>6 DEF Failing!ScheduleUndo, Failing!At, At, Failing!postgres, Failing!sqlite
  <2> QED
    BY <2>1, <2>2, FailingEnds
<1>7. CASE Failing!Unschedule(r)
  <2>1. pc'[r] = Failing!Idle
    BY <1>0, <1>7, Left DEF Leaves, Failing!Unschedule
  <2>2. UNCHANGED <<live, rows>> /\ ~At("create", "record")
    BY <1>7 DEF Failing!Unschedule, Failing!At, At, Failing!postgres, Failing!sqlite
  <2> QED
    BY <2>1, <2>2, FailingEnds
<1>8. CASE Failing!StepFails(r)
  <2>1. pc'[r] = Failing!Idle
    BY <1>0, <1>8, Left DEF Leaves, Failing!StepFails
  <2>2. UNCHANGED <<live, rows>> /\ ~At("create", "record")
    BY <1>8 DEF Failing!StepFails, Failing!At, At, Failing!postgres, Failing!sqlite
  <2> QED
    BY <2>1, <2>2, FailingEnds
<1>9. CASE Failing!EnableFiles(r)
  <2>1. Advances({r}, r, "cluster")
    BY <1>0, <1>9, Advanced DEF LeaseStages, Failing!EnableFiles
  <2>2. UNCHANGED <<live, rows, running>> /\ ~At("create", "record")
    BY <1>9 DEF Failing!EnableFiles, Failing!At, At, Failing!cluster, Failing!postgres, Failing!sqlite
  <2>3. pc[r].op \in {"idle", "enable", "create", "drop", "deluser", "schedule", "unschedule"}
    BY DEF FailingHolds
  <2>4. pc[r].op # "create" \/ "cluster" \notin {"database", "record"}
    BY <1>9 DEF Failing!EnableFiles, Failing!At
  <2> QED
    BY <2>1, <2>2, <2>3, <2>4, FailingMoves DEF Advances
<1>10. CASE Failing!EnableCluster(r)
  <2>1. Advances({r}, r, "rows")
    BY <1>0, <1>10, Advanced DEF LeaseStages, Failing!EnableCluster
  <2>2. UNCHANGED <<live, rows, running>> /\ ~At("create", "record")
    BY <1>10 DEF Failing!EnableCluster, Failing!At, At, Failing!cluster, Failing!postgres, Failing!sqlite
  <2>3. pc[r].op \in {"idle", "enable", "create", "drop", "deluser", "schedule", "unschedule"}
    BY DEF FailingHolds
  <2>4. pc[r].op # "create" \/ "rows" \notin {"database", "record"}
    BY <1>10 DEF Failing!EnableCluster, Failing!At
  <2> QED
    BY <2>1, <2>2, <2>3, <2>4, FailingMoves DEF Advances
<1>11. CASE Failing!Install(r)
  <2>1. Advances({r}, r, "record")
    BY <1>0, <1>11, Advanced DEF LeaseStages, Failing!Install
  <2>2. UNCHANGED <<live, rows, running>> /\ ~At("create", "record")
    BY <1>11 DEF Failing!Install, Failing!At, At, Failing!cluster, Failing!postgres, Failing!sqlite
  <2>3. pc[r].op \in {"idle", "enable", "create", "drop", "deluser", "schedule", "unschedule"}
    BY DEF FailingHolds
  <2>4. pc[r].op # "create" \/ "record" \notin {"database", "record"}
    BY <1>11 DEF Failing!Install, Failing!At
  <2> QED
    BY <2>1, <2>2, <2>3, <2>4, FailingMoves DEF Advances
<1>12. CASE Failing!DeleteRole(r)
  <2>1. Advances({r}, r, "record")
    BY <1>0, <1>12, Advanced DEF LeaseStages, Failing!DeleteRole
  <2>2. UNCHANGED <<live, rows, running>> /\ ~At("create", "record")
    BY <1>12 DEF Failing!DeleteRole, Failing!At, At, Failing!cluster, Failing!postgres, Failing!sqlite
  <2>3. pc[r].op \in {"idle", "enable", "create", "drop", "deluser", "schedule", "unschedule"}
    BY DEF FailingHolds
  <2>4. pc[r].op # "create" \/ "record" \notin {"database", "record"}
    BY <1>12 DEF Failing!DeleteRole, Failing!At
  <2> QED
    BY <2>1, <2>2, <2>3, <2>4, FailingMoves DEF Advances
<1>13. CASE Failing!Lock(r)
  <2>1. Advances({r}, r, "check")
    BY <1>0, <1>13, Advanced DEF LeaseStages, Failing!Lock
  <2>2. UNCHANGED <<live, rows, running>> /\ ~At("create", "record")
    BY <1>13 DEF Failing!Lock, Failing!At, At, Failing!cluster, Failing!postgres, Failing!sqlite
  <2>3. pc[r].op \in {"idle", "enable", "create", "drop", "deluser", "schedule", "unschedule"}
    BY DEF FailingHolds
  <2>4. pc[r].op # "create" \/ "check" \notin {"database", "record"}
    BY <1>13 DEF Failing!Lock, Failing!At
  <2> QED
    BY <2>1, <2>2, <2>3, <2>4, FailingMoves DEF Advances
<1>14. CASE Failing!DropLease(r)
  <2>1. PICK id : pc' = [pc EXCEPT ![r].at = "drop", ![r].id = id]
    BY <1>14 DEF Failing!DropLease
  <2> DEFINE next == [pc[r] EXCEPT !.at = "drop", !.id = id]
  <2>2. next.op = pc[r].op /\ next.at = "drop"
    BY <1>0 DEF Task
  <2>3. pc' = [pc EXCEPT ![r] = next]
    BY <2>1
  <2> HIDE DEF next
  <2>4. pc'[r].op = pc[r].op /\ pc'[r].at = "drop"
    BY <1>0, <2>2, <2>3
  <2>5. UNCHANGED <<live, rows, running>> /\ ~At("create", "record")
    BY <1>14 DEF Failing!DropLease, Failing!At, At, Failing!cluster, Failing!postgres, Failing!sqlite
  <2> QED
    BY <2>4, <2>5, FailingMoves DEF FailingHolds
<1>15. CASE Failing!TakeLease(r)
  <2>1. PICK id : pc' = [pc EXCEPT ![r].at = "leased", ![r].id = id]
    BY <1>15 DEF Failing!TakeLease
  <2> DEFINE next == [pc[r] EXCEPT !.at = "leased", !.id = id]
  <2>2. next.op = pc[r].op /\ next.at = "leased"
    BY <1>0 DEF Task
  <2>3. pc' = [pc EXCEPT ![r] = next]
    BY <2>1
  <2> HIDE DEF next
  <2>4. pc'[r].op = pc[r].op /\ pc'[r].at = "leased"
    BY <1>0, <2>2, <2>3
  <2>5. UNCHANGED <<live, rows, running>> /\ ~At("create", "record")
    BY <1>15 DEF Failing!TakeLease, Failing!At, At, Failing!cluster, Failing!postgres, Failing!sqlite
  <2> QED
    BY <2>4, <2>5, FailingMoves DEF FailingHolds
<1>16. CASE Failing!CreateRole(r)
  <2> DEFINE mine == pc[r].u \notin roles
             next == [pc[r] EXCEPT !.at = "database", !.mine = mine]
  <2>1. pc' = [pc EXCEPT ![r] = next]
    BY <1>16 DEF Failing!CreateRole
  <2>2. next.op = pc[r].op /\ next.at = "database"
    BY <1>0 DEF Task
  <2> HIDE DEF next
  <2>3. pc'[r].op = pc[r].op /\ pc'[r].at = "database"
    BY <1>0, <2>1, <2>2
  <2>4. /\ UNCHANGED <<live, rows, running>> /\ running /\ pc[r].op = "create"
        /\ ~At("create", "record")
    BY <1>16 DEF Failing!CreateRole, Failing!Answers, Failing!At, At, Failing!cluster, Failing!sqlite
  <2> QED
    BY <2>3, <2>4, FailingMoves
<1>17. CASE Failing!EnableRows(r)
  <2>1. Advances({r}, r, "up")
    BY <1>0, <1>17, Advanced DEF LeaseStages, Failing!EnableRows
  <2>2. At("enable", "rows") /\ UNCHANGED <<live, running>>
    BY <1>17 DEF Failing!EnableRows, Failing!At, At, Failing!cluster, Failing!postgres
  <2>3. pc[r].u \in Names /\ lastID + 1 # 0
    BY <1>0, <2>2, Constants
    DEF Known, Named, At, Constants, Leases!DefaultsAreNames, ManagedTypes
  <2>4. (rows' = rows /\ rows[pc[r].u] # 0) \/ rows' = [rows EXCEPT ![pc[r].u] = lastID + 1]
    BY <1>17 DEF Failing!EnableRows
  <2>5. rows'[pc[r].u] # 0 /\ \A d \in Names : rows[d] # 0 => rows'[d] # 0
    BY <1>0, <2>3, <2>4 DEF ManagedTypes
  <2> QED
    BY <2>1, <2>2, <2>5 DEF Advances, FailingHolds, At
<1>18. CASE Failing!EnableUp(r)
  <2>1. pc'[r] = Failing!Idle
    BY <1>0, <1>18, Left DEF Leaves, Failing!EnableUp
  <2>2. At("enable", "up") /\ rows' = rows /\ rows[pc[r].u] # 0
    BY <1>18 DEF Failing!EnableUp, Failing!At, At, Failing!sqlite, FailingHolds
  <2>3. env = pc[r].u
    BY <1>0, <2>2 DEF Known, Named, Started, LoginKept, OneDefault, At
  <2>4. \A d \in Names : live'[d] # None => live[d] # None \/ d = env
    BY <1>0, <1>18 DEF Failing!EnableUp, Failing!Up, Failing!postgres, ManagedTypes
  <2> QED
    BY <2>1, <2>2, <2>3, <2>4, IdleRequest DEF FailingHolds, At
<1>19. CASE Failing!CreateLive(r)
  <2>1. Advances({r}, r, "record")
    BY <1>0, <1>19, Advanced DEF LeaseStages, Failing!CreateLive
  <2>2. /\ At("create", "database") /\ UNCHANGED <<rows, running>> /\ running
        /\ live' = [live EXCEPT ![pc[r].d] = pc[r].u]
    BY <1>19 DEF Failing!CreateLive, Failing!Answers, Failing!At, At, Failing!cluster, Failing!sqlite
  <2>3. \A d \in Names : d # pc[r].d => live'[d] = live[d]
    BY <1>0, <2>2 DEF ManagedTypes
  <2> QED
    BY <2>1, <2>2, <2>3 DEF Advances, FailingHolds, At
<1>20. CASE Failing!CreateRecord(r)
  <2>1. pc'[r] = Failing!Idle
    BY <1>0, <1>20, Left DEF Leaves, Failing!CreateRecord
  <2>2. /\ At("create", "record") /\ live' = live
        /\ rows' = [rows EXCEPT ![pc[r].d] = lastID + 1]
    BY <1>20 DEF Failing!CreateRecord, Failing!At, At, Failing!postgres
  <2>3. pc[r].d \in Names /\ lastID + 1 # 0
    BY <1>0, <2>2 DEF Known, Named, At, ManagedTypes
  <2>4. rows'[pc[r].d] # 0 /\ \A d \in Names : rows[d] # 0 => rows'[d] # 0
    BY <1>0, <2>2, <2>3 DEF ManagedTypes
  <2> QED
    BY <2>1, <2>2, <2>4, IdleRequest DEF FailingHolds, At
<1>21. CASE Failing!CreateUndo(r)
  <2>1. pc'[r] = Failing!Idle /\ rows' = rows
    BY <1>0, <1>21, Left DEF Leaves, Failing!CreateUndo, Failing!sqlite
  <2>2. pc[r].op = "create" /\ pc[r].at \in {"database", "record"}
    BY <1>21 DEF Failing!CreateUndo
  <2>3. Failing!Answers
    BY <1>0, <2>2 DEF FailingHolds, LoginKept, Failing!Answers
  <2>4. live' = IF pc[r].at = "record" THEN [live EXCEPT ![pc[r].d] = None] ELSE live
    BY <1>21, <2>3 DEF Failing!CreateUndo
  <2>5. \A d \in Names : live'[d] # None => live[d] # None /\ ~(pc[r].at = "record" /\ d = pc[r].d)
    BY <1>0, <2>4 DEF ManagedTypes
  <2> QED
    BY <2>1, <2>2, <2>5, IdleRequest DEF FailingHolds, At
<1>22. CASE Failing!DropLive(r)
  <2>1. Advances({r}, r, "unrecord")
    BY <1>0, <1>22, Advanced DEF LeaseStages, Failing!DropLive
  <2>2. /\ At("drop", "drop") /\ UNCHANGED <<rows, running>>
        /\ live' = live \/ live' = [live EXCEPT ![pc[r].d] = None]
    BY <1>22 DEF Failing!DropLive, Failing!At, At, Failing!cluster, Failing!sqlite
  <2>3. \A d \in Names : live'[d] # None => live[d] # None
    BY <1>0, <2>2 DEF ManagedTypes
  <2> QED
    BY <2>1, <2>2, <2>3 DEF Advances, FailingHolds, At
<1>23. CASE Failing!DropRecord(r)
  <2>1. pc'[r] = Failing!Idle
    BY <1>0, <1>23, Left DEF Leaves, Failing!DropRecord
  <2>2. /\ At("drop", "unrecord") /\ live' = live
        /\ rows' = [rows EXCEPT ![pc[r].d] = 0]
    BY <1>23 DEF Failing!DropRecord, Failing!Unrecord, Failing!At, At, Failing!postgres
  <2>3. live[pc[r].d] = None
    BY <1>0, <2>2 DEF Known, Gone, At
  <2>4. \A d \in Names : d # pc[r].d => rows'[d] = rows[d]
    BY <1>0, <2>2 DEF ManagedTypes
  <2> QED
    BY <2>1, <2>2, <2>3, <2>4, IdleRequest DEF FailingHolds, At
<1>24. CASE Failing!DisableStop(r) \/ Failing!DisableRecord(r) \/ Failing!StartCluster(r)
            \/ Failing!StopCluster(r) \/ Failing!RestartCluster(r) \/ Failing!UserRole(r)
            \/ Failing!UserGrants(r) \/ Failing!UserRecord(r) \/ Failing!UserUndo(r)
            \/ Failing!GrantNew(r) \/ Failing!RevokeOld(r) \/ Failing!GrantRecord(r)
            \/ Failing!RunBackup(r) \/ Failing!BackupFails(r) \/ Failing!RestoreBackup(r)
  BY <1>24 DEF FailingHolds, Failing!At, Failing!DisableStop, Failing!DisableRecord,
       Failing!StartCluster, Failing!StopCluster, Failing!RestartCluster, Failing!UserRole,
       Failing!UserGrants, Failing!UserRecord, Failing!UserUndo, Failing!GrantNew,
       Failing!RevokeOld, Failing!GrantRecord, Failing!RunBackup, Failing!BackupFails,
       Failing!RestoreBackup
<1> QED
  BY <1>1, <1>2, <1>3, <1>4, <1>5, <1>6, <1>7, <1>8, <1>9, <1>10, <1>11, <1>12, <1>13, <1>14, <1>15,
       <1>16, <1>17, <1>18, <1>19, <1>20, <1>21, <1>22, <1>23, <1>24 DEF Failing!Step

(* Without failing steps: what is listed when the request has ended.       *)
Plain ==
  /\ \A d \in Names : rows[d] # 0 => live[d] # None
  /\ users \subseteq roles /\ grants \subseteq access
Nothing == (\A d \in Names : rows[d] = 0) /\ users = {} /\ grants = {}
Whole ==
  /\ enabled => login # None
  /\ login = None => Nothing
  /\ login # None => Plain /\ rows[login] # 0 /\ login \in users
Between(c) == ~At("enable", "rows") /\ ~At("enable", "up") /\ ~At("drop", "unrecord")
              /\ ~At("deluser", "record") /\ ~At("grants", "record")
DataSame == UNCHANGED <<login, live, roles, access, rows, users, grants>>

LEMMA WholeBetween ==
  ASSUME ClusterHolds, Between(r) PROVE Whole
BY DEF ClusterHolds, Working, Listed, Fresh, Whole, Plain, Nothing, Between, At

LEMMA ClusterEnds ==
  ASSUME pc'[r] = Failing!Idle, Whole'
  PROVE  ClusterHolds'
BY IdleRequest
DEF ClusterHolds, Working, Listed, Fresh, Creating, AddingUser, Granting, Deleting, Whole, Plain,
    Nothing, At

LEMMA WholeKept ==
  ASSUME Whole, DataSame, enabled' => enabled PROVE Whole'
BY DEF Whole, Plain, Nothing, DataSame

(* A request between its first and its telling stages.                     *)
LEMMA ClusterGoesOn ==
  ASSUME Whole', pc'[r].op \notin {"idle", "enable", "disable"} => login' # None,
         pc'[r].at \notin {"up", "unrecord", "database", "grant", "revoke"},
         pc'[r].at = "record" => pc'[r].op \in {"disable", "schedule"},
         pc'[r].op = "grants" =>
           /\ pc'[r].u \in users'
           /\ \A d \in Names : d \in pc'[r].seen <=> <<pc'[r].u, d>> \in grants',
         pc'[r].op = "deluser" => pc'[r].u \in users'
  PROVE  ClusterHolds'
BY DEF ClusterHolds, Working, Listed, Fresh, Creating, AddingUser, Granting, Deleting, Whole, Plain,
       Nothing, At

LEMMA ClusterStarts ==
  ASSUME ManagedTypes, pc \in [{r} -> Task], ClusterHolds, NEW w, Starts(r, w)
  PROVE  ClusterHolds'
<1>1. Whole /\ (enabled => login # None)
  BY WholeBetween, IdleRequest DEF Between, At, Starts, Whole
<1>2. Whole' /\ UNCHANGED <<login, users, grants>>
  BY <1>1, WholeKept
  DEF Starts, DataSame, Failing!cluster, Failing!postgres, Failing!sqlite
<1>3. pc'[r] = w /\ Asked(w)
  BY DEF Starts
<1>4. w.op = "grants" => \A d \in Names : d \in w.seen <=> <<w.u, d>> \in grants
  BY <1>3 DEF Asked, Failing!GrantsOf
<1> QED
  BY <1>1, <1>2, <1>3, <1>4, ClusterGoesOn DEF Asked

LEMMA ClusterKeeps ==
  ASSUME Constants, OneDefault, Managed({r}), ClusterHolds, Failing!Step(r), failed = 0, failed' = 0
  PROVE  ClusterHolds'
<1>0. /\ ManagedTypes /\ LoginKept /\ Known(r) /\ pc \in [{r} -> Task] /\ r \in {r}
      /\ pc[r] \in Task
  BY DEF Managed, RequestTypes
<1>w. Working /\ Creating /\ AddingUser /\ Granting /\ Deleting
  BY DEF ClusterHolds
<1>l. pc[r].op \notin {"idle", "enable", "disable"} =>
        login # None /\ Listed /\ rows[login] # 0 /\ login \in users
  BY DEF ClusterHolds, Working
<1>f. ~Failing!Fail
  BY DEF Failing!Fail
<1>1. CASE Failing!Refused(r)
  <2>1. pc'[r] = Failing!Idle
    BY <1>0, <1>1, Left DEF Leaves, Failing!Refused
  <2>2. DataSame /\ (enabled' => enabled) /\ Between(r)
    BY <1>1 DEF Failing!Refused, Failing!At, At, Between, DataSame, Failing!cluster,
                Failing!postgres, Failing!sqlite
  <2> QED
    BY <2>1, <2>2, WholeBetween, WholeKept, ClusterEnds
<1>2. CASE Failing!DropRefused(r)
  <2>1. pc'[r] = Failing!Idle
    BY <1>0, <1>2, Left DEF Leaves, Failing!DropRefused
  <2>2. DataSame /\ (enabled' => enabled) /\ Between(r)
    BY <1>2 DEF Failing!DropRefused, Failing!At, At, Between, DataSame, Failing!cluster,
                Failing!postgres, Failing!sqlite
  <2> QED
    BY <2>1, <2>2, WholeBetween, WholeKept, ClusterEnds
<1>3. CASE Failing!DisableRecord(r)
  <2>1. pc'[r] = Failing!Idle
    BY <1>0, <1>3, Left DEF Leaves, Failing!DisableRecord
  <2>2. DataSame /\ (enabled' => enabled) /\ Between(r)
    BY <1>3 DEF Failing!DisableRecord, Failing!At, At, Between, DataSame, Failing!cluster,
                Failing!postgres, Failing!sqlite
  <2> QED
    BY <2>1, <2>2, WholeBetween, WholeKept, ClusterEnds
<1>4. CASE Failing!StopCluster(r)
  <2>1. pc'[r] = Failing!Idle
    BY <1>0, <1>4, Left DEF Leaves, Failing!StopCluster
  <2>2. DataSame /\ (enabled' => enabled) /\ Between(r)
    BY <1>4 DEF Failing!StopCluster, Failing!At, At, Between, DataSame, Failing!cluster,
                Failing!postgres, Failing!sqlite
  <2> QED
    BY <2>1, <2>2, WholeBetween, WholeKept, ClusterEnds
<1>5. CASE Failing!RestartCluster(r)
  <2>1. pc'[r] = Failing!Idle
    BY <1>0, <1>5, Left DEF Leaves, Failing!RestartCluster
  <2>2. DataSame /\ (enabled' => enabled) /\ Between(r)
    BY <1>5 DEF Failing!RestartCluster, Failing!At, At, Between, DataSame, Failing!cluster,
                Failing!postgres, Failing!sqlite
  <2> QED
    BY <2>1, <2>2, WholeBetween, WholeKept, ClusterEnds
<1>6. CASE Failing!LeaseRefused(r)
  <2>1. pc'[r] = Failing!Idle
    BY <1>0, <1>6, Left DEF Leaves, Failing!LeaseRefused
  <2>2. DataSame /\ (enabled' => enabled) /\ Between(r)
    BY <1>6 DEF Failing!LeaseRefused, Failing!At, At, Between, DataSame, Failing!cluster,
                Failing!postgres, Failing!sqlite
  <2> QED
    BY <2>1, <2>2, WholeBetween, WholeKept, ClusterEnds
<1>7. CASE Failing!ScheduleRecord(r)
  <2>1. pc'[r] = Failing!Idle
    BY <1>0, <1>7, Left DEF Leaves, Failing!ScheduleRecord
  <2>2. DataSame /\ (enabled' => enabled) /\ Between(r)
    BY <1>7 DEF Failing!ScheduleRecord, Failing!At, At, Between, DataSame, Failing!cluster,
                Failing!postgres, Failing!sqlite
  <2> QED
    BY <2>1, <2>2, WholeBetween, WholeKept, ClusterEnds
<1>8. CASE Failing!ScheduleUndo(r)
  <2>1. pc'[r] = Failing!Idle
    BY <1>0, <1>8, Left DEF Leaves, Failing!ScheduleUndo
  <2>2. DataSame /\ (enabled' => enabled) /\ Between(r)
    BY <1>8 DEF Failing!ScheduleUndo, Failing!At, At, Between, DataSame, Failing!cluster,
                Failing!postgres, Failing!sqlite
  <2> QED
    BY <2>1, <2>2, WholeBetween, WholeKept, ClusterEnds
<1>9. CASE Failing!Unschedule(r)
  <2>1. pc'[r] = Failing!Idle
    BY <1>0, <1>9, Left DEF Leaves, Failing!Unschedule
  <2>2. DataSame /\ (enabled' => enabled) /\ Between(r)
    BY <1>9 DEF Failing!Unschedule, Failing!At, At, Between, DataSame, Failing!cluster,
                Failing!postgres, Failing!sqlite
  <2> QED
    BY <2>1, <2>2, WholeBetween, WholeKept, ClusterEnds
<1>10. CASE Failing!RunBackup(r)
  <2>1. pc'[r] = Failing!Idle
    BY <1>0, <1>10, Left DEF Leaves, Failing!RunBackup
  <2>2. DataSame /\ (enabled' => enabled) /\ Between(r)
    BY <1>10 DEF Failing!RunBackup, Failing!At, At, Between, DataSame, Failing!cluster,
                Failing!postgres, Failing!sqlite
  <2> QED
    BY <2>1, <2>2, WholeBetween, WholeKept, ClusterEnds
<1>11. CASE Failing!BackupFails(r)
  <2>1. pc'[r] = Failing!Idle
    BY <1>0, <1>11, Left DEF Leaves, Failing!BackupFails
  <2>2. DataSame /\ (enabled' => enabled) /\ Between(r)
    BY <1>11 DEF Failing!BackupFails, Failing!At, At, Between, DataSame, Failing!cluster,
                Failing!postgres, Failing!sqlite
  <2> QED
    BY <2>1, <2>2, WholeBetween, WholeKept, ClusterEnds
<1>12. CASE Failing!RestoreBackup(r)
  <2>1. pc'[r] = Failing!Idle
    BY <1>0, <1>12, Left DEF Leaves, Failing!RestoreBackup
  <2>2. DataSame /\ (enabled' => enabled) /\ Between(r)
    BY <1>12 DEF Failing!RestoreBackup, Failing!At, At, Between, DataSame, Failing!cluster,
                Failing!postgres, Failing!sqlite
  <2> QED
    BY <2>1, <2>2, WholeBetween, WholeKept, ClusterEnds
<1>13. CASE Failing!Lock(r)
  <2>1. Advances({r}, r, "check")
    BY <1>0, <1>13, Advanced DEF LeaseStages, Failing!Lock
  <2>2. DataSame /\ enabled' = enabled /\ Between(r)
    BY <1>13 DEF Failing!Lock, Failing!At, At, Between, DataSame, Failing!cluster,
                Failing!postgres, Failing!sqlite
  <2>3. Whole' /\ UNCHANGED <<login, users, grants>>
    BY <2>2, WholeBetween, WholeKept DEF DataSame
  <2>4. "check" = "record" => pc[r].op \in {"disable", "schedule"}
    BY <1>13 DEF Failing!Lock, Failing!At
  <2> QED
    BY <1>w, <2>1, <2>3, <2>4, ClusterGoesOn DEF Advances, Working, Granting, Deleting
<1>14. CASE Failing!EnableFiles(r)
  <2>1. Advances({r}, r, "cluster")
    BY <1>0, <1>14, Advanced DEF LeaseStages, Failing!EnableFiles
  <2>2. DataSame /\ enabled' = enabled /\ Between(r)
    BY <1>14 DEF Failing!EnableFiles, Failing!At, At, Between, DataSame, Failing!cluster,
                Failing!postgres, Failing!sqlite
  <2>3. Whole' /\ UNCHANGED <<login, users, grants>>
    BY <2>2, WholeBetween, WholeKept DEF DataSame
  <2>4. "cluster" = "record" => pc[r].op \in {"disable", "schedule"}
    BY <1>14 DEF Failing!EnableFiles, Failing!At
  <2> QED
    BY <1>w, <2>1, <2>3, <2>4, ClusterGoesOn DEF Advances, Working, Granting, Deleting
<1>15. CASE Failing!DisableStop(r)
  <2>1. Advances({r}, r, "record")
    BY <1>0, <1>15, Advanced DEF LeaseStages, Failing!DisableStop
  <2>2. DataSame /\ enabled' = enabled /\ Between(r)
    BY <1>15 DEF Failing!DisableStop, Failing!At, At, Between, DataSame, Failing!cluster,
                Failing!postgres, Failing!sqlite
  <2>3. Whole' /\ UNCHANGED <<login, users, grants>>
    BY <2>2, WholeBetween, WholeKept DEF DataSame
  <2>4. "record" = "record" => pc[r].op \in {"disable", "schedule"}
    BY <1>15 DEF Failing!DisableStop, Failing!At
  <2> QED
    BY <1>w, <2>1, <2>3, <2>4, ClusterGoesOn DEF Advances, Working, Granting, Deleting
<1>16. CASE Failing!Install(r)
  <2>1. Advances({r}, r, "record")
    BY <1>0, <1>16, Advanced DEF LeaseStages, Failing!Install
  <2>2. DataSame /\ enabled' = enabled /\ Between(r)
    BY <1>16 DEF Failing!Install, Failing!At, At, Between, DataSame, Failing!cluster,
                Failing!postgres, Failing!sqlite
  <2>3. Whole' /\ UNCHANGED <<login, users, grants>>
    BY <2>2, WholeBetween, WholeKept DEF DataSame
  <2>4. "record" = "record" => pc[r].op \in {"disable", "schedule"}
    BY <1>16 DEF Failing!Install, Failing!At
  <2> QED
    BY <1>w, <2>1, <2>3, <2>4, ClusterGoesOn DEF Advances, Working, Granting, Deleting
<1>17. CASE Failing!EnableCluster(r)
  <2>1. Advances({r}, r, "rows")
    BY <1>0, <1>17, Advanced DEF LeaseStages, Failing!EnableCluster
  <2>2. DataSame /\ At("enable", "cluster")
    BY <1>17 DEF Failing!EnableCluster, Failing!At, At, DataSame, Failing!postgres, Failing!sqlite
  <2>3. Whole
    BY <2>2, WholeBetween DEF Between, At
  <2> QED
    BY <2>1, <2>2, <2>3
    DEF Advances, DataSame, At, Whole, Plain, Nothing, ClusterHolds, Working, Listed, Fresh,
        Creating, AddingUser, Granting, Deleting
<1>18. CASE Failing!DropLease(r)
  <2>1. PICK id : pc' = [pc EXCEPT ![r].at = "drop", ![r].id = id]
    BY <1>18 DEF Failing!DropLease
  <2> DEFINE next == [pc[r] EXCEPT !.at = "drop", !.id = id]
  <2>2. next.op = pc[r].op /\ next.at = "drop" /\ next.u = pc[r].u /\ next.seen = pc[r].seen
    BY <1>0 DEF Task
  <2>3. pc' = [pc EXCEPT ![r] = next]
    BY <2>1
  <2> HIDE DEF next
  <2>4. /\ pc'[r].op = pc[r].op /\ pc'[r].at = "drop" /\ pc'[r].u = pc[r].u
        /\ pc'[r].seen = pc[r].seen
    BY <1>0, <2>2, <2>3
  <2>5. DataSame /\ enabled' = enabled /\ Between(r)
    BY <1>18 DEF Failing!DropLease, Failing!At, At, Between, DataSame, Failing!cluster,
                Failing!postgres, Failing!sqlite
  <2>6. Whole' /\ UNCHANGED <<login, users, grants>>
    BY <2>5, WholeBetween, WholeKept DEF DataSame
  <2> QED
    BY <1>w, <2>4, <2>6, ClusterGoesOn DEF Working, Granting, Deleting
<1>19. CASE Failing!TakeLease(r)
  <2>1. PICK id : pc' = [pc EXCEPT ![r].at = "leased", ![r].id = id]
    BY <1>19 DEF Failing!TakeLease
  <2> DEFINE next == [pc[r] EXCEPT !.at = "leased", !.id = id]
  <2>2. next.op = pc[r].op /\ next.at = "leased" /\ next.u = pc[r].u /\ next.seen = pc[r].seen
    BY <1>0 DEF Task
  <2>3. pc' = [pc EXCEPT ![r] = next]
    BY <2>1
  <2> HIDE DEF next
  <2>4. /\ pc'[r].op = pc[r].op /\ pc'[r].at = "leased" /\ pc'[r].u = pc[r].u
        /\ pc'[r].seen = pc[r].seen
    BY <1>0, <2>2, <2>3
  <2>5. DataSame /\ enabled' = enabled /\ Between(r)
    BY <1>19 DEF Failing!TakeLease, Failing!At, At, Between, DataSame, Failing!cluster,
                Failing!postgres, Failing!sqlite
  <2>6. Whole' /\ UNCHANGED <<login, users, grants>>
    BY <2>5, WholeBetween, WholeKept DEF DataSame
  <2> QED
    BY <1>w, <2>4, <2>6, ClusterGoesOn DEF Working, Granting, Deleting
<1>20. CASE Failing!EnableRows(r)
  <2>1. Advances({r}, r, "up")
    BY <1>0, <1>20, Advanced DEF LeaseStages, Failing!EnableRows
  <2>2. At("enable", "rows") /\ UNCHANGED <<login, live, roles, access>>
    BY <1>20 DEF Failing!EnableRows, Failing!At, At, Failing!cluster, Failing!postgres
  <2>3. pc[r].u \in Defaults /\ pc[r].u \in Names /\ lastID + 1 # 0
    BY <1>0, <2>2, Constants
    DEF Known, Named, At, Constants, Leases!DefaultsAreNames, ManagedTypes
  <2>4. CASE login = None
    <3>1. (\A d \in Names : rows[d] = 0) /\ users = {} /\ grants = {}
      BY <2>2, <2>4 DEF ClusterHolds, Fresh, At
    <3>2. /\ rows' = [rows EXCEPT ![pc[r].u] = lastID + 1]
          /\ users' = users \cup {pc[r].u} /\ grants' = grants \cup {<<pc[r].u, pc[r].u>>}
      BY <1>20, <2>3, <3>1 DEF Failing!EnableRows
    <3>3. rows'[pc[r].u] # 0 /\ \A d \in Names : rows'[d] # 0 => d = pc[r].u
      BY <1>0, <2>3, <3>1, <3>2 DEF ManagedTypes
    <3> QED
      BY <2>1, <2>2, <2>3, <2>4, <3>1, <3>2, <3>3
      DEF Advances, At, ClusterHolds, Working, Fresh, Creating, AddingUser, Granting, Deleting
  <2>5. CASE login # None
    <3>1. Listed /\ rows[login] # 0 /\ login \in users /\ login = pc[r].u
      BY <1>0, <2>3, <2>5 DEF ClusterHolds, LoginKept, OneDefault
    <3>2. UNCHANGED <<rows, users, grants>>
      BY <1>20, <3>1 DEF Failing!EnableRows
    <3> QED
      BY <2>1, <2>2, <2>5, <3>1, <3>2
      DEF Advances, At, ClusterHolds, Working, Listed, Creating, AddingUser, Granting, Deleting
  <2> QED
    BY <2>4, <2>5
<1>21. CASE Failing!EnableUp(r)
  <2>1. pc'[r] = Failing!Idle
    BY <1>0, <1>21, Left DEF Leaves, Failing!EnableUp
  <2>2. At("enable", "up") /\ UNCHANGED <<rows, users, grants>> /\ Failing!Up
    BY <1>21 DEF Failing!EnableUp, Failing!At, At, Failing!sqlite
  <2>3. login' = env /\ env = pc[r].u /\ env \in Defaults /\ env \in Names /\ env # None
    BY <1>0, <2>2, Constants
    DEF Known, Named, Started, LoginKept, OneDefault, At, Failing!Up, Constants,
        Leases!DefaultsAreNames
  <2>4. CASE login = None
    <3>1. roles = {}
      BY <1>0, <2>4 DEF LoginKept
    <3>2. roles' = {env} /\ access' = {<<env, env>>} /\ live' = [live EXCEPT ![env] = env]
      BY <2>2, <3>1 DEF Failing!Up
    <3>3. live'[env] # None
      BY <1>0, <2>3, <3>2 DEF ManagedTypes
    <3>4. /\ \A d \in Names : rows[d] # 0 => d = env
          /\ users \subseteq {env} /\ grants \subseteq {<<env, env>>}
          /\ rows[env] # 0 /\ env \in users
      <4>1. /\ \A d \in Names : rows[d] # 0 => d \in Defaults
            /\ users \subseteq Defaults /\ grants \subseteq Defaults \X Defaults
            /\ rows[pc[r].u] # 0 /\ pc[r].u \in users
        BY <2>2, <2>4 DEF ClusterHolds, Fresh
      <4>2. Defaults = {env}
        BY <2>3 DEF OneDefault
      <4> QED
        BY <2>3, <4>1, <4>2
    <3>5. Whole'
      BY <2>2, <2>3, <3>2, <3>3, <3>4 DEF Whole, Plain, Nothing
    <3> QED
      BY <2>1, <3>5, ClusterEnds
  <2>5. CASE login # None
    <3>1. login = env /\ Listed /\ rows[login] # 0 /\ login \in users /\ roles # {}
      BY <1>0, <2>3, <2>5 DEF ClusterHolds, LoginKept, OneDefault
    <3>2. UNCHANGED <<roles, access, live>>
      BY <2>2, <3>1 DEF Failing!Up, Failing!postgres
    <3>3. Whole'
      BY <2>2, <2>3, <3>1, <3>2 DEF Whole, Plain, Nothing, Listed, At
    <3> QED
      BY <2>1, <3>3, ClusterEnds
  <2> QED
    BY <2>4, <2>5
<1>22. CASE Failing!StartCluster(r)
  <2>1. pc'[r] = Failing!Idle
    BY <1>0, <1>22, Left DEF Leaves, Failing!StartCluster
  <2>2. At("start", "run") /\ UNCHANGED <<rows, users, grants>> /\ Failing!Up
    BY <1>22 DEF Failing!StartCluster, Failing!At, At, Failing!sqlite
  <2>3. login # None /\ login = env /\ roles # {} /\ login' = env
    BY <1>0, <1>l, <2>2 DEF Known, Started, LoginKept, OneDefault, At, Failing!Up
  <2>4. UNCHANGED <<roles, access, live>>
    BY <2>2, <2>3 DEF Failing!Up, Failing!postgres
  <2>5. Whole'
    BY <1>l, <2>2, <2>3, <2>4 DEF Whole, Plain, Nothing, Listed, At
  <2> QED
    BY <2>1, <2>5, ClusterEnds
<1>23. CASE Failing!CreateRole(r)
  <2> DEFINE mine == pc[r].u \notin roles
             next == [pc[r] EXCEPT !.at = "database", !.mine = mine]
  <2>1. pc' = [pc EXCEPT ![r] = next]
    BY <1>23 DEF Failing!CreateRole
  <2>m. mine = (pc[r].u \notin roles) /\ mine \in BOOLEAN
    OBVIOUS
  <2> HIDE DEF mine
  <2>2. next.op = pc[r].op /\ next.at = "database" /\ next.u = pc[r].u /\ next.mine = mine
    BY <1>0, <2>m DEF Task
  <2> HIDE DEF next
  <2>3. /\ pc'[r].op = pc[r].op /\ pc'[r].at = "database" /\ pc'[r].u = pc[r].u
        /\ pc'[r].mine = mine
    BY <1>0, <2>1, <2>2
  <2>4. /\ At("create", "check") /\ roles' = roles \cup {pc[r].u}
        /\ UNCHANGED <<login, live, access, rows, users, grants>>
    BY <1>23 DEF Failing!CreateRole, Failing!At, At, Failing!cluster, Failing!sqlite
  <2>5. login # None /\ Listed /\ rows[login] # 0 /\ login \in users
    BY <1>l, <2>4 DEF At
  <2>6. mine => pc[r].u \notin users
    BY <2>4, <2>5, <2>m DEF Listed, At
  <2>7. Listed'
    BY <2>3, <2>4, <2>5 DEF Listed, At
  <2> QED
    BY <2>3, <2>4, <2>5, <2>6, <2>7
    DEF At, ClusterHolds, Working, Creating, AddingUser, Granting, Deleting
<1>24. CASE Failing!CreateLive(r)
  <2>1. Advances({r}, r, "record")
    BY <1>0, <1>24, Advanced DEF LeaseStages, Failing!CreateLive
  <2>2. /\ At("create", "database") /\ UNCHANGED <<login, roles, rows, users, grants>>
        /\ live' = [live EXCEPT ![pc[r].d] = pc[r].u]
        /\ access' = access \cup {<<pc[r].u, pc[r].d>>}
    BY <1>24 DEF Failing!CreateLive, Failing!At, At, Failing!cluster, Failing!sqlite
  <2>3. login # None /\ Listed /\ rows[login] # 0 /\ login \in users
    BY <1>l, <2>2 DEF At
  <2>4. pc[r].u \in Names /\ pc[r].d \in Names /\ None \notin Names
    BY <1>0, <2>2, Constants DEF Known, Named, At, Constants, Leases!DefaultsAreNames
  <2>5. live'[pc[r].d] # None /\ \A d \in Names : live[d] # None => live'[d] # None
    BY <1>0, <2>2, <2>4 DEF ManagedTypes
  <2>6. Listed'
    BY <2>1, <2>2, <2>3, <2>5 DEF Listed, At, Advances
  <2> QED
    BY <1>w, <2>1, <2>2, <2>3, <2>5, <2>6
    DEF Advances, At, ClusterHolds, Working, Creating, AddingUser, Granting, Deleting
<1>25. CASE Failing!CreateRecord(r)
  <2>1. pc'[r] = Failing!Idle
    BY <1>0, <1>25, Left DEF Leaves, Failing!CreateRecord
  <2>2. /\ At("create", "record") /\ UNCHANGED <<login, live, roles, access>>
        /\ rows' = [rows EXCEPT ![pc[r].d] = lastID + 1]
        /\ users' = users \/ users' = users \cup {pc[r].u}
        /\ grants' = grants \/ grants' = grants \cup {<<pc[r].u, pc[r].d>>}
    BY <1>25 DEF Failing!CreateRecord, Failing!At, At, Failing!cluster, Failing!postgres
  <2>3. login # None /\ Listed /\ rows[login] # 0 /\ login \in users
    BY <1>l, <2>2 DEF At
  <2>4. /\ pc[r].u \in roles /\ live[pc[r].d] # None /\ <<pc[r].u, pc[r].d>> \in access
    BY <1>w, <2>2 DEF Creating, At
  <2>5. lastID + 1 # 0 /\ login \in Names
    BY <1>0, <2>3, Constants DEF ManagedTypes, LoginKept, Constants, Leases!DefaultsAreNames
  <2>6. \A d \in Names : d # pc[r].d => rows'[d] = rows[d]
    BY <1>0, <2>2 DEF ManagedTypes
  <2>7. rows'[login] # 0
    BY <1>0, <2>2, <2>3, <2>5 DEF ManagedTypes
  <2>8. Whole'
    BY <2>2, <2>3, <2>4, <2>6, <2>7 DEF Whole, Plain, Nothing, Listed, At
  <2> QED
    BY <2>1, <2>8, ClusterEnds
<1>26. CASE Failing!CreateUndo(r)
  <2>1. pc'[r] = Failing!Idle /\ UNCHANGED <<login, rows, users, grants>>
    BY <1>0, <1>26, Left DEF Leaves, Failing!CreateUndo, Failing!cluster, Failing!sqlite
  <2>2. pc[r].op = "create" /\ pc[r].at \in {"database", "record"}
    BY <1>26 DEF Failing!CreateUndo
  <2>3. login # None /\ Listed /\ rows[login] # 0 /\ login \in users
    BY <1>l, <2>2
  <2>4. pc[r].at = "database"
    BY <1>26, <1>f, <1>w, <2>2 DEF Failing!CreateUndo, Creating
  <2>5. live' = live /\ access' = access /\ (roles' = roles \/
          (pc[r].mine /\ roles' = roles \ {pc[r].u}))
    BY <1>26, <2>4 DEF Failing!CreateUndo, Failing!postgres
  <2>6. pc[r].mine => pc[r].u \notin users
    BY <1>w, <2>2 DEF Creating
  <2>7. Whole'
    BY <2>1, <2>2, <2>3, <2>5, <2>6 DEF Whole, Plain, Nothing, Listed, At
  <2> QED
    BY <2>1, <2>7, ClusterEnds
<1>27. CASE Failing!DropLive(r)
  <2>1. Advances({r}, r, "unrecord")
    BY <1>0, <1>27, Advanced DEF LeaseStages, Failing!DropLive
  <2>2. /\ At("drop", "drop") /\ UNCHANGED <<login, roles, rows, users, grants>>
        /\ \/ UNCHANGED <<live, access>>
           \/ /\ live' = [live EXCEPT ![pc[r].d] = None]
              /\ access' = {a \in access : a[2] # pc[r].d}
    BY <1>27 DEF Failing!DropLive, Failing!At, At, Failing!cluster, Failing!sqlite
  <2>3. login # None /\ Listed /\ rows[login] # 0 /\ login \in users
    BY <1>l, <2>2 DEF At
  <2>4. /\ \A d \in Names : d # pc[r].d => live'[d] = live[d]
        /\ \A g \in access : g \in access' \/ g[2] = pc[r].d
    BY <1>0, <2>2 DEF ManagedTypes
  <2>5. Listed'
    BY <2>1, <2>2, <2>3, <2>4 DEF Listed, At, Advances
  <2> QED
    BY <2>1, <2>2, <2>3, <2>5
    DEF Advances, At, ClusterHolds, Working, Creating, AddingUser, Granting, Deleting
<1>28. CASE Failing!DropRecord(r)
  <2>1. pc'[r] = Failing!Idle
    BY <1>0, <1>28, Left DEF Leaves, Failing!DropRecord
  <2>2. /\ At("drop", "unrecord") /\ UNCHANGED <<login, live, roles, access, users>>
        /\ rows' = [rows EXCEPT ![pc[r].d] = 0] /\ grants' = {g \in grants : g[2] # pc[r].d}
    BY <1>28 DEF Failing!DropRecord, Failing!Unrecord, Failing!At, At, Failing!cluster, Failing!postgres
  <2>3. login # None /\ Listed /\ rows[login] # 0 /\ login \in users
    BY <1>l, <2>2 DEF At
  <2>4. pc[r].d \in Names /\ live[pc[r].d] = None /\ live[login] # None /\ login \in Names
    BY <1>0, <2>2, <2>3, Constants
    DEF Known, Named, Gone, LoginKept, At, Constants, Leases!DefaultsAreNames
  <2>5. rows'[pc[r].d] = 0 /\ rows'[login] # 0
        /\ \A d \in Names : d # pc[r].d => rows'[d] = rows[d]
    BY <1>0, <2>2, <2>3, <2>4 DEF ManagedTypes
  <2>6. Whole'
    BY <2>2, <2>3, <2>5 DEF Whole, Plain, Nothing, Listed, At
  <2> QED
    BY <2>1, <2>6, ClusterEnds
<1>29. CASE Failing!UserRole(r)
  <2>1. Advances({r}, r, "grant")
    BY <1>0, <1>29, Advanced DEF LeaseStages, Failing!UserRole
  <2>2. /\ At("adduser", "check") /\ UNCHANGED <<login, live, access, rows, users, grants>>
        /\ roles' = roles \cup {pc[r].u} /\ pc[r].u \notin roles
    BY <1>29 DEF Failing!UserRole, Failing!At, At, Failing!cluster, Failing!sqlite
  <2>3. login # None /\ Listed /\ rows[login] # 0 /\ login \in users
    BY <1>l, <2>2 DEF At
  <2>4. pc[r].u \notin users
    BY <2>2, <2>3 DEF Listed, At
  <2>5. Listed'
    BY <2>1, <2>2, <2>3 DEF Listed, At, Advances
  <2> QED
    BY <2>1, <2>2, <2>3, <2>4, <2>5
    DEF Advances, At, ClusterHolds, Working, Creating, AddingUser, Granting, Deleting
<1>30. CASE Failing!UserGrants(r)
  <2>1. Advances({r}, r, "record")
    BY <1>0, <1>30, Advanced DEF LeaseStages, Failing!UserGrants
  <2>2. /\ At("adduser", "grant") /\ UNCHANGED <<login, live, roles, rows, users, grants>>
        /\ access' = access \cup ({pc[r].u} \X pc[r].g)
    BY <1>30 DEF Failing!UserGrants, Failing!Granted, Failing!At, At, Failing!cluster, Failing!sqlite
  <2>3. login # None /\ Listed /\ rows[login] # 0 /\ login \in users
    BY <1>l, <2>2 DEF At
  <2>4. \A d \in pc[r].g : <<pc[r].u, d>> \in access'
    BY <2>2
  <2>5. Listed'
    BY <2>1, <2>2, <2>3 DEF Listed, At, Advances
  <2> QED
    BY <1>w, <2>1, <2>2, <2>3, <2>4, <2>5
    DEF Advances, At, ClusterHolds, Working, Creating, AddingUser, Granting, Deleting
<1>31. CASE Failing!UserRecord(r)
  <2>1. pc'[r] = Failing!Idle
    BY <1>0, <1>31, Left DEF Leaves, Failing!UserRecord
  <2>2. /\ At("adduser", "record") /\ UNCHANGED <<login, live, roles, access, rows>>
        /\ users' = users \cup {pc[r].u} /\ grants' = grants \cup ({pc[r].u} \X pc[r].g)
    BY <1>31 DEF Failing!UserRecord, Failing!At, At, Failing!cluster, Failing!postgres
  <2>3. login # None /\ Listed /\ rows[login] # 0 /\ login \in users
    BY <1>l, <2>2 DEF At
  <2>4. pc[r].u \in roles /\ {pc[r].u} \X pc[r].g \subseteq access
    <3>1. pc[r].u \in roles /\ \A d \in pc[r].g : <<pc[r].u, d>> \in access
      BY <1>w, <2>2 DEF AddingUser, At
    <3> QED
      BY <3>1
  <2>5. Whole'
    BY <2>2, <2>3, <2>4 DEF Whole, Plain, Nothing, Listed, At
  <2> QED
    BY <2>1, <2>5, ClusterEnds
<1>32. CASE Failing!UserUndo(r)
  <2>1. pc'[r] = Failing!Idle /\ UNCHANGED <<login, live, rows, users, grants>>
    BY <1>0, <1>32, Left DEF Leaves, Failing!UserUndo, Failing!cluster, Failing!sqlite
  <2>2. pc[r].op = "adduser" /\ pc[r].at \in {"grant", "record"}
    BY <1>32 DEF Failing!UserUndo
  <2>3. login # None /\ Listed /\ rows[login] # 0 /\ login \in users
    BY <1>l, <2>2
  <2>4. access \subseteq access' /\ roles \ {pc[r].u} \subseteq roles'
    BY <1>32 DEF Failing!UserUndo, Failing!Granted
  <2>5. pc[r].u \notin users
    BY <1>w, <2>2 DEF AddingUser
  <2>6. Whole'
    BY <2>1, <2>2, <2>3, <2>4, <2>5 DEF Whole, Plain, Nothing, Listed, At
  <2> QED
    BY <2>1, <2>6, ClusterEnds
<1>33. CASE Failing!GrantNew(r)
  <2>1. /\ At("grants", "check") /\ UNCHANGED <<login, live, roles, rows, users, grants>>
        /\ access \subseteq access'
    BY <1>33 DEF Failing!GrantNew, Failing!Granted, Failing!At, At, Failing!cluster, Failing!sqlite
  <2>2. login # None /\ Listed /\ rows[login] # 0 /\ login \in users
    BY <1>l, <2>1 DEF At
  <2>3. CASE Failing!Return(r)
    <3>1. pc'[r] = Failing!Idle
      BY <1>0, <2>3, Left DEF Leaves
    <3>2. Whole'
      BY <2>1, <2>2 DEF Whole, Plain, Nothing, Listed, At
    <3> QED
      BY <3>1, <3>2, ClusterEnds
  <2>4. CASE /\ Failing!Goto(r, "revoke")
             /\ access' = access \cup ({pc[r].u} \X (pc[r].g \ pc[r].seen))
    <3>1. Advances({r}, r, "revoke")
      BY <1>0, <2>4, Advanced DEF LeaseStages
    <3>2. \A d \in pc[r].g : <<pc[r].u, d>> \in access'
      <4> SUFFICES ASSUME NEW d \in pc[r].g PROVE <<pc[r].u, d>> \in access'
        OBVIOUS
      <4>1. d \in Names
        BY <1>0 DEF Task
      <4>2. CASE d \in pc[r].seen
        <5>1. <<pc[r].u, d>> \in grants
          BY <1>w, <2>1, <4>1, <4>2 DEF Granting, At
        <5> QED
          BY <2>1, <2>2, <5>1 DEF Listed, At
      <4>3. CASE d \notin pc[r].seen
        BY <2>4, <4>3
      <4> QED
        BY <4>2, <4>3
    <3>3. Listed'
      BY <2>1, <2>2, <3>1 DEF Listed, At, Advances
    <3> QED
      BY <1>w, <2>1, <2>2, <3>1, <3>2, <3>3
      DEF Advances, At, ClusterHolds, Working, Creating, AddingUser, Granting, Deleting
  <2> QED
    BY <1>33, <2>3, <2>4 DEF Failing!GrantNew, Failing!Granted
<1>34. CASE Failing!RevokeOld(r)
  <2>1. At("grants", "revoke") /\ UNCHANGED <<login, live, roles, rows, users, grants>>
    BY <1>34 DEF Failing!RevokeOld, Failing!At, At, Failing!cluster, Failing!sqlite
  <2>2. login # None /\ Listed /\ rows[login] # 0 /\ login \in users
    BY <1>l, <2>1 DEF At
  <2>3. CASE Failing!Return(r) /\ access' = access
    <3>1. pc'[r] = Failing!Idle
      BY <1>0, <2>3, Left DEF Leaves
    <3>2. Whole'
      BY <2>1, <2>2, <2>3 DEF Whole, Plain, Nothing, Listed, At
    <3> QED
      BY <3>1, <3>2, ClusterEnds
  <2>4. CASE /\ Failing!Goto(r, "record")
             /\ access' = access \ ({pc[r].u} \X (pc[r].seen \ pc[r].g))
    <3>1. Advances({r}, r, "record")
      BY <1>0, <2>4, Advanced DEF LeaseStages
    <3>2. \A d \in pc[r].g : <<pc[r].u, d>> \in access'
      BY <1>w, <2>1, <2>4 DEF Granting, At
    <3>3. \A g \in grants : g \in access' \/ g[1] = pc[r].u
      BY <1>0, <2>1, <2>2, <2>4 DEF Listed, At, ManagedTypes
    <3>4. Listed'
      BY <2>1, <2>2, <3>1, <3>3 DEF Listed, At, Advances
    <3> QED
      BY <1>w, <2>1, <2>2, <3>1, <3>2, <3>4
      DEF Advances, At, ClusterHolds, Working, Creating, AddingUser, Granting, Deleting
  <2> QED
    BY <1>34, <2>3, <2>4 DEF Failing!RevokeOld
<1>35. CASE Failing!GrantRecord(r)
  <2>1. pc'[r] = Failing!Idle
    BY <1>0, <1>35, Left DEF Leaves, Failing!GrantRecord
  <2>2. At("grants", "record") /\ UNCHANGED <<login, live, roles, access, rows, users>>
    BY <1>35 DEF Failing!GrantRecord, Failing!At, At, Failing!cluster, Failing!postgres
  <2>3. login # None /\ Listed /\ rows[login] # 0 /\ login \in users
    BY <1>l, <2>2 DEF At
  <2>4. pc[r].u \in users /\ {pc[r].u} \X pc[r].g \subseteq access
    <3>1. pc[r].u \in users /\ \A d \in pc[r].g : <<pc[r].u, d>> \in access
      BY <1>w, <2>2 DEF Granting, At
    <3> QED
      BY <3>1
  <2>5. grants' = {g \in grants : g[1] # pc[r].u} \cup ({pc[r].u} \X pc[r].g)
    BY <1>35, <2>4 DEF Failing!GrantRecord
  <2>6. grants' \subseteq access
    BY <2>2, <2>3, <2>4, <2>5 DEF Listed, At
  <2>7. Whole'
    BY <2>2, <2>3, <2>6 DEF Whole, Plain, Nothing, Listed, At
  <2> QED
    BY <2>1, <2>7, ClusterEnds
<1>36. CASE Failing!DeleteRole(r)
  <2>1. Advances({r}, r, "record")
    BY <1>0, <1>36, Advanced DEF LeaseStages, Failing!DeleteRole
  <2>2. /\ At("deluser", "check") /\ UNCHANGED <<login, live, access, rows, users, grants>>
        /\ roles \ {pc[r].u} \subseteq roles'
    BY <1>36 DEF Failing!DeleteRole, Failing!At, At, Failing!cluster, Failing!sqlite
  <2>3. login # None /\ Listed /\ rows[login] # 0 /\ login \in users
    BY <1>l, <2>2 DEF At
  <2>4. Failing!Droppable(pc[r].u)
    <3>1. pc[r].u \in roles /\ login \in roles
      BY <1>0, <1>w, <2>2, <2>3 DEF Deleting, Listed, LoginKept, At
    <3> QED
      BY <1>36, <3>1 DEF Failing!DeleteRole, Failing!NoSuchRole
  <2>5. \A g \in grants : g[1] # pc[r].u
    <3> SUFFICES ASSUME NEW g \in grants, g[1] = pc[r].u PROVE FALSE
      OBVIOUS
    <3>1. g \in access /\ g \in Names \X Names
      BY <1>0, <2>2, <2>3 DEF Listed, At, ManagedTypes
    <3>2. g = <<pc[r].u, g[2]>> /\ g[2] \in Names
      BY <3>1
    <3> QED
      BY <2>4, <3>1, <3>2 DEF Failing!Droppable
  <2>6. Listed'
    BY <2>1, <2>2, <2>3 DEF Listed, At, Advances
  <2> QED
    BY <1>w, <2>1, <2>2, <2>3, <2>5, <2>6
    DEF Advances, At, ClusterHolds, Working, Creating, AddingUser, Granting, Deleting
<1>37. CASE Failing!DeleteUserRecord(r)
  <2>1. pc'[r] = Failing!Idle
    BY <1>0, <1>37, Left DEF Leaves, Failing!DeleteUserRecord
  <2>2. /\ At("deluser", "record") /\ UNCHANGED <<login, live, roles, access, rows>>
        /\ users' = users \ {pc[r].u} /\ grants' \subseteq grants
    BY <1>37 DEF Failing!DeleteUserRecord, Failing!At, At, Failing!cluster, Failing!postgres
  <2>3. login # None /\ Listed /\ rows[login] # 0 /\ login \in users
    BY <1>l, <2>2 DEF At
  <2>4. login # pc[r].u
    BY <1>0, <2>2, <2>3 DEF Known, Named, LoginKept, At
  <2>5. Whole'
    BY <2>2, <2>3, <2>4 DEF Whole, Plain, Nothing, Listed, At
  <2> QED
    BY <2>1, <2>5, ClusterEnds
<1> QED
  BY <1>1, <1>2, <1>3, <1>4, <1>5, <1>6, <1>7, <1>8, <1>9, <1>10, <1>11, <1>12, <1>13, <1>14, <1>15,
       <1>16, <1>17, <1>18, <1>19, <1>20, <1>21, <1>22, <1>23, <1>24, <1>25, <1>26, <1>27, <1>28,
       <1>29, <1>30, <1>31, <1>32, <1>33, <1>34, <1>35, <1>36, <1>37 DEF Failing!Step

LEMMA FailingStarts ==
  ASSUME pc \in [{r} -> Task], FailingHolds, NEW w, Starts(r, w),
         w.op \in {"enable", "create", "drop", "deluser", "schedule", "unschedule"}
  PROVE  FailingHolds'
<1>1. UNCHANGED <<live, rows, running>> /\ pc'[r] = w /\ Asked(w) /\ pc[r] = Failing!Idle
  BY DEF Starts, Failing!cluster, Failing!postgres, Failing!sqlite
<1>2. w.at \notin {"up", "database", "record"}
  BY <1>1 DEF Asked
<1>3. ~At("create", "record")
  BY <1>1, IdleRequest DEF At
<1> QED
  BY <1>1, <1>2, <1>3, FailingMoves

LEMMA FailingRests ==
  ASSUME FailingHolds, UNCHANGED <<live, rows, running, pc>> PROVE FailingHolds'
BY DEF FailingHolds, At

LEMMA ClusterRests ==
  ASSUME ClusterHolds, UNCHANGED <<Failing!cluster, Failing!postgres, Failing!sqlite, pc>>
  PROVE  ClusterHolds'
BY DEF ClusterHolds, Working, Listed, Fresh, Creating, AddingUser, Granting, Deleting, At,
       Failing!cluster, Failing!postgres, Failing!sqlite

(* The three instances together.                                           *)
ManagedInv ==
  /\ which = "leases" => Managed(Requests) /\ failed = 0 /\ crashed \in 0..Crashes
  /\ which = "cluster" => Managed({r}) /\ ClusterHolds /\ failed = 0 /\ crashed = 0
  /\ which = "failing" => Managed({r}) /\ FailingHolds /\ failed \in 0..Failures /\ crashed = 0
Forgets == \A d \in Names : rows[d] # 0 /\ rows'[d] = 0 => live[d] = None

LEMMA ManagedInvInit == ASSUME Constants, Init PROVE ManagedInv
<1>0. {Failures, Crashes} \subseteq Nat /\ None \notin Requests /\ None \notin {r}
  BY DEF Constants
<1>1. CASE which = "leases"
  <2>1. /\ pc = [c \in Requests |-> Failing!Idle] /\ failed = 0 /\ crashed = 0
        /\ holder = None /\ enabled = FALSE /\ running = FALSE /\ admin = None /\ env = None
        /\ login = None /\ live = [d \in Names |-> None] /\ roles = {} /\ access = {}
        /\ rows = [d \in Names |-> 0] /\ owner = [d \in Names |-> None] /\ users = {}
        /\ grants = {} /\ lastID = 0 /\ schedules = {} /\ timers = {} /\ backups = {}
        /\ leased = {}
    BY <1>1 DEF Init, Leases!Init, Leases!Idle, Failing!Idle
  <2>2. Managed(Requests)
    BY <1>0, <2>1, ManagedInit
  <2> QED
    BY <1>0, <1>1, <2>1, <2>2 DEF ManagedInv
<1>2. CASE which \in {"cluster", "failing"}
  <2>1. /\ pc = [c \in {r} |-> Failing!Idle] /\ failed = 0 /\ crashed = 0
        /\ holder = None /\ enabled = FALSE /\ running = FALSE /\ admin = None /\ env = None
        /\ login = None /\ live = [d \in Names |-> None] /\ roles = {} /\ access = {}
        /\ rows = [d \in Names |-> 0] /\ owner = [d \in Names |-> None] /\ users = {}
        /\ grants = {} /\ lastID = 0 /\ schedules = {} /\ timers = {} /\ backups = {}
        /\ leased = {}
    BY <1>2 DEF Init, Cluster!Init, Cluster!Idle, Failing!Idle
  <2>2. Managed({r})
    BY <1>0, <2>1, ManagedInit
  <2>3. pc[r] = Failing!Idle
    BY <2>1
  <2>4. ClusterHolds
    BY <2>1, <2>3, IdleRequest
    DEF ClusterHolds, Working, Fresh, Creating, AddingUser, Granting, Deleting, At
  <2>5. FailingHolds
    BY <2>1, <2>3, IdleRequest DEF FailingHolds, At
  <2> QED
    BY <1>0, <1>2, <2>1, <2>2, <2>4, <2>5 DEF ManagedInv
<1> QED
  BY <1>1, <1>2 DEF ManagedInv

LEMMA ManagedInvStep ==
  ASSUME Constants, OneDefault, ManagedInv, which' = which,
         \/ which = "leases" /\ Leases!Next
         \/ which = "cluster" /\ Cluster!Next
         \/ which = "failing" /\ Failing!Next
  PROVE  ManagedInv' /\ Forgets
<1>0. None \notin Requests /\ None \notin {r} /\ r \in {r}
  BY DEF Constants
<1>1. CASE which = "leases" /\ Leases!Next
  <2>1. Managed(Requests) /\ ManagedTypes /\ failed = 0 /\ crashed \in 0..Crashes
    BY <1>1 DEF ManagedInv, Managed
  <2>2. Steps(Requests) /\ failed' = 0 /\ crashed' \in 0..Crashes
    BY <1>1, <2>1, LeasesAsSteps
  <2>3. Managed(Requests)' /\ Forgets
    BY <1>0, <2>1, <2>2, ManagedNext, Forgotten DEF Forgets
  <2> QED
    BY <1>1, <2>2, <2>3 DEF ManagedInv
<1>2. CASE which = "cluster" /\ Cluster!Next
  <2>1. Managed({r}) /\ ClusterHolds /\ ManagedTypes /\ failed = 0 /\ crashed = 0
    BY <1>2 DEF ManagedInv, Managed
  <2>2. /\ failed' = 0 /\ crashed' = 0
        /\ \/ \E w : Starts(r, w)
           \/ Failing!Step(r)
           \/ UNCHANGED <<Failing!cluster, Failing!postgres, Failing!sqlite, Failing!backupState,
                          holder, pc>> /\ leased' \subseteq leased
    BY <1>2, <2>1, ClusterAsSteps
  <2>3. Steps({r})
    BY <1>0, <2>2 DEF Steps
  <2>4. Managed({r})' /\ Forgets
    BY <1>0, <2>1, <2>3, ManagedNext, Forgotten DEF Forgets
  <2>5. ClusterHolds'
    BY <2>1, <2>2, ClusterStarts, ClusterKeeps, ClusterRests DEF Managed, RequestTypes
  <2> QED
    BY <1>2, <2>2, <2>4, <2>5 DEF ManagedInv
<1>3. CASE which = "failing" /\ Failing!Next
  <2>1. /\ Managed({r}) /\ FailingHolds /\ ManagedTypes /\ pc \in [{r} -> Task]
        /\ failed \in 0..Failures /\ crashed = 0
    BY <1>3 DEF ManagedInv, Managed, RequestTypes
  <2>2. /\ failed' \in 0..Failures /\ crashed' = 0
        /\ \/ \E w : Starts(r, w) /\ w.op \in {"enable", "create", "drop", "deluser", "schedule",
                                                "unschedule"}
           \/ Failing!Step(r) \/ Failing!StepFails(r)
           \/ UNCHANGED <<Failing!cluster, Failing!postgres, Failing!sqlite, Failing!backupState,
                          holder, pc>> /\ leased' \subseteq leased
    BY <1>3, <2>1, FailingAsSteps
  <2>3. Steps({r})
    BY <1>0, <2>2 DEF Steps
  <2>4. Managed({r})' /\ Forgets
    BY <1>0, <2>1, <2>3, ManagedNext, Forgotten DEF Forgets
  <2>5. FailingHolds'
    <3>1. CASE UNCHANGED <<Failing!cluster, Failing!postgres, Failing!sqlite, pc>>
      BY <2>1, <3>1, FailingRests DEF Failing!cluster, Failing!postgres, Failing!sqlite
    <3> QED
      BY <2>1, <2>2, <3>1, FailingStarts, FailingKeeps
  <2> QED
    BY <1>3, <2>2, <2>4, <2>5 DEF ManagedInv
<1> QED
  BY <1>1, <1>2, <1>3

(* What the invariant says of databases, users and grants.                 *)
LEMMA ManagedTyped ==
  ASSUME Constants, ManagedInv
  PROVE  /\ which = "leases" => Leases!TypeOK
         /\ which = "cluster" => Cluster!TypeOK
         /\ which = "failing" => Failing!TypeOK
<1>0. Defaults \subseteq Names /\ 0 \in 0..0
  BY DEF Constants, Leases!DefaultsAreNames
<1>1. CASE which = "leases"
  <2>1. Managed(Requests) /\ failed = 0 /\ crashed \in 0..Crashes
    BY <1>1 DEF ManagedInv
  <2>2. /\ ManagedTypes /\ RequestTypes(Requests)
        /\ {admin, env, login} \subseteq Names \cup {None}
    BY <1>0, <2>1 DEF Managed, LoginKept
  <2>3. \A c \in Requests : pc[c].op \in Leases!Ops
    BY <2>2 DEF RequestTypes, Task
  <2>4. leased \subseteq 1..MaxID /\ holder \in Requests \cup {None}
    BY <2>2 DEF RequestTypes
  <2>5. Leases!TypeOK
    BY <1>0, <2>1, <2>2, <2>3, <2>4 DEF ManagedTypes, Leases!TypeOK
  <2> QED
    BY <1>1, <2>5
<1>2. CASE which \in {"cluster", "failing"}
  <2>1. Managed({r}) /\ crashed = 0
    BY <1>2 DEF ManagedInv
  <2>2. /\ ManagedTypes /\ RequestTypes({r})
        /\ {admin, env, login} \subseteq Names \cup {None}
    BY <1>0, <2>1 DEF Managed, LoginKept
  <2>3. \A c \in {r} : pc[c].op \in Leases!Ops
    BY <2>2 DEF RequestTypes, Task
  <2>4. leased \subseteq 1..MaxID /\ holder \in {r} \cup {None}
    BY <2>2 DEF RequestTypes
  <2>5. Leases!Ops = Cluster!Ops /\ Leases!Ops = Failing!Ops
    BY DEF Leases!Ops, Cluster!Ops, Failing!Ops
  <2>6. which = "cluster" => Cluster!TypeOK
    BY <1>0, <2>1, <2>2, <2>3, <2>4, <2>5 DEF ManagedInv, ManagedTypes, Cluster!TypeOK
  <2>7. which = "failing" => Failing!TypeOK
    BY <1>0, <2>1, <2>2, <2>3, <2>4, <2>5 DEF ManagedInv, ManagedTypes, Failing!TypeOK
  <2> QED
    BY <1>2, <2>6, <2>7
<1> QED
  BY <1>1, <1>2

LEMMA ManagedRecords ==
  ASSUME Constants, ManagedInv PROVE RecordsAreLive /\ DatabasesRecorded
<1>1. ASSUME which = "cluster", \A c \in {r} : pc[c] = Cluster!Idle
      PROVE  /\ \A d \in Names : rows[d] # 0 => live[d] # None
             /\ users \subseteq roles /\ grants \subseteq access
  <2>1. pc[r] = Failing!Idle
    BY <1>1 DEF Cluster!Idle, Failing!Idle
  <2>2. Between(r)
    BY <2>1, IdleRequest DEF Between, At
  <2>3. Whole
    BY <1>1, <2>2, WholeBetween DEF ManagedInv
  <2> QED
    BY <2>3 DEF Whole, Plain, Nothing
<1>2. ASSUME which = "failing", NEW d \in Names, live[d] # None, rows[d] = 0
      PROVE  \E c \in {r} : holder = c /\ pc[c].op \in {"create", "drop"} /\ pc[c].d = d
  <2>1. FailingHolds /\ Locked({r})
    BY <1>2 DEF ManagedInv, Managed
  <2>2. At("create", "record") /\ d = pc[r].d
    BY <1>2, <2>1 DEF FailingHolds
  <2>3. holder = r
    BY <2>1, <2>2 DEF Locked, InLock, At
  <2> QED
    BY <2>2, <2>3 DEF At
<1> QED
  BY <1>1, <1>2
  DEF RecordsAreLive, DatabasesRecorded, Cluster!RecordsAreLive, Failing!NothingUnrecorded

(* The files of a service's backups and their records: at most n are made. *)
FilesHold(n) ==
  /\ made \in 0..n /\ files \subseteq 1..made /\ records \subseteq 1..made
  /\ recorded \subseteq 1..made /\ expired \subseteq 1..made /\ removed \subseteq 1..made
  /\ temps \subseteq Requests /\ stale \subseteq temps /\ restored \subseteq Requests
  /\ mu \in Requests \cup {None} /\ lease.age <= Lease
  /\ \A a \in Requests :
       /\ op[a].age <= Lease /\ op[a].f <= n
       /\ op[a].at = "record" => op[a].kind \in {"backup", "scheduled"} /\ op[a].f \in 1..made
       /\ op[a].at = "dump" => a \notin stale
  /\ ~gone => \A f \in files : f \in recorded => f \in records
Referred ==
  \A f \in files : f \in recorded \/ gone \/ \E a \in Requests : op[a].f = f /\ op[a].at = "record"

(* A step that makes no file and no record.                                *)
OpsKept(n) ==
  \A b \in Requests :
    /\ op'[b].age <= Lease /\ op'[b].f <= n
    /\ op'[b].at = "record" =>
         op[b].at = "record" /\ op'[b].f = op[b].f /\ op'[b].kind = op[b].kind
    /\ op'[b].at = "dump" => op[b].at = "dump" \/ stale' = {}
Refers ==
  \A b \in Requests : op[b].at = "record" =>
    (op'[b].at = "record" /\ op'[b].f = op[b].f) \/ op[b].f \notin files'
TempsKept ==
  /\ temps' \subseteq Requests /\ stale' \subseteq temps'
  /\ \A b \in Requests : op[b].at = "dump" => b \notin stale'
OthersKept ==
  /\ TempsKept /\ restored' \subseteq Requests
  /\ mu' \in Requests \cup {None} /\ lease'.age <= Lease
FilesFewer ==
  /\ UNCHANGED <<made, recorded, gone>> /\ files' \subseteq files /\ records' \subseteq records
  /\ \A f \in files' : f \in records => f \in records'
  /\ expired' \subseteq 1..made /\ removed' \subseteq 1..made

LEMMA FilesKept ==
  ASSUME NEW n \in Nat, FilesHold(n), OpsKept(n), OthersKept, FilesFewer
  PROVE  FilesHold(n)'
BY DEF FilesHold, OpsKept, OthersKept, TempsKept, FilesFewer

LEMMA ReferredKept ==
  ASSUME Referred, Refers, FilesFewer PROVE Referred'
BY DEF Referred, Refers, FilesFewer

LEMMA BackedIdle == Backed!NoOp.at = "none" /\ Backed!NoOp.age = 0 /\ Backed!NoOp.f = 0
BY DEF Backed!NoOp

(* One operation goes on, or ends and takes those that joined it with it.  *)
LEMMA BackedMoved ==
  ASSUME BackupTypes, FilesHold(2), NEW a \in Requests, NEW stage, Backed!Goto(a, stage)
  PROVE  /\ op'[a].at = stage /\ op'[a].f = op[a].f /\ op'[a].kind = op[a].kind
         /\ op'[a].age = op[a].age /\ \A b \in Requests \ {a} : op'[b] = op[b]
<1> DEFINE next == [op[a] EXCEPT !.at = stage]
<1>1. op[a] \in BackupTask /\ op \in [Requests -> BackupTask]
  BY DEF BackupTypes
<1>2. next.at = stage /\ next.f = op[a].f /\ next.kind = op[a].kind /\ next.age = op[a].age
  BY <1>1 DEF BackupTask
<1>3. op' = [op EXCEPT ![a] = next]
  BY DEF Backed!Goto
<1> HIDE DEF next
<1> QED
  BY <1>1, <1>2, <1>3

LEMMA BackedAdvances ==
  ASSUME BackupTypes, FilesHold(2), NEW a \in Requests, NEW stage, Backed!Goto(a, stage),
         stage # "record", stage # "dump" \/ stale' = {}
  PROVE  OpsKept(2) /\ (op[a].at # "record" => Refers)
BY BackedMoved DEF OpsKept, Refers, FilesHold

LEMMA BackedOver ==
  ASSUME BackupTypes, NEW a \in Requests, NEW done, Backed!Finish(a, done)
  PROVE  /\ restored' = restored \cup {a} \/ restored' = restored \ {a}
         /\ \A b \in Requests :
              \/ op'[b] = op[b] /\ b # a
              \/ /\ op'[b].at \in {"none", "complete"} /\ op'[b].f = 0 /\ op'[b].age = 0
                 /\ b = a \/ op[b].joined = a
<1> DEFINE complete(asked) == [Backed!NoOp EXCEPT !.at = "complete", !.asked = asked]
<1>1. ASSUME NEW asked \in BackupKinds \cup {"none"}
      PROVE  /\ complete(asked).at = "complete" /\ complete(asked).f = 0
             /\ complete(asked).age = 0
  BY BackedNoOp, BackedIdle DEF BackupTask
<1>2. \A b \in Requests : op[b].asked \in BackupKinds \cup {"none"} /\ op[b] \in BackupTask
  BY DEF BackupTypes, BackupTask
<1>3. op' = [b \in Requests |->
               IF b = a THEN IF op[a].kind \in {"backup", "restore"} /\ done
                             THEN complete(op[a].asked) ELSE Backed!NoOp
               ELSE IF op[b].joined # a THEN op[b]
               ELSE IF done THEN complete(op[b].asked) ELSE Backed!NoOp]
  BY DEF Backed!Finish
<1>4. restored' = restored \cup {a} \/ restored' = restored \ {a}
  BY DEF Backed!Finish
<1> HIDE DEF complete
<1> QED
  BY <1>1, <1>2, <1>3, <1>4, BackedIdle

LEMMA BackedEnds ==
  ASSUME BackupTypes, Constants, FilesHold(2), NEW a \in Requests, NEW done, Backed!Finish(a, done)
  PROVE  /\ OpsKept(2) /\ restored' \subseteq Requests
         /\ (op[a].at # "record" \/ op[a].f \notin files') => Refers
<1>n. 0 <= Lease /\ a # None
  BY DEF Constants, Backed!CapBelowLease
<1>1. /\ restored' = restored \cup {a} \/ restored' = restored \ {a}
      /\ \A b \in Requests :
           \/ op'[b] = op[b] /\ b # a
           \/ /\ op'[b].at \in {"none", "complete"} /\ op'[b].f = 0 /\ op'[b].age = 0
              /\ b = a \/ op[b].joined = a
  BY BackedOver
<1>2. ASSUME NEW b \in Requests, op[b].at = "record", b # a PROVE op'[b] = op[b]
  BY <1>n, <1>1, <1>2 DEF BackupTypes, FilesHold
<1>3. OpsKept(2)
  BY <1>n, <1>1 DEF OpsKept, FilesHold
<1>4. restored' \subseteq Requests
  BY <1>1 DEF FilesHold
<1>5. (op[a].at # "record" \/ op[a].f \notin files') => Refers
  BY <1>2 DEF Refers
<1> QED
  BY <1>3, <1>4, <1>5

LEMMA BackedFiles ==
  ASSUME BackedInv, FilesHold(2), NEW a \in Requests,
         Backed!LeaseRefused(a) \/ Backed!RunBackupReturns(a) \/ Backed!RestoreBackup(a) \/
         Backed!BackupNotFound(a) \/ Backed!SaveBackupSchedule(a) \/ Backed!SaveFails(a) \/
         Backed!StepFails(a) \/ Backed!RecordStatus(a) \/ Backed!Lock(a) \/ Backed!Install(a)
         \/ Backed!AcquireBackupLease(a) \/ Backed!CreateTemp(a) \/ Backed!CreateBackup(a) \/
         Backed!ReadSchedule(a) \/ Backed!CommitBackupFile(a) \/ Backed!BackupFails(a) \/
         Backed!DeleteBackup(a) \/ Backed!ApplyRetention(a) \/ Backed!TempAges(a) \/
         Backed!TimerFires(a) \/ Backed!DisableUnits(a) \/ Backed!DeleteService(a)
  PROVE  FilesHold(2)' /\ (Referred => Referred')
<1>0. Constants /\ BackupTypes /\ 2 \in Nat /\ 0 <= Lease /\ op \in [Requests -> BackupTask]
  BY DEF BackedInv, BackupTypes, Constants, Backed!CapBelowLease
<1>k. ASSUME OpsKept(2), OthersKept, FilesFewer, Refers PROVE FilesHold(2)' /\ (Referred => Referred')
  BY <1>0, <1>k, FilesKept, ReferredKept
<1>u. ASSUME UNCHANGED <<made, recorded, gone, files, records, expired, removed>> PROVE FilesFewer
  BY <1>u DEF FilesFewer, FilesHold
<1>t. ASSUME UNCHANGED <<temps, stale>> PROVE TempsKept
  BY <1>t DEF FilesHold, TempsKept
<1>o. ASSUME UNCHANGED <<temps, stale, restored, mu, lease>> PROVE OthersKept
  BY <1>o, <1>t DEF OthersKept, FilesHold
<1>s. ASSUME UNCHANGED op PROVE OpsKept(2) /\ Refers
  BY <1>s DEF OpsKept, Refers, FilesHold
<1>e. ASSUME NEW done, Backed!Return(a, done), TempsKept
      PROVE  OpsKept(2) /\ OthersKept /\ (op[a].at # "record" \/ op[a].f \notin files' => Refers)
  <2>1. Backed!Finish(a, done) /\ Backed!ReleaseBackupLease(a) /\ mu' = IF mu = a THEN None ELSE mu
    BY <1>e DEF Backed!Return
  <2>2. lease'.age <= Lease /\ mu' \in Requests \cup {None}
    BY <1>0, <2>1 DEF Backed!ReleaseBackupLease, FilesHold
  <2> QED
    BY <1>0, <1>e, <2>1, <2>2, BackedEnds DEF OthersKept
<1>1. CASE Backed!LeaseRefused(a)
  <2>1. UNCHANGED <<made, recorded, gone, files, records, expired, removed, temps, stale>>
    BY <1>1 DEF Backed!LeaseRefused, Backed!disk, Backed!rows
  <2>2. PICK done \in BOOLEAN : Backed!Return(a, done)
    BY <1>1 DEF Backed!LeaseRefused
  <2>3. op[a].at # "record"
    BY <1>1 DEF Backed!LeaseRefused, Backed!At, FilesHold
  <2> QED
    BY <1>e, <1>k, <1>t, <1>u, <2>1, <2>2, <2>3
<1>2. CASE Backed!RunBackupReturns(a)
  <2>1. UNCHANGED <<made, recorded, gone, files, records, expired, removed, temps, stale>>
    BY <1>2 DEF Backed!RunBackupReturns, Backed!disk, Backed!rows
  <2>2. PICK done \in BOOLEAN : Backed!Return(a, done)
    BY <1>2 DEF Backed!RunBackupReturns
  <2>3. op[a].at # "record"
    BY <1>2 DEF Backed!RunBackupReturns, Backed!At, FilesHold
  <2> QED
    BY <1>e, <1>k, <1>t, <1>u, <2>1, <2>2, <2>3
<1>3. CASE Backed!RestoreBackup(a)
  <2>1. UNCHANGED <<made, recorded, gone, files, records, expired, removed, temps, stale>>
    BY <1>3 DEF Backed!RestoreBackup, Backed!disk, Backed!rows
  <2>2. PICK done \in BOOLEAN : Backed!Return(a, done)
    BY <1>3 DEF Backed!RestoreBackup
  <2>3. op[a].at # "record"
    BY <1>3 DEF Backed!RestoreBackup, Backed!At, FilesHold
  <2> QED
    BY <1>e, <1>k, <1>t, <1>u, <2>1, <2>2, <2>3
<1>4. CASE Backed!BackupNotFound(a)
  <2>1. UNCHANGED <<made, recorded, gone, files, records, expired, removed, temps, stale>>
    BY <1>4 DEF Backed!BackupNotFound, Backed!disk, Backed!rows
  <2>2. PICK done \in BOOLEAN : Backed!Return(a, done)
    BY <1>4 DEF Backed!BackupNotFound
  <2>3. op[a].at # "record"
    BY <1>4 DEF Backed!BackupNotFound, Backed!At, FilesHold
  <2> QED
    BY <1>e, <1>k, <1>t, <1>u, <2>1, <2>2, <2>3
<1>5. CASE Backed!SaveBackupSchedule(a)
  <2>1. UNCHANGED <<made, recorded, gone, files, records, expired, removed, temps, stale>>
    BY <1>5 DEF Backed!SaveBackupSchedule, Backed!disk, Backed!rows
  <2>2. PICK done \in BOOLEAN : Backed!Return(a, done)
    BY <1>5 DEF Backed!SaveBackupSchedule
  <2>3. op[a].at # "record"
    BY <1>5 DEF Backed!SaveBackupSchedule, Backed!At, FilesHold
  <2> QED
    BY <1>e, <1>k, <1>t, <1>u, <2>1, <2>2, <2>3
<1>6. CASE Backed!SaveFails(a)
  <2>1. UNCHANGED <<made, recorded, gone, files, records, expired, removed, temps, stale>>
    BY <1>6 DEF Backed!SaveFails, Backed!disk, Backed!rows
  <2>2. PICK done \in BOOLEAN : Backed!Return(a, done)
    BY <1>6 DEF Backed!SaveFails
  <2>3. op[a].at # "record"
    BY <1>6 DEF Backed!SaveFails, Backed!At, FilesHold
  <2> QED
    BY <1>e, <1>k, <1>t, <1>u, <2>1, <2>2, <2>3
<1>7. CASE Backed!StepFails(a)
  <2>1. UNCHANGED <<made, recorded, gone, files, records, expired, removed, temps, stale>>
    BY <1>7 DEF Backed!StepFails, Backed!disk, Backed!rows
  <2>2. PICK done \in BOOLEAN : Backed!Return(a, done)
    BY <1>7 DEF Backed!StepFails
  <2>3. op[a].at # "record"
    BY <1>7 DEF Backed!StepFails, Backed!At, FilesHold
  <2> QED
    BY <1>e, <1>k, <1>t, <1>u, <2>1, <2>2, <2>3
<1>8. CASE Backed!RecordStatus(a)
  <2>1. UNCHANGED <<made, recorded, gone, files, records, expired, removed, temps, stale, restored,
                    mu, lease>>
    BY <1>8 DEF Backed!RecordStatus, Backed!disk, Backed!rows
  <2>2. Backed!Goto(a, "retention") /\ op[a].at # "record"
    BY <1>8 DEF Backed!RecordStatus, Backed!At
  <2> QED
    BY <1>0, <1>k, <1>o, <1>u, <2>1, <2>2, BackedAdvances
<1>9. CASE Backed!Lock(a)
  <2>1. UNCHANGED <<made, recorded, gone, files, records, expired, removed, temps, stale, restored,
                    lease>> /\ mu' = a
    BY <1>9 DEF Backed!Lock, Backed!disk, Backed!rows
  <2>2. Backed!Goto(a, "units") /\ op[a].at # "record"
    BY <1>9 DEF Backed!Lock
  <2>3. OthersKept
    BY <1>t, <2>1 DEF OthersKept, TempsKept, FilesHold
  <2> QED
    BY <1>0, <1>k, <1>u, <2>1, <2>2, <2>3, BackedAdvances
<1>10. CASE Backed!Install(a)
  <2>1. UNCHANGED <<made, recorded, gone, files, records, expired, removed, temps, stale, restored,
                    mu, lease>>
    BY <1>10 DEF Backed!Install, Backed!disk, Backed!rows
  <2>2. Backed!Goto(a, "save") /\ op[a].at # "record"
    BY <1>10 DEF Backed!Install, Backed!At
  <2> QED
    BY <1>0, <1>k, <1>o, <1>u, <2>1, <2>2, BackedAdvances
<1>11. CASE Backed!AcquireBackupLease(a)
  <2>1. UNCHANGED <<made, recorded, gone, files, records, expired, removed, temps, stale, restored,
                    mu>> /\ lease' = [by |-> a, age |-> 0]
    BY <1>11 DEF Backed!AcquireBackupLease, Backed!disk, Backed!rows
  <2>2. Backed!Goto(a, "start") /\ op[a].at # "record"
    BY <1>11 DEF Backed!AcquireBackupLease
  <2>3. OthersKept
    BY <1>0, <1>t, <2>1 DEF OthersKept, TempsKept, FilesHold
  <2> QED
    BY <1>0, <1>k, <1>u, <2>1, <2>2, <2>3, BackedAdvances
<1>12. CASE Backed!CreateTemp(a)
  <2>1. /\ UNCHANGED <<made, recorded, gone, files, records, expired, removed, restored, mu, lease>>
        /\ temps' = (temps \ stale) \cup {a} /\ stale' = {}
    BY <1>12 DEF Backed!CreateTemp, Backed!RecoverAbandoned, Backed!rows
  <2>2. Backed!Goto(a, "dump") /\ op[a].at # "record"
    BY <1>12 DEF Backed!CreateTemp
  <2>3. OthersKept
    BY <2>1 DEF OthersKept, TempsKept, FilesHold
  <2> QED
    BY <1>0, <1>k, <1>u, <2>1, <2>2, <2>3, BackedAdvances
<1>13. CASE Backed!CreateBackup(a)
  <2>1. /\ UNCHANGED <<made, gone, files, expired, removed, temps, stale, restored, mu, lease>>
        /\ records' = records \cup {op[a].f} /\ recorded' = recorded \cup {op[a].f}
        /\ Backed!Goto(a, "status") /\ op[a].at = "record"
    BY <1>13 DEF Backed!CreateBackup, Backed!disk
  <2>2. op[a].f \in 1..made
    BY <2>1 DEF FilesHold
  <2>3. op'[a].at = "status" /\ op'[a].f = op[a].f /\ op'[a].age = op[a].age
        /\ \A b \in Requests \ {a} : op'[b] = op[b]
    BY <1>0, <2>1, BackedMoved
  <2>4. FilesHold(2)'
    BY <2>1, <2>2, <2>3 DEF FilesHold
  <2>5. Referred => Referred'
    BY <2>1, <2>3 DEF Referred
  <2> QED
    BY <2>4, <2>5
<1>14. CASE Backed!ReadSchedule(a)
  <2>1. UNCHANGED <<made, recorded, gone, files, records, expired, removed, temps, stale>>
        /\ op[a].at # "record"
    BY <1>14 DEF Backed!ReadSchedule, Backed!disk, Backed!rows
  <2>2. CASE Backed!Return(a, FALSE)
    BY <1>e, <1>k, <1>t, <1>u, <2>1, <2>2
  <2>3. CASE /\ op' = [op EXCEPT ![a].at = "temp", ![a].enabled = row.enabled]
             /\ UNCHANGED <<lease, mu, job, restored>>
    <3> DEFINE next == [op[a] EXCEPT !.at = "temp", !.enabled = row.enabled]
    <3>1. next.at = "temp" /\ next.f = op[a].f /\ next.age = op[a].age
      BY <1>0 DEF BackupTask
    <3>2. op' = [op EXCEPT ![a] = next]
      BY <2>3
    <3> HIDE DEF next
    <3>3. OpsKept(2) /\ Refers
      BY <1>0, <2>1, <3>1, <3>2 DEF OpsKept, Refers, FilesHold
    <3> QED
      BY <1>k, <1>o, <1>u, <2>1, <2>3, <3>3
  <2> QED
    BY <1>14, <2>2, <2>3 DEF Backed!ReadSchedule
<1>15. CASE Backed!CommitBackupFile(a)
  <2> DEFINE next == [op[a] EXCEPT !.at = "record", !.f = made + 1]
  <2>1. /\ UNCHANGED <<recorded, gone, records, expired, removed, restored, mu, lease, stale>>
        /\ made < 2 /\ made' = made + 1 /\ files' = files \cup {made + 1}
        /\ temps' = temps \ {a} /\ op[a].at = "dump"
        /\ op[a].kind \in {"backup", "scheduled"}
    BY <1>15 DEF Backed!CommitBackupFile, Backed!rows
  <2>2. op' = [op EXCEPT ![a] = next]
    BY <1>15, <2>1 DEF Backed!CommitBackupFile
  <2>3. /\ next.at = "record" /\ next.f = made + 1 /\ next.age = op[a].age
        /\ next.kind = op[a].kind
    BY <1>0 DEF BackupTask
  <2> HIDE DEF next
  <2>4. /\ op'[a].at = "record" /\ op'[a].f = made + 1 /\ op'[a].age = op[a].age
        /\ op'[a].kind = op[a].kind /\ \A b \in Requests \ {a} : op'[b] = op[b]
    BY <1>0, <2>2, <2>3
  <2>5. a \notin stale
    BY <2>1 DEF FilesHold
  <2>o. \A b \in Requests :
          /\ op'[b].age <= Lease /\ op'[b].f <= 2
          /\ op'[b].at = "record" => op'[b].kind \in {"backup", "scheduled"} /\ op'[b].f \in 1..made'
          /\ op'[b].at = "dump" => b \notin stale
    BY <2>1, <2>4 DEF FilesHold
  <2>6. FilesHold(2)'
    BY <2>1, <2>5, <2>o DEF FilesHold
  <2>7. Referred => Referred'
    BY <2>1, <2>4 DEF Referred
  <2> QED
    BY <2>6, <2>7
<1>16. CASE Backed!BackupFails(a)
  <2>1. /\ UNCHANGED <<made, recorded, gone, records, expired, removed>>
        /\ temps' = temps \ {a} /\ stale' = stale \ {a}
        /\ files' = IF op[a].at = "record" THEN files \ {op[a].f} ELSE files
    BY <1>16 DEF Backed!BackupFails, Backed!WithoutUnrecorded
  <2>2. PICK done \in BOOLEAN : Backed!Return(a, done)
    BY <1>16 DEF Backed!BackupFails
  <2>3. FilesFewer /\ TempsKept
    BY <2>1 DEF FilesFewer, FilesHold, TempsKept
  <2> QED
    BY <1>e, <1>k, <2>1, <2>2, <2>3
<1>r. ASSUME NEW f \in records, Backed!RemoveFileThenRecord(a, f), UNCHANGED <<made, recorded, gone, expired>>
      PROVE  FilesFewer
  BY <1>r DEF FilesFewer, Backed!RemoveFileThenRecord, FilesHold
<1>17. CASE Backed!DeleteBackup(a)
  <2>1. /\ UNCHANGED <<made, recorded, gone, expired, temps, stale>> /\ op[a].at = "start"
        /\ op[a].f \in records /\ Backed!RemoveFileThenRecord(a, op[a].f)
    BY <1>17 DEF Backed!DeleteBackup, Backed!At
  <2>2. FilesFewer
    BY <1>r, <2>1
  <2>3. CASE UNCHANGED <<op, lease, mu, job, restored>>
    BY <1>k, <1>o, <1>s, <2>1, <2>2, <2>3
  <2>4. CASE Backed!Return(a, TRUE)
    BY <1>e, <1>k, <1>t, <2>1, <2>2, <2>4
  <2> QED
    BY <1>17, <2>3, <2>4 DEF Backed!DeleteBackup
<1>18. CASE Backed!ApplyRetention(a)
  <2>1. UNCHANGED <<made, recorded, gone, expired, temps, stale, op, lease, mu, restored>>
    BY <1>18 DEF Backed!ApplyRetention
  <2>2. PICK f \in records : Backed!RemoveFileThenRecord(a, f)
    BY <1>18 DEF Backed!ApplyRetention, Backed!ExpiredBackups
  <2>3. FilesFewer
    BY <1>r, <2>1, <2>2
  <2> QED
    BY <1>k, <1>o, <1>s, <2>1, <2>3
<1>19. CASE Backed!TempAges(a)
  <2>1. UNCHANGED <<made, recorded, gone, files, records, expired, removed, op, lease, mu, restored,
                    temps>> /\ stale' = stale \cup {a} /\ a \in temps /\ op[a].at # "dump"
    BY <1>19 DEF Backed!TempAges, Backed!rows
  <2>2. OthersKept
    BY <2>1 DEF OthersKept, TempsKept, FilesHold
  <2> QED
    BY <1>k, <1>s, <1>u, <2>1, <2>2
<1>20. CASE Backed!TimerFires(a)
  <2> DEFINE next == [Backed!NoOp EXCEPT !.kind = "scheduled", !.at = "lease"]
  <2>1. /\ UNCHANGED <<made, recorded, gone, files, records, expired, removed, lease, mu, temps,
                       stale>> /\ restored' = restored \ {a} /\ op[a].kind = "idle"
    BY <1>20 DEF Backed!TimerFires, Backed!disk, Backed!rows
  <2>2. op' = [op EXCEPT ![a] = next]
    BY <1>20 DEF Backed!TimerFires
  <2>3. next.at = "lease" /\ next.f = 0 /\ next.age = 0
    BY BackedNoOp, BackedIdle DEF BackupTask
  <2> HIDE DEF next
  <2>4. OpsKept(2) /\ Refers
    BY <1>0, <2>1, <2>2, <2>3 DEF OpsKept, Refers, FilesHold
  <2>5. OthersKept
    BY <2>1 DEF OthersKept, TempsKept, FilesHold
  <2> QED
    BY <1>k, <1>u, <2>1, <2>4, <2>5
<1>21. CASE Backed!DisableUnits(a)
  BY <1>21 DEF BackedInv, BackedHolds, Backed!DisableUnits, Backed!At
<1>22. CASE Backed!DeleteService(a)
  BY <1>22 DEF BackedInv, BackedHolds, Backed!DeleteService, Backed!At
<1> QED
  BY <1>1, <1>2, <1>3, <1>4, <1>5, <1>6, <1>7, <1>8, <1>9, <1>10, <1>11, <1>12, <1>13, <1>14,
     <1>15, <1>16, <1>17, <1>18, <1>19, <1>20, <1>21, <1>22

LEMMA BackedFilesNext ==
  ASSUME BackedInv, FilesHold(2), Backed!Next
  PROVE  FilesHold(2)' /\ (Backed!Crash \/ (Referred => Referred'))
<1>0. Constants /\ BackupTypes /\ 2 \in Nat /\ 0 <= Lease /\ Lease \in Nat
      /\ op \in [Requests -> BackupTask]
  BY DEF BackedInv, BackupTypes, Constants, Backed!CapBelowLease
<1>k. ASSUME OpsKept(2), OthersKept, FilesFewer, Refers PROVE FilesHold(2)' /\ (Referred => Referred')
  BY <1>0, <1>k, FilesKept, ReferredKept
<1>1. ASSUME NEW a \in Requests,
             NEW kind \in {"backup", "scheduled", "delete", "on"},
             NEW f \in 0..2, Backed!Request(a, kind, f)
      PROVE  FilesHold(2)' /\ (Referred => Referred')
  <2>1. /\ UNCHANGED <<made, recorded, gone, files, records, expired, removed, lease, mu, temps,
                       stale>> /\ restored' = restored \ {a} /\ op[a].kind = "idle"
    BY <1>1 DEF Backed!Request, Backed!disk, Backed!rows
  <2>2. /\ op'[a].at \in {"lease", "none"} /\ op'[a].f <= 2 /\ op'[a].age = 0
        /\ \A b \in Requests \ {a} : op'[b] = op[b]
    <3>1. CASE Backed!RunningJob(kind)
      <4> DEFINE next == [Backed!NoOp EXCEPT !.kind = "joined", !.asked = kind, !.joined = job]
      <4>1. op' = [op EXCEPT ![a] = next]
        BY <1>1, <3>1 DEF Backed!Request
      <4>2. next.at = "none" /\ next.f = 0 /\ next.age = 0
        BY BackedNoOp, BackedIdle DEF BackupTask
      <4> HIDE DEF next
      <4> QED
        BY <1>0, <4>1, <4>2
    <3>2. CASE ~Backed!RunningJob(kind)
      <4> DEFINE next == [Backed!NoOp EXCEPT !.kind = kind, !.at = "lease", !.f = f, !.asked = kind]
      <4>1. op' = [op EXCEPT ![a] = next]
        BY <1>1, <3>2 DEF Backed!Request
      <4>2. next.at = "lease" /\ next.f = f /\ next.age = 0
        BY BackedNoOp, BackedIdle DEF BackupTask
      <4>3. f <= 2
        BY <1>1
      <4> HIDE DEF next
      <4> QED
        BY <1>0, <4>1, <4>2, <4>3
    <3> QED
      BY <3>1, <3>2
  <2>4. OpsKept(2) /\ Refers
    BY <1>0, <2>1, <2>2 DEF OpsKept, Refers, FilesHold
  <2>5. OthersKept /\ FilesFewer
    BY <2>1 DEF OthersKept, TempsKept, FilesFewer, FilesHold
  <2> QED
    BY <1>k, <2>4, <2>5
<1>2. CASE Backed!Crash
  <2>1. /\ UNCHANGED <<made, recorded, gone, files, records, expired, removed, lease, temps, stale>>
        /\ mu' = None /\ restored' = {} /\ deaths' = deaths + 1
        /\ op' = [a \in Requests |-> IF op[a].kind = "scheduled" THEN op[a] ELSE Backed!NoOp]
    BY <1>2 DEF Backed!Crash, Backed!disk, Backed!rows
  <2>2. OpsKept(2)
    BY <1>0, <2>1, BackedIdle DEF OpsKept, FilesHold
  <2>3. OthersKept /\ FilesFewer
    BY <2>1 DEF OthersKept, TempsKept, FilesFewer, FilesHold
  <2> QED
    BY <1>0, <1>2, <2>1, <2>2, <2>3, FilesKept
<1>3. CASE Backed!Tick
  <2> DEFINE older(t) == [t EXCEPT !.age = t.age + 1]
  <2>1. ASSUME NEW t \in BackupTask
        PROVE  /\ older(t).kind = t.kind /\ older(t).at = t.at /\ older(t).f = t.f
               /\ older(t).age = t.age + 1
    BY DEF BackupTask
  <2>2. op' = [a \in Requests |-> IF Backed!Live(a) /\ op[a].age < Lease THEN older(op[a]) ELSE op[a]]
    BY <1>3 DEF Backed!Tick
  <2> HIDE DEF older
  <2>3. \A a \in Requests : op[a] \in BackupTask /\ op[a].age \in Nat
    BY <1>0 DEF BackupTask
  <2>4. OpsKept(2) /\ Refers
    BY <1>0, <2>1, <2>2, <2>3 DEF OpsKept, Refers, FilesHold
  <2>5. lease'.age <= Lease
    BY <1>0, <1>3 DEF Backed!Tick, FilesHold, BackupTypes
  <2>6. UNCHANGED <<made, recorded, gone, files, records, expired, removed, temps, stale, mu,
                    restored>>
    BY <1>3 DEF Backed!Tick, Backed!disk, Backed!rows
  <2>7. OthersKept /\ FilesFewer
    BY <2>5, <2>6 DEF OthersKept, TempsKept, FilesFewer, FilesHold
  <2> QED
    BY <1>k, <2>4, <2>7
<1>4. ASSUME NEW f \in Backed!Files, Backed!BackupExpires(f) PROVE FilesHold(2)' /\ (Referred => Referred')
  <2>1. /\ UNCHANGED <<made, recorded, gone, files, records, removed, temps, stale, mu, lease,
                       restored, op>> /\ expired' = expired \cup {f} /\ f \in records
    BY <1>4 DEF Backed!BackupExpires, Backed!rows
  <2>2. OpsKept(2) /\ Refers
    BY <2>1 DEF OpsKept, Refers, FilesHold
  <2>3. OthersKept /\ FilesFewer
    BY <2>1 DEF OthersKept, TempsKept, FilesFewer, FilesHold
  <2> QED
    BY <1>k, <2>2, <2>3
<1> QED
  BY <1>1, <1>2, <1>3, <1>4, BackedFiles DEF Backed!Next

LEMMA HangingIdle == Hanging!NoOp.at = "none" /\ Hanging!NoOp.age = 0 /\ Hanging!NoOp.f = 0
BY DEF Hanging!NoOp

(* One operation goes on, or ends and takes those that joined it with it.  *)
LEMMA HangingMoved ==
  ASSUME BackupTypes, FilesHold(1), NEW a \in Requests, NEW stage, Hanging!Goto(a, stage)
  PROVE  /\ op'[a].at = stage /\ op'[a].f = op[a].f /\ op'[a].kind = op[a].kind
         /\ op'[a].age = op[a].age /\ \A b \in Requests \ {a} : op'[b] = op[b]
<1> DEFINE next == [op[a] EXCEPT !.at = stage]
<1>1. op[a] \in BackupTask /\ op \in [Requests -> BackupTask]
  BY DEF BackupTypes
<1>2. next.at = stage /\ next.f = op[a].f /\ next.kind = op[a].kind /\ next.age = op[a].age
  BY <1>1 DEF BackupTask
<1>3. op' = [op EXCEPT ![a] = next]
  BY DEF Hanging!Goto
<1> HIDE DEF next
<1> QED
  BY <1>1, <1>2, <1>3

LEMMA HangingAdvances ==
  ASSUME BackupTypes, FilesHold(1), NEW a \in Requests, NEW stage, Hanging!Goto(a, stage),
         stage # "record", stage # "dump" \/ stale' = {}
  PROVE  OpsKept(1) /\ (op[a].at # "record" => Refers)
BY HangingMoved DEF OpsKept, Refers, FilesHold

LEMMA HangingOver ==
  ASSUME BackupTypes, NEW a \in Requests, NEW done, Hanging!Finish(a, done)
  PROVE  /\ restored' = restored \cup {a} \/ restored' = restored \ {a}
         /\ \A b \in Requests :
              \/ op'[b] = op[b] /\ b # a
              \/ /\ op'[b].at \in {"none", "complete"} /\ op'[b].f = 0 /\ op'[b].age = 0
                 /\ b = a \/ op[b].joined = a
<1> DEFINE complete(asked) == [Hanging!NoOp EXCEPT !.at = "complete", !.asked = asked]
<1>1. ASSUME NEW asked \in BackupKinds \cup {"none"}
      PROVE  /\ complete(asked).at = "complete" /\ complete(asked).f = 0
             /\ complete(asked).age = 0
  BY HangingNoOp, HangingIdle DEF BackupTask
<1>2. \A b \in Requests : op[b].asked \in BackupKinds \cup {"none"} /\ op[b] \in BackupTask
  BY DEF BackupTypes, BackupTask
<1>3. op' = [b \in Requests |->
               IF b = a THEN IF op[a].kind \in {"backup", "restore"} /\ done
                             THEN complete(op[a].asked) ELSE Hanging!NoOp
               ELSE IF op[b].joined # a THEN op[b]
               ELSE IF done THEN complete(op[b].asked) ELSE Hanging!NoOp]
  BY DEF Hanging!Finish
<1>4. restored' = restored \cup {a} \/ restored' = restored \ {a}
  BY DEF Hanging!Finish
<1> HIDE DEF complete
<1> QED
  BY <1>1, <1>2, <1>3, <1>4, HangingIdle

LEMMA HangingEnds ==
  ASSUME BackupTypes, Constants, FilesHold(1), NEW a \in Requests, NEW done, Hanging!Finish(a, done)
  PROVE  /\ OpsKept(1) /\ restored' \subseteq Requests
         /\ (op[a].at # "record" \/ op[a].f \notin files') => Refers
<1>n. 0 <= Lease /\ a # None
  BY DEF Constants, Backed!CapBelowLease
<1>1. /\ restored' = restored \cup {a} \/ restored' = restored \ {a}
      /\ \A b \in Requests :
           \/ op'[b] = op[b] /\ b # a
           \/ /\ op'[b].at \in {"none", "complete"} /\ op'[b].f = 0 /\ op'[b].age = 0
              /\ b = a \/ op[b].joined = a
  BY HangingOver
<1>2. ASSUME NEW b \in Requests, op[b].at = "record", b # a PROVE op'[b] = op[b]
  BY <1>n, <1>1, <1>2 DEF BackupTypes, FilesHold
<1>3. OpsKept(1)
  BY <1>n, <1>1 DEF OpsKept, FilesHold
<1>4. restored' \subseteq Requests
  BY <1>1 DEF FilesHold
<1>5. (op[a].at # "record" \/ op[a].f \notin files') => Refers
  BY <1>2 DEF Refers
<1> QED
  BY <1>3, <1>4, <1>5

LEMMA HangingFiles ==
  ASSUME HangingInv, FilesHold(1), NEW a \in Requests,
         Hanging!LeaseRefused(a) \/ Hanging!RunBackupReturns(a) \/ Hanging!RestoreBackup(a) \/
         Hanging!BackupNotFound(a) \/ Hanging!SaveBackupSchedule(a) \/ Hanging!SaveFails(a) \/
         Hanging!StepFails(a) \/ Hanging!RecordStatus(a) \/ Hanging!Lock(a) \/
         Hanging!Install(a) \/ Hanging!AcquireBackupLease(a) \/ Hanging!CreateTemp(a) \/
         Hanging!CreateBackup(a) \/ Hanging!ReadSchedule(a) \/ Hanging!CommitBackupFile(a) \/
         Hanging!BackupFails(a) \/ Hanging!DeleteBackup(a) \/ Hanging!ApplyRetention(a) \/
         Hanging!TempAges(a) \/ Hanging!TimerFires(a) \/ Hanging!DisableUnits(a) \/
         Hanging!DeleteService(a)
  PROVE  FilesHold(1)'
<1>0. Constants /\ BackupTypes /\ 1 \in Nat /\ 0 <= Lease /\ op \in [Requests -> BackupTask]
  BY DEF HangingInv, BackupTypes, Constants, Backed!CapBelowLease
<1>k. ASSUME OpsKept(1), OthersKept, FilesFewer, Refers PROVE FilesHold(1)'
  BY <1>0, <1>k, FilesKept, ReferredKept
<1>u. ASSUME UNCHANGED <<made, recorded, gone, files, records, expired, removed>> PROVE FilesFewer
  BY <1>u DEF FilesFewer, FilesHold
<1>t. ASSUME UNCHANGED <<temps, stale>> PROVE TempsKept
  BY <1>t DEF FilesHold, TempsKept
<1>o. ASSUME UNCHANGED <<temps, stale, restored, mu, lease>> PROVE OthersKept
  BY <1>o, <1>t DEF OthersKept, FilesHold
<1>s. ASSUME UNCHANGED op PROVE OpsKept(1) /\ Refers
  BY <1>s DEF OpsKept, Refers, FilesHold
<1>e. ASSUME NEW done, Hanging!Return(a, done), TempsKept
      PROVE  OpsKept(1) /\ OthersKept /\ (op[a].at # "record" \/ op[a].f \notin files' => Refers)
  <2>1. Hanging!Finish(a, done) /\ Hanging!ReleaseBackupLease(a) /\ mu' = IF mu = a THEN None ELSE mu
    BY <1>e DEF Hanging!Return
  <2>2. lease'.age <= Lease /\ mu' \in Requests \cup {None}
    BY <1>0, <2>1 DEF Hanging!ReleaseBackupLease, FilesHold
  <2> QED
    BY <1>0, <1>e, <2>1, <2>2, HangingEnds DEF OthersKept
<1>1. CASE Hanging!LeaseRefused(a)
  <2>1. UNCHANGED <<made, recorded, gone, files, records, expired, removed, temps, stale>>
    BY <1>1 DEF Hanging!LeaseRefused, Hanging!disk, Hanging!rows
  <2>2. PICK done \in BOOLEAN : Hanging!Return(a, done)
    BY <1>1 DEF Hanging!LeaseRefused
  <2>3. op[a].at # "record"
    BY <1>1 DEF Hanging!LeaseRefused, Hanging!At, FilesHold
  <2> QED
    BY <1>e, <1>k, <1>t, <1>u, <2>1, <2>2, <2>3
<1>2. CASE Hanging!RunBackupReturns(a)
  <2>1. UNCHANGED <<made, recorded, gone, files, records, expired, removed, temps, stale>>
    BY <1>2 DEF Hanging!RunBackupReturns, Hanging!disk, Hanging!rows
  <2>2. PICK done \in BOOLEAN : Hanging!Return(a, done)
    BY <1>2 DEF Hanging!RunBackupReturns
  <2>3. op[a].at # "record"
    BY <1>2 DEF Hanging!RunBackupReturns, Hanging!At, FilesHold
  <2> QED
    BY <1>e, <1>k, <1>t, <1>u, <2>1, <2>2, <2>3
<1>3. CASE Hanging!RestoreBackup(a)
  <2>1. UNCHANGED <<made, recorded, gone, files, records, expired, removed, temps, stale>>
    BY <1>3 DEF Hanging!RestoreBackup, Hanging!disk, Hanging!rows
  <2>2. PICK done \in BOOLEAN : Hanging!Return(a, done)
    BY <1>3 DEF Hanging!RestoreBackup
  <2>3. op[a].at # "record"
    BY <1>3 DEF Hanging!RestoreBackup, Hanging!At, FilesHold
  <2> QED
    BY <1>e, <1>k, <1>t, <1>u, <2>1, <2>2, <2>3
<1>4. CASE Hanging!BackupNotFound(a)
  <2>1. UNCHANGED <<made, recorded, gone, files, records, expired, removed, temps, stale>>
    BY <1>4 DEF Hanging!BackupNotFound, Hanging!disk, Hanging!rows
  <2>2. PICK done \in BOOLEAN : Hanging!Return(a, done)
    BY <1>4 DEF Hanging!BackupNotFound
  <2>3. op[a].at # "record"
    BY <1>4 DEF Hanging!BackupNotFound, Hanging!At, FilesHold
  <2> QED
    BY <1>e, <1>k, <1>t, <1>u, <2>1, <2>2, <2>3
<1>5. CASE Hanging!SaveBackupSchedule(a)
  <2>1. UNCHANGED <<made, recorded, gone, files, records, expired, removed, temps, stale>>
    BY <1>5 DEF Hanging!SaveBackupSchedule, Hanging!disk, Hanging!rows
  <2>2. PICK done \in BOOLEAN : Hanging!Return(a, done)
    BY <1>5 DEF Hanging!SaveBackupSchedule
  <2>3. op[a].at # "record"
    BY <1>5 DEF Hanging!SaveBackupSchedule, Hanging!At, FilesHold
  <2> QED
    BY <1>e, <1>k, <1>t, <1>u, <2>1, <2>2, <2>3
<1>6. CASE Hanging!SaveFails(a)
  <2>1. UNCHANGED <<made, recorded, gone, files, records, expired, removed, temps, stale>>
    BY <1>6 DEF Hanging!SaveFails, Hanging!disk, Hanging!rows
  <2>2. PICK done \in BOOLEAN : Hanging!Return(a, done)
    BY <1>6 DEF Hanging!SaveFails
  <2>3. op[a].at # "record"
    BY <1>6 DEF Hanging!SaveFails, Hanging!At, FilesHold
  <2> QED
    BY <1>e, <1>k, <1>t, <1>u, <2>1, <2>2, <2>3
<1>7. CASE Hanging!StepFails(a)
  <2>1. UNCHANGED <<made, recorded, gone, files, records, expired, removed, temps, stale>>
    BY <1>7 DEF Hanging!StepFails, Hanging!disk, Hanging!rows
  <2>2. PICK done \in BOOLEAN : Hanging!Return(a, done)
    BY <1>7 DEF Hanging!StepFails
  <2>3. op[a].at # "record"
    BY <1>7 DEF Hanging!StepFails, Hanging!At, FilesHold
  <2> QED
    BY <1>e, <1>k, <1>t, <1>u, <2>1, <2>2, <2>3
<1>8. CASE Hanging!RecordStatus(a)
  <2>1. UNCHANGED <<made, recorded, gone, files, records, expired, removed, temps, stale, restored,
                    mu, lease>>
    BY <1>8 DEF Hanging!RecordStatus, Hanging!disk, Hanging!rows
  <2>2. Hanging!Goto(a, "retention") /\ op[a].at # "record"
    BY <1>8 DEF Hanging!RecordStatus, Hanging!At
  <2> QED
    BY <1>0, <1>k, <1>o, <1>u, <2>1, <2>2, HangingAdvances
<1>9. CASE Hanging!Lock(a)
  <2>1. UNCHANGED <<made, recorded, gone, files, records, expired, removed, temps, stale, restored,
                    lease>> /\ mu' = a
    BY <1>9 DEF Hanging!Lock, Hanging!disk, Hanging!rows
  <2>2. Hanging!Goto(a, "units") /\ op[a].at # "record"
    BY <1>9 DEF Hanging!Lock
  <2>3. OthersKept
    BY <1>t, <2>1 DEF OthersKept, TempsKept, FilesHold
  <2> QED
    BY <1>0, <1>k, <1>u, <2>1, <2>2, <2>3, HangingAdvances
<1>10. CASE Hanging!Install(a)
  <2>1. UNCHANGED <<made, recorded, gone, files, records, expired, removed, temps, stale, restored,
                    mu, lease>>
    BY <1>10 DEF Hanging!Install, Hanging!disk, Hanging!rows
  <2>2. Hanging!Goto(a, "save") /\ op[a].at # "record"
    BY <1>10 DEF Hanging!Install, Hanging!At
  <2> QED
    BY <1>0, <1>k, <1>o, <1>u, <2>1, <2>2, HangingAdvances
<1>11. CASE Hanging!AcquireBackupLease(a)
  <2>1. UNCHANGED <<made, recorded, gone, files, records, expired, removed, temps, stale, restored,
                    mu>> /\ lease' = [by |-> a, age |-> 0]
    BY <1>11 DEF Hanging!AcquireBackupLease, Hanging!disk, Hanging!rows
  <2>2. Hanging!Goto(a, "start") /\ op[a].at # "record"
    BY <1>11 DEF Hanging!AcquireBackupLease
  <2>3. OthersKept
    BY <1>0, <1>t, <2>1 DEF OthersKept, TempsKept, FilesHold
  <2> QED
    BY <1>0, <1>k, <1>u, <2>1, <2>2, <2>3, HangingAdvances
<1>12. CASE Hanging!CreateTemp(a)
  <2>1. /\ UNCHANGED <<made, recorded, gone, files, records, expired, removed, restored, mu, lease>>
        /\ temps' = (temps \ stale) \cup {a} /\ stale' = {}
    BY <1>12 DEF Hanging!CreateTemp, Hanging!RecoverAbandoned, Hanging!rows
  <2>2. Hanging!Goto(a, "dump") /\ op[a].at # "record"
    BY <1>12 DEF Hanging!CreateTemp
  <2>3. OthersKept
    BY <2>1 DEF OthersKept, TempsKept, FilesHold
  <2> QED
    BY <1>0, <1>k, <1>u, <2>1, <2>2, <2>3, HangingAdvances
<1>13. CASE Hanging!CreateBackup(a)
  <2>1. /\ UNCHANGED <<made, gone, files, expired, removed, temps, stale, restored, mu, lease>>
        /\ records' = records \cup {op[a].f} /\ recorded' = recorded \cup {op[a].f}
        /\ Hanging!Goto(a, "status") /\ op[a].at = "record"
    BY <1>13 DEF Hanging!CreateBackup, Hanging!disk
  <2>2. op[a].f \in 1..made
    BY <2>1 DEF FilesHold
  <2>3. op'[a].at = "status" /\ op'[a].f = op[a].f /\ op'[a].age = op[a].age
        /\ \A b \in Requests \ {a} : op'[b] = op[b]
    BY <1>0, <2>1, HangingMoved
  <2>4. FilesHold(1)'
    BY <2>1, <2>2, <2>3 DEF FilesHold
  <2> QED
    BY <2>4
<1>14. CASE Hanging!ReadSchedule(a)
  <2>1. UNCHANGED <<made, recorded, gone, files, records, expired, removed, temps, stale>>
        /\ op[a].at # "record"
    BY <1>14 DEF Hanging!ReadSchedule, Hanging!disk, Hanging!rows
  <2>2. CASE Hanging!Return(a, FALSE)
    BY <1>e, <1>k, <1>t, <1>u, <2>1, <2>2
  <2>3. CASE /\ op' = [op EXCEPT ![a].at = "temp", ![a].enabled = row.enabled]
             /\ UNCHANGED <<lease, mu, job, restored>>
    <3> DEFINE next == [op[a] EXCEPT !.at = "temp", !.enabled = row.enabled]
    <3>1. next.at = "temp" /\ next.f = op[a].f /\ next.age = op[a].age
      BY <1>0 DEF BackupTask
    <3>2. op' = [op EXCEPT ![a] = next]
      BY <2>3
    <3> HIDE DEF next
    <3>3. OpsKept(1) /\ Refers
      BY <1>0, <2>1, <3>1, <3>2 DEF OpsKept, Refers, FilesHold
    <3> QED
      BY <1>k, <1>o, <1>u, <2>1, <2>3, <3>3
  <2> QED
    BY <1>14, <2>2, <2>3 DEF Hanging!ReadSchedule
<1>15. CASE Hanging!CommitBackupFile(a)
  <2> DEFINE next == [op[a] EXCEPT !.at = "record", !.f = made + 1]
  <2>1. /\ UNCHANGED <<recorded, gone, records, expired, removed, restored, mu, lease, stale>>
        /\ made < 1 /\ made' = made + 1 /\ files' = files \cup {made + 1}
        /\ temps' = temps \ {a} /\ op[a].at = "dump"
        /\ op[a].kind \in {"backup", "scheduled"}
    BY <1>15 DEF Hanging!CommitBackupFile, Hanging!rows
  <2>2. op' = [op EXCEPT ![a] = next]
    BY <1>15, <2>1 DEF Hanging!CommitBackupFile
  <2>3. /\ next.at = "record" /\ next.f = made + 1 /\ next.age = op[a].age
        /\ next.kind = op[a].kind
    BY <1>0 DEF BackupTask
  <2> HIDE DEF next
  <2>4. /\ op'[a].at = "record" /\ op'[a].f = made + 1 /\ op'[a].age = op[a].age
        /\ op'[a].kind = op[a].kind /\ \A b \in Requests \ {a} : op'[b] = op[b]
    BY <1>0, <2>2, <2>3
  <2>5. a \notin stale
    BY <2>1 DEF FilesHold
  <2>o. \A b \in Requests :
          /\ op'[b].age <= Lease /\ op'[b].f <= 1
          /\ op'[b].at = "record" => op'[b].kind \in {"backup", "scheduled"} /\ op'[b].f \in 1..made'
          /\ op'[b].at = "dump" => b \notin stale
    BY <2>1, <2>4 DEF FilesHold
  <2>6. FilesHold(1)'
    BY <2>1, <2>5, <2>o DEF FilesHold
  <2> QED
    BY <2>6
<1>16. CASE Hanging!BackupFails(a)
  <2>1. /\ UNCHANGED <<made, recorded, gone, records, expired, removed>>
        /\ temps' = temps \ {a} /\ stale' = stale \ {a}
        /\ files' = IF op[a].at = "record" THEN files \ {op[a].f} ELSE files
    BY <1>16 DEF Hanging!BackupFails, Hanging!WithoutUnrecorded
  <2>2. PICK done \in BOOLEAN : Hanging!Return(a, done)
    BY <1>16 DEF Hanging!BackupFails
  <2>3. FilesFewer /\ TempsKept
    BY <2>1 DEF FilesFewer, FilesHold, TempsKept
  <2> QED
    BY <1>e, <1>k, <2>1, <2>2, <2>3
<1>r. ASSUME NEW f \in records, Hanging!RemoveFileThenRecord(a, f),
             UNCHANGED <<made, recorded, gone, expired>>
      PROVE  FilesFewer
  BY <1>r DEF FilesFewer, Hanging!RemoveFileThenRecord, FilesHold
<1>17. CASE Hanging!DeleteBackup(a)
  <2>1. /\ UNCHANGED <<made, recorded, gone, expired, temps, stale>> /\ op[a].at = "start"
        /\ op[a].f \in records /\ Hanging!RemoveFileThenRecord(a, op[a].f)
    BY <1>17 DEF Hanging!DeleteBackup, Hanging!At
  <2>2. FilesFewer
    BY <1>r, <2>1
  <2>3. CASE UNCHANGED <<op, lease, mu, job, restored>>
    BY <1>k, <1>o, <1>s, <2>1, <2>2, <2>3
  <2>4. CASE Hanging!Return(a, TRUE)
    BY <1>e, <1>k, <1>t, <2>1, <2>2, <2>4
  <2> QED
    BY <1>17, <2>3, <2>4 DEF Hanging!DeleteBackup
<1>18. CASE Hanging!ApplyRetention(a)
  <2>1. UNCHANGED <<made, recorded, gone, expired, temps, stale, op, lease, mu, restored>>
    BY <1>18 DEF Hanging!ApplyRetention
  <2>2. PICK f \in records : Hanging!RemoveFileThenRecord(a, f)
    BY <1>18 DEF Hanging!ApplyRetention, Hanging!ExpiredBackups
  <2>3. FilesFewer
    BY <1>r, <2>1, <2>2
  <2> QED
    BY <1>k, <1>o, <1>s, <2>1, <2>3
<1>19. CASE Hanging!TempAges(a)
  <2>1. UNCHANGED <<made, recorded, gone, files, records, expired, removed, op, lease, mu, restored,
                    temps>> /\ stale' = stale \cup {a} /\ a \in temps /\ op[a].at # "dump"
    BY <1>19 DEF Hanging!TempAges, Hanging!rows
  <2>2. OthersKept
    BY <2>1 DEF OthersKept, TempsKept, FilesHold
  <2> QED
    BY <1>k, <1>s, <1>u, <2>1, <2>2
<1>20. CASE Hanging!TimerFires(a)
  <2> DEFINE next == [Hanging!NoOp EXCEPT !.kind = "scheduled", !.at = "lease"]
  <2>1. /\ UNCHANGED <<made, recorded, gone, files, records, expired, removed, lease, mu, temps,
                       stale>> /\ restored' = restored \ {a} /\ op[a].kind = "idle"
    BY <1>20 DEF Hanging!TimerFires, Hanging!disk, Hanging!rows
  <2>2. op' = [op EXCEPT ![a] = next]
    BY <1>20 DEF Hanging!TimerFires
  <2>3. next.at = "lease" /\ next.f = 0 /\ next.age = 0
    BY HangingNoOp, HangingIdle DEF BackupTask
  <2> HIDE DEF next
  <2>4. OpsKept(1) /\ Refers
    BY <1>0, <2>1, <2>2, <2>3 DEF OpsKept, Refers, FilesHold
  <2>5. OthersKept
    BY <2>1 DEF OthersKept, TempsKept, FilesHold
  <2> QED
    BY <1>k, <1>u, <2>1, <2>4, <2>5
<1>21. CASE Hanging!DisableUnits(a)
  <2>1. UNCHANGED <<made, recorded, gone, files, records, expired, removed, temps, stale, restored,
                    mu, lease>>
    BY <1>21 DEF Hanging!DisableUnits, Hanging!disk, Hanging!rows
  <2>2. op[a].at = "units"
    BY <1>21 DEF Hanging!DisableUnits
  <2>3. OpsKept(1)
    <3>1. CASE Hanging!Goto(a, "save")
      BY <1>0, <3>1, HangingAdvances
    <3>2. CASE Hanging!StopUnit("save", a)
      <4> DEFINE next == [op[a] EXCEPT !.at = "save"]
      <4>1. next.at = "save" /\ next.f = op[a].f /\ next.age = op[a].age
        BY <1>0 DEF BackupTask
      <4>2. op' = [b \in Requests |-> IF b = a THEN next
                                      ELSE IF op[b].kind = "scheduled" THEN Hanging!NoOp ELSE op[b]]
        BY <3>2 DEF Hanging!StopUnit
      <4> HIDE DEF next
      <4> QED
        BY <1>0, <4>1, <4>2, HangingIdle DEF OpsKept, FilesHold
    <3> QED
      BY <1>21, <3>1, <3>2 DEF Hanging!DisableUnits, Hanging!Disable
  <2> QED
    BY <1>0, <1>o, <1>u, <2>1, <2>3, FilesKept
<1>22. CASE Hanging!DeleteService(a)
  <2>1. /\ UNCHANGED <<made, files, expired, removed, temps, stale>> /\ gone' = TRUE
        /\ records' = {} /\ recorded' = {} /\ Hanging!Finish(a, TRUE) /\ mu' = None
        /\ lease' = [by |-> None, age |-> 0]
    BY <1>22 DEF Hanging!DeleteService, Hanging!disk
  <2>2. OpsKept(1) /\ restored' \subseteq Requests
    BY <1>0, <2>1, HangingEnds
  <2> QED
    BY <1>0, <2>1, <2>2 DEF FilesHold, OpsKept
<1> QED
  BY <1>1, <1>2, <1>3, <1>4, <1>5, <1>6, <1>7, <1>8, <1>9, <1>10, <1>11, <1>12, <1>13, <1>14,
     <1>15, <1>16, <1>17, <1>18, <1>19, <1>20, <1>21, <1>22

LEMMA HangingFilesNext ==
  ASSUME HangingInv, FilesHold(1), Hanging!Next
  PROVE  FilesHold(1)'
<1>0. Constants /\ BackupTypes /\ 1 \in Nat /\ 0 <= Lease /\ Lease \in Nat
      /\ op \in [Requests -> BackupTask]
  BY DEF HangingInv, BackupTypes, Constants, Backed!CapBelowLease
<1>k. ASSUME OpsKept(1), OthersKept, FilesFewer, Refers PROVE FilesHold(1)'
  BY <1>0, <1>k, FilesKept, ReferredKept
<1>1. ASSUME NEW a \in Requests,
             NEW kind \in {"backup", "scheduled", "restore", "on", "off", "teardown"},
             NEW f \in 0..1, Hanging!Request(a, kind, f)
      PROVE  FilesHold(1)'
  <2>1. /\ UNCHANGED <<made, recorded, gone, files, records, expired, removed, lease, mu, temps,
                       stale>> /\ restored' = restored \ {a} /\ op[a].kind = "idle"
    BY <1>1 DEF Hanging!Request, Hanging!disk, Hanging!rows
  <2>2. /\ op'[a].at \in {"lease", "none"} /\ op'[a].f <= 1 /\ op'[a].age = 0
        /\ \A b \in Requests \ {a} : op'[b] = op[b]
    <3>1. CASE Hanging!RunningJob(kind)
      <4> DEFINE next == [Hanging!NoOp EXCEPT !.kind = "joined", !.asked = kind, !.joined = job]
      <4>1. op' = [op EXCEPT ![a] = next]
        BY <1>1, <3>1 DEF Hanging!Request
      <4>2. next.at = "none" /\ next.f = 0 /\ next.age = 0
        BY HangingNoOp, HangingIdle DEF BackupTask
      <4> HIDE DEF next
      <4> QED
        BY <1>0, <4>1, <4>2
    <3>2. CASE ~Hanging!RunningJob(kind)
      <4> DEFINE next == [Hanging!NoOp EXCEPT !.kind = kind, !.at = "lease", !.f = f, !.asked = kind]
      <4>1. op' = [op EXCEPT ![a] = next]
        BY <1>1, <3>2 DEF Hanging!Request
      <4>2. next.at = "lease" /\ next.f = f /\ next.age = 0
        BY HangingNoOp, HangingIdle DEF BackupTask
      <4>3. f <= 1
        BY <1>1
      <4> HIDE DEF next
      <4> QED
        BY <1>0, <4>1, <4>2, <4>3
    <3> QED
      BY <3>1, <3>2
  <2>4. OpsKept(1) /\ Refers
    BY <1>0, <2>1, <2>2 DEF OpsKept, Refers, FilesHold
  <2>5. OthersKept /\ FilesFewer
    BY <2>1 DEF OthersKept, TempsKept, FilesFewer, FilesHold
  <2> QED
    BY <1>k, <2>4, <2>5
<1>2. CASE Hanging!Crash
  <2>1. /\ UNCHANGED <<made, recorded, gone, files, records, expired, removed, lease, temps, stale>>
        /\ mu' = None /\ restored' = {} /\ deaths' = deaths + 1
        /\ op' = [a \in Requests |-> IF op[a].kind = "scheduled" THEN op[a] ELSE Hanging!NoOp]
    BY <1>2 DEF Hanging!Crash, Hanging!disk, Hanging!rows
  <2>2. OpsKept(1)
    BY <1>0, <2>1, HangingIdle DEF OpsKept, FilesHold
  <2>3. OthersKept /\ FilesFewer
    BY <2>1 DEF OthersKept, TempsKept, FilesFewer, FilesHold
  <2> QED
    BY <1>0, <1>2, <2>1, <2>2, <2>3, FilesKept
<1>3. CASE Hanging!Tick
  <2> DEFINE older(t) == [t EXCEPT !.age = t.age + 1]
  <2>1. ASSUME NEW t \in BackupTask
        PROVE  /\ older(t).kind = t.kind /\ older(t).at = t.at /\ older(t).f = t.f
               /\ older(t).age = t.age + 1
    BY DEF BackupTask
  <2>2. op' = [a \in Requests |-> IF Hanging!Live(a) /\ op[a].age < Lease THEN older(op[a]) ELSE op[a]]
    BY <1>3 DEF Hanging!Tick
  <2> HIDE DEF older
  <2>3. \A a \in Requests : op[a] \in BackupTask /\ op[a].age \in Nat
    BY <1>0 DEF BackupTask
  <2>4. OpsKept(1) /\ Refers
    BY <1>0, <2>1, <2>2, <2>3 DEF OpsKept, Refers, FilesHold
  <2>5. lease'.age <= Lease
    BY <1>0, <1>3 DEF Hanging!Tick, FilesHold, BackupTypes
  <2>6. UNCHANGED <<made, recorded, gone, files, records, expired, removed, temps, stale, mu,
                    restored>>
    BY <1>3 DEF Hanging!Tick, Hanging!disk, Hanging!rows
  <2>7. OthersKept /\ FilesFewer
    BY <2>5, <2>6 DEF OthersKept, TempsKept, FilesFewer, FilesHold
  <2> QED
    BY <1>k, <2>4, <2>7
<1>4. ASSUME NEW f \in Hanging!Files, Hanging!BackupExpires(f) PROVE FilesHold(1)'
  <2>1. /\ UNCHANGED <<made, recorded, gone, files, records, removed, temps, stale, mu, lease,
                       restored, op>> /\ expired' = expired \cup {f} /\ f \in records
    BY <1>4 DEF Hanging!BackupExpires, Hanging!rows
  <2>2. OpsKept(1) /\ Refers
    BY <2>1 DEF OpsKept, Refers, FilesHold
  <2>3. OthersKept /\ FilesFewer
    BY <2>1 DEF OthersKept, TempsKept, FilesFewer, FilesHold
  <2> QED
    BY <1>k, <2>2, <2>3
<1> QED
  BY <1>1, <1>2, <1>3, <1>4, HangingFiles DEF Hanging!Next

(* Failing steps and crashes are counted; a file is removed by a deletion  *)
(* that was asked for it or because it expired.                            *)
LEMMA BackedCounts ==
  ASSUME Backed!Next
  PROVE  /\ \/ UNCHANGED <<errors, deaths>>
            \/ Backed!Fail /\ deaths' = deaths
            \/ Backed!Crash /\ errors' = errors /\ deaths' = deaths + 1 /\ deaths < Crashes
         /\ \A f \in removed' \ removed :
              f \in expired \/ \E a \in Requests : op[a].kind = "delete" /\ op[a].f = f
<1> DEFINE Count == UNCHANGED <<errors, deaths>> \/ (Backed!Fail /\ deaths' = deaths)
<1>1. ASSUME NEW a \in Requests, NEW kind, NEW f, Backed!Request(a, kind, f)
      PROVE  Count /\ removed' = removed
  BY <1>1 DEF Backed!Request, Backed!disk
<1>2. CASE Backed!Crash
  BY <1>2 DEF Backed!Crash, Backed!disk
<1>3. CASE Backed!Tick
  BY <1>3 DEF Backed!Tick, Backed!disk
<1>4. ASSUME NEW f, Backed!BackupExpires(f) PROVE Count /\ removed' = removed
  BY <1>4 DEF Backed!BackupExpires
<1>5. ASSUME NEW a \in Requests, Backed!LeaseRefused(a) PROVE Count /\ removed' = removed
  BY <1>5 DEF Backed!LeaseRefused, Backed!disk
<1>6. ASSUME NEW a \in Requests, Backed!RunBackupReturns(a) PROVE Count /\ removed' = removed
  BY <1>6 DEF Backed!RunBackupReturns, Backed!disk
<1>7. ASSUME NEW a \in Requests, Backed!RestoreBackup(a) PROVE Count /\ removed' = removed
  BY <1>7 DEF Backed!RestoreBackup, Backed!disk
<1>8. ASSUME NEW a \in Requests, Backed!BackupNotFound(a) PROVE Count /\ removed' = removed
  BY <1>8 DEF Backed!BackupNotFound, Backed!disk
<1>9. ASSUME NEW a \in Requests, Backed!SaveBackupSchedule(a) PROVE Count /\ removed' = removed
  BY <1>9 DEF Backed!SaveBackupSchedule, Backed!disk
<1>10. ASSUME NEW a \in Requests, Backed!SaveFails(a) PROVE Count /\ removed' = removed
  BY <1>10 DEF Backed!SaveFails, Backed!disk
<1>11. ASSUME NEW a \in Requests, Backed!StepFails(a) PROVE Count /\ removed' = removed
  BY <1>11 DEF Backed!StepFails, Backed!disk
<1>12. ASSUME NEW a \in Requests, Backed!RecordStatus(a) PROVE Count /\ removed' = removed
  BY <1>12 DEF Backed!RecordStatus, Backed!disk
<1>13. ASSUME NEW a \in Requests, Backed!Lock(a) PROVE Count /\ removed' = removed
  BY <1>13 DEF Backed!Lock, Backed!disk
<1>14. ASSUME NEW a \in Requests, Backed!Install(a) PROVE Count /\ removed' = removed
  BY <1>14 DEF Backed!Install, Backed!disk
<1>15. ASSUME NEW a \in Requests, Backed!AcquireBackupLease(a) PROVE Count /\ removed' = removed
  BY <1>15 DEF Backed!AcquireBackupLease, Backed!disk
<1>16. ASSUME NEW a \in Requests, Backed!CreateTemp(a) PROVE Count /\ removed' = removed
  BY <1>16 DEF Backed!CreateTemp
<1>17. ASSUME NEW a \in Requests, Backed!CreateBackup(a) PROVE Count /\ removed' = removed
  BY <1>17 DEF Backed!CreateBackup, Backed!disk
<1>18. ASSUME NEW a \in Requests, Backed!ReadSchedule(a) PROVE Count /\ removed' = removed
  BY <1>18 DEF Backed!ReadSchedule, Backed!disk
<1>19. ASSUME NEW a \in Requests, Backed!CommitBackupFile(a) PROVE Count /\ removed' = removed
  BY <1>19 DEF Backed!CommitBackupFile
<1>20. ASSUME NEW a \in Requests, Backed!BackupFails(a) PROVE Count /\ removed' = removed
  BY <1>20 DEF Backed!BackupFails
<1>21. ASSUME NEW a \in Requests, Backed!TempAges(a) PROVE Count /\ removed' = removed
  BY <1>21 DEF Backed!TempAges
<1>22. ASSUME NEW a \in Requests, Backed!TimerFires(a) PROVE Count /\ removed' = removed
  BY <1>22 DEF Backed!TimerFires, Backed!disk
<1>23. ASSUME NEW a \in Requests, Backed!DisableUnits(a) PROVE Count /\ removed' = removed
  BY <1>23 DEF Backed!DisableUnits, Backed!disk
<1>24. ASSUME NEW a \in Requests, Backed!DeleteService(a) PROVE Count /\ removed' = removed
  BY <1>24 DEF Backed!DeleteService, Backed!disk
<1>25. ASSUME NEW a \in Requests, Backed!ApplyRetention(a)
      PROVE  Count /\ \A f \in removed' \ removed : f \in expired
  BY <1>25 DEF Backed!ApplyRetention, Backed!RemoveFileThenRecord, Backed!ExpiredBackups
<1>26. ASSUME NEW a \in Requests, Backed!DeleteBackup(a)
      PROVE  Count /\ \A f \in removed' \ removed : op[a].kind = "delete" /\ op[a].f = f
  BY <1>26 DEF Backed!DeleteBackup, Backed!RemoveFileThenRecord, Backed!At
<1> QED
  BY <1>1, <1>2, <1>3, <1>4, <1>5, <1>6, <1>7, <1>8, <1>9, <1>10, <1>11, <1>12, <1>13, <1>14,
     <1>15, <1>16, <1>17, <1>18, <1>19, <1>20, <1>21, <1>22, <1>23, <1>24, <1>25, <1>26 DEF
     Backed!Next

LEMMA BackedTyped ==
  ASSUME Constants, BackupTypes, FilesHold(2), errors \in 0..Failures, deaths \in 0..Crashes
  PROVE  Backed!TypeOK
<1>0. Lease \in Nat /\ lease.age \in Nat
  BY DEF Constants, Backed!CapBelowLease, BackupTypes
<1>1. ASSUME NEW a \in Requests
      PROVE  /\ op[a].kind \in Backed!Web \cup {"idle", "scheduled", "joined"}
             /\ op[a].age \in 0..Lease /\ op[a].f \in 0..2
             /\ op[a].enabled \in BOOLEAN /\ op[a].joined \in Requests \cup {None}
  <2>1. op[a] \in BackupTask /\ op[a].age <= Lease /\ op[a].f <= 2
    BY DEF BackupTypes, FilesHold
  <2>2. /\ op[a].kind \in BackupKinds /\ op[a].age \in Nat /\ op[a].f \in Nat
        /\ op[a].enabled \in BOOLEAN /\ op[a].joined \in Requests \cup {None}
    BY <2>1 DEF BackupTask
  <2> QED
    BY <1>0, <2>1, <2>2 DEF BackupKinds, Backed!Web
<1>2. lease \in [by : Requests \cup {None}, age : 0..Lease]
  BY <1>0 DEF BackupTypes, FilesHold
<1>3. /\ files \subseteq Backed!Files /\ records \subseteq Backed!Files /\ expired \subseteq Backed!Files
      /\ recorded \subseteq Backed!Files /\ removed \subseteq Backed!Files /\ made \in 0..2
      /\ temps \subseteq Requests /\ stale \subseteq temps /\ restored \subseteq Requests
      /\ mu \in Requests \cup {None}
  BY DEF FilesHold, Backed!Files
<1>4. /\ row \in [saved : BOOLEAN, enabled : BOOLEAN, status : {"none", "ok", "failed"}]
      /\ timer \in BOOLEAN /\ gone \in BOOLEAN /\ job \in Requests \cup {None}
  BY DEF BackupTypes
<1> QED
  BY <1>1, <1>2, <1>3, <1>4 DEF Backed!TypeOK

(* Failing steps and crashes are counted; a file is removed by a deletion  *)
(* that was asked for it or because it expired.                            *)
LEMMA HangingCounts ==
  ASSUME Hanging!Next
  PROVE  /\ \/ UNCHANGED <<errors, deaths>>
            \/ Hanging!Fail /\ deaths' = deaths
            \/ Hanging!Crash /\ errors' = errors /\ deaths' = deaths + 1 /\ deaths < 0
         /\ \A f \in removed' \ removed :
              f \in expired \/ \E a \in Requests : op[a].kind = "delete" /\ op[a].f = f
<1> DEFINE Count == UNCHANGED <<errors, deaths>> \/ (Hanging!Fail /\ deaths' = deaths)
<1>1. ASSUME NEW a \in Requests, NEW kind, NEW f, Hanging!Request(a, kind, f)
      PROVE  Count /\ removed' = removed
  BY <1>1 DEF Hanging!Request, Hanging!disk
<1>2. CASE Hanging!Crash
  BY <1>2 DEF Hanging!Crash, Hanging!disk
<1>3. CASE Hanging!Tick
  BY <1>3 DEF Hanging!Tick, Hanging!disk
<1>4. ASSUME NEW f, Hanging!BackupExpires(f) PROVE Count /\ removed' = removed
  BY <1>4 DEF Hanging!BackupExpires
<1>5. ASSUME NEW a \in Requests, Hanging!LeaseRefused(a) PROVE Count /\ removed' = removed
  BY <1>5 DEF Hanging!LeaseRefused, Hanging!disk
<1>6. ASSUME NEW a \in Requests, Hanging!RunBackupReturns(a) PROVE Count /\ removed' = removed
  BY <1>6 DEF Hanging!RunBackupReturns, Hanging!disk
<1>7. ASSUME NEW a \in Requests, Hanging!RestoreBackup(a) PROVE Count /\ removed' = removed
  BY <1>7 DEF Hanging!RestoreBackup, Hanging!disk
<1>8. ASSUME NEW a \in Requests, Hanging!BackupNotFound(a) PROVE Count /\ removed' = removed
  BY <1>8 DEF Hanging!BackupNotFound, Hanging!disk
<1>9. ASSUME NEW a \in Requests, Hanging!SaveBackupSchedule(a) PROVE Count /\ removed' = removed
  BY <1>9 DEF Hanging!SaveBackupSchedule, Hanging!disk
<1>10. ASSUME NEW a \in Requests, Hanging!SaveFails(a) PROVE Count /\ removed' = removed
  BY <1>10 DEF Hanging!SaveFails, Hanging!disk
<1>11. ASSUME NEW a \in Requests, Hanging!StepFails(a) PROVE Count /\ removed' = removed
  BY <1>11 DEF Hanging!StepFails, Hanging!disk
<1>12. ASSUME NEW a \in Requests, Hanging!RecordStatus(a) PROVE Count /\ removed' = removed
  BY <1>12 DEF Hanging!RecordStatus, Hanging!disk
<1>13. ASSUME NEW a \in Requests, Hanging!Lock(a) PROVE Count /\ removed' = removed
  BY <1>13 DEF Hanging!Lock, Hanging!disk
<1>14. ASSUME NEW a \in Requests, Hanging!Install(a) PROVE Count /\ removed' = removed
  BY <1>14 DEF Hanging!Install, Hanging!disk
<1>15. ASSUME NEW a \in Requests, Hanging!AcquireBackupLease(a) PROVE Count /\ removed' = removed
  BY <1>15 DEF Hanging!AcquireBackupLease, Hanging!disk
<1>16. ASSUME NEW a \in Requests, Hanging!CreateTemp(a) PROVE Count /\ removed' = removed
  BY <1>16 DEF Hanging!CreateTemp
<1>17. ASSUME NEW a \in Requests, Hanging!CreateBackup(a) PROVE Count /\ removed' = removed
  BY <1>17 DEF Hanging!CreateBackup, Hanging!disk
<1>18. ASSUME NEW a \in Requests, Hanging!ReadSchedule(a) PROVE Count /\ removed' = removed
  BY <1>18 DEF Hanging!ReadSchedule, Hanging!disk
<1>19. ASSUME NEW a \in Requests, Hanging!CommitBackupFile(a) PROVE Count /\ removed' = removed
  BY <1>19 DEF Hanging!CommitBackupFile
<1>20. ASSUME NEW a \in Requests, Hanging!BackupFails(a) PROVE Count /\ removed' = removed
  BY <1>20 DEF Hanging!BackupFails
<1>21. ASSUME NEW a \in Requests, Hanging!TempAges(a) PROVE Count /\ removed' = removed
  BY <1>21 DEF Hanging!TempAges
<1>22. ASSUME NEW a \in Requests, Hanging!TimerFires(a) PROVE Count /\ removed' = removed
  BY <1>22 DEF Hanging!TimerFires, Hanging!disk
<1>23. ASSUME NEW a \in Requests, Hanging!DisableUnits(a) PROVE Count /\ removed' = removed
  BY <1>23 DEF Hanging!DisableUnits, Hanging!disk
<1>24. ASSUME NEW a \in Requests, Hanging!DeleteService(a) PROVE Count /\ removed' = removed
  BY <1>24 DEF Hanging!DeleteService, Hanging!disk
<1>25. ASSUME NEW a \in Requests, Hanging!ApplyRetention(a)
      PROVE  Count /\ \A f \in removed' \ removed : f \in expired
  BY <1>25 DEF Hanging!ApplyRetention, Hanging!RemoveFileThenRecord, Hanging!ExpiredBackups
<1>26. ASSUME NEW a \in Requests, Hanging!DeleteBackup(a)
      PROVE  Count /\ \A f \in removed' \ removed : op[a].kind = "delete" /\ op[a].f = f
  BY <1>26 DEF Hanging!DeleteBackup, Hanging!RemoveFileThenRecord, Hanging!At
<1> QED
  BY <1>1, <1>2, <1>3, <1>4, <1>5, <1>6, <1>7, <1>8, <1>9, <1>10, <1>11, <1>12, <1>13, <1>14,
     <1>15, <1>16, <1>17, <1>18, <1>19, <1>20, <1>21, <1>22, <1>23, <1>24, <1>25, <1>26 DEF
     Hanging!Next

LEMMA HangingTyped ==
  ASSUME Constants, BackupTypes, FilesHold(1), errors \in 0..0, deaths \in 0..0
  PROVE  Hanging!TypeOK
<1>0. Lease \in Nat /\ lease.age \in Nat
  BY DEF Constants, Backed!CapBelowLease, BackupTypes
<1>1. ASSUME NEW a \in Requests
      PROVE  /\ op[a].kind \in Hanging!Web \cup {"idle", "scheduled", "joined"}
             /\ op[a].age \in 0..Lease /\ op[a].f \in 0..1
             /\ op[a].enabled \in BOOLEAN /\ op[a].joined \in Requests \cup {None}
  <2>1. op[a] \in BackupTask /\ op[a].age <= Lease /\ op[a].f <= 1
    BY DEF BackupTypes, FilesHold
  <2>2. /\ op[a].kind \in BackupKinds /\ op[a].age \in Nat /\ op[a].f \in Nat
        /\ op[a].enabled \in BOOLEAN /\ op[a].joined \in Requests \cup {None}
    BY <2>1 DEF BackupTask
  <2> QED
    BY <1>0, <2>1, <2>2 DEF BackupKinds, Hanging!Web
<1>2. lease \in [by : Requests \cup {None}, age : 0..Lease]
  BY <1>0 DEF BackupTypes, FilesHold
<1>3. /\ files \subseteq Hanging!Files /\ records \subseteq Hanging!Files /\ expired \subseteq Hanging!Files
      /\ recorded \subseteq Hanging!Files /\ removed \subseteq Hanging!Files /\ made \in 0..1
      /\ temps \subseteq Requests /\ stale \subseteq temps /\ restored \subseteq Requests
      /\ mu \in Requests \cup {None}
  BY DEF FilesHold, Hanging!Files
<1>4. /\ row \in [saved : BOOLEAN, enabled : BOOLEAN, status : {"none", "ok", "failed"}]
      /\ timer \in BOOLEAN /\ gone \in BOOLEAN /\ job \in Requests \cup {None}
  BY DEF BackupTypes
<1> QED
  BY <1>1, <1>2, <1>3, <1>4 DEF Hanging!TypeOK

LEMMA FilesInit ==
  ASSUME Constants, Backed!Init PROVE FilesHold(1) /\ FilesHold(2) /\ Referred /\ errors = 0 /\ deaths = 0
<1>1. Lease \in Nat
  BY DEF Constants, Backed!CapBelowLease
<1>2. op = [a \in Requests |-> Backed!NoOp] /\ lease = [by |-> None, age |-> 0]
  BY DEF Backed!Init
<1>3. \A a \in Requests : op[a].at = "none" /\ op[a].age = 0 /\ op[a].f = 0
  BY <1>2, BackedIdle
<1>4. lease.age = 0
  BY <1>2
<1>5. /\ mu = None /\ temps = {} /\ stale = {} /\ files = {} /\ made = 0 /\ expired = {}
      /\ removed = {} /\ records = {} /\ recorded = {} /\ restored = {}
      /\ errors = 0 /\ deaths = 0
  BY DEF Backed!Init
<1> QED
  BY <1>1, <1>3, <1>4, <1>5 DEF FilesHold, Referred

LEMMA CredentialsShaped ==
  ASSUME up \in BOOLEAN, lock \in Requests \cup {None}, Credentials!Next \/ Drifting!Next
  PROVE  up' \in BOOLEAN /\ lock' \in Requests \cup {None}
<1> DEFINE Shaped == up' \in BOOLEAN /\ lock' \in Requests \cup {None}
<1>1. ASSUME NEW p \in Requests, NEW u, NEW w,
             Credentials!updatePostgresCredentials(p, u, w)
             \/ Drifting!updatePostgresCredentials(p, u, w)
      PROVE  Shaped
  BY <1>1 DEF Credentials!updatePostgresCredentials, Drifting!updatePostgresCredentials
<1>2. ASSUME NEW p \in Requests, Credentials!Step(p) PROVE Shaped
  BY <1>2 DEF Credentials!Step, Credentials!Rename, Credentials!Alter, Credentials!WriteScoped,
       Credentials!syncPostgresCredentialsMirror, Credentials!rollbackPostgresRole,
       Credentials!startManagedService, Credentials!Verify, Credentials!Ends
<1>3. ASSUME NEW p \in Requests, Drifting!Step(p) PROVE Shaped
  BY <1>3 DEF Drifting!Step, Drifting!Rename, Drifting!Alter, Drifting!WriteScoped,
       Drifting!syncPostgresCredentialsMirror, Drifting!rollbackPostgresRole,
       Drifting!startManagedService, Drifting!Verify, Drifting!Ends
<1>4. ASSUME NEW p \in Requests,
             Credentials!StartService(p) \/ Credentials!StopService(p) \/ Credentials!Cancel(p)
             \/ Drifting!StartService(p) \/ Drifting!StopService(p) \/ Drifting!Cancel(p)
      PROVE  Shaped
  BY <1>4 DEF Credentials!StartService, Credentials!StopService, Credentials!Cancel,
       Credentials!Operation, Drifting!StartService, Drifting!StopService, Drifting!Cancel,
       Drifting!Operation
<1>5. ASSUME NEW u, Credentials!Edit(u) \/ Drifting!Edit(u) PROVE Shaped
  BY <1>5 DEF Credentials!Edit, Drifting!Edit
<1>6. CASE Credentials!Crash \/ Drifting!Crash
  BY <1>6 DEF Credentials!Crash, Drifting!Crash
<1> QED
  BY <1>1, <1>2, <1>3, <1>4, <1>5, <1>6 DEF Credentials!Next, Drifting!Next

LEMMA CredentialsTyped ==
  ASSUME CredentialsInv, up \in BOOLEAN, lock \in Requests \cup {None}
  PROVE  Credentials!TypeOK /\ Drifting!TypeOK
<1>1. {role, scoped, mirror, container} \subseteq Pairs /\ role.user = meta
  BY DEF CredentialsInv, RotationInv, RotationTypes, RotationHolds
<1>2. meta \in Users
  BY <1>1 DEF Pairs
<1> QED
  BY <1>1, <1>2 DEF Pairs, Credentials!TypeOK, Drifting!TypeOK, Credentials!Credentials,
                    Drifting!Credentials

---------------------------------------------------------------------------
(* What exists is recorded and what is recorded exists.                    *)

RecordsInv ==
  /\ ManagedInv
  /\ which = "backed" =>
       /\ FilesHold(2) /\ errors \in 0..Failures /\ deaths \in 0..Crashes
       /\ deaths = 0 => Referred
  /\ which = "hanging" => FilesHold(1) /\ errors = 0 /\ deaths = 0
  /\ RecordsNotLost
  /\ up \in BOOLEAN /\ lock \in Requests \cup {None}
  /\ which \in {"leases", "cluster", "failing", "backed", "hanging", "credentials", "drifting"}
Retains ==
  \A f \in removed' \ removed :
    f \in expired \/ \E a \in Requests : op[a].kind = "delete" /\ op[a].f = f

LEMMA RecordsInit == ASSUME Constants, Init PROVE RecordsInv
<1>1. Backed!Init /\ up = TRUE /\ lock = None
  BY DEF Init, Credentials!Init
<1>2. 0 \in 0..Failures /\ 0 \in 0..Crashes
  BY DEF Constants
<1>3. RecordsNotLost
  BY <1>1, FilesInit DEF FilesHold, RecordsNotLost, Backed!RecordsNotLost
<1> QED
  BY <1>1, <1>2, <1>3, FilesInit, ManagedInvInit DEF RecordsInv, Init

LEMMA RecordsStep ==
  ASSUME Constants, OneDefault, DatabasesInv, RecordsInv, [Next]_vars
  PROVE  RecordsInv' /\ [Forgets]_(Cluster!vars) /\ [Retains]_(Backed!vars)
<1>k. FilesHold(1)' \/ FilesHold(2)' => RecordsNotLost'
  BY DEF FilesHold, RecordsNotLost, Backed!RecordsNotLost
<1>n. UNCHANGED <<files, records, recorded, gone>> => RecordsNotLost'
  BY DEF RecordsInv, RecordsNotLost, Backed!RecordsNotLost
<1>1. CASE /\ \/ which = "leases" /\ Leases!Next
              \/ which = "cluster" /\ Cluster!Next
              \/ which = "failing" /\ Failing!Next
           /\ UNCHANGED <<which, backup, credential>>
  <2>1. ManagedInv' /\ Forgets
    BY <1>1, ManagedInvStep DEF RecordsInv
  <2>2. UNCHANGED <<errors, deaths, up, lock, Backed!vars>>
    BY <1>1 DEF backup, credential, Backed!vars, Backed!disk, Backed!rows
  <2>3. which' # "backed" /\ which' # "hanging"
    BY <1>1
  <2>4. RecordsNotLost'
    BY <1>1, <1>n DEF backup
  <2> QED
    BY <1>1, <2>1, <2>2, <2>3, <2>4 DEF RecordsInv
<1>2. CASE /\ \/ which = "backed" /\ Backed!Next
              \/ which = "hanging" /\ Hanging!Next
           /\ UNCHANGED <<which, managed, credential>>
  <2>1. UNCHANGED <<up, lock, Cluster!vars>>
    BY <1>2 DEF managed, credential, Cluster!vars, Cluster!cluster, Cluster!postgres,
                Cluster!sqlite, Cluster!backupState
  <2>2. ManagedInv'
    BY <1>2 DEF ManagedInv
  <2>3. CASE which = "backed" /\ Backed!Next
    <3>1. /\ FilesHold(2) /\ errors \in 0..Failures /\ deaths \in 0..Crashes
          /\ (deaths = 0 => Referred) /\ BackedInv
      BY <2>3 DEF RecordsInv, DatabasesInv, BackedInv
    <3>2. /\ \/ UNCHANGED <<errors, deaths>>
             \/ Backed!Fail /\ deaths' = deaths
             \/ Backed!Crash /\ errors' = errors /\ deaths' = deaths + 1 /\ deaths < Crashes
          /\ Retains
      BY <2>3, BackedCounts DEF Retains
    <3>3. FilesHold(2)' /\ (Backed!Crash \/ (Referred => Referred'))
      BY <2>3, <3>1, BackedFilesNext
    <3>4. errors' \in 0..Failures /\ deaths' \in 0..Crashes /\ (deaths' = 0 => deaths = 0)
      BY <3>1, <3>2, Constants DEF Constants, Backed!Fail
    <3>5. deaths' = 0 => ~Backed!Crash
      BY <3>1 DEF Backed!Crash
    <3>6. deaths' = 0 => Referred'
      BY <3>1, <3>3, <3>4, <3>5
    <3> QED
      BY <1>2, <1>k, <2>1, <2>2, <2>3, <3>2, <3>3, <3>4, <3>6 DEF RecordsInv
  <2>4. CASE which = "hanging" /\ Hanging!Next
    <3>1. FilesHold(1) /\ errors = 0 /\ deaths = 0 /\ HangingInv
      BY <2>4 DEF RecordsInv, DatabasesInv, HangingInv
    <3>2. /\ \/ UNCHANGED <<errors, deaths>>
             \/ Hanging!Fail /\ deaths' = deaths
             \/ Hanging!Crash /\ errors' = errors /\ deaths' = deaths + 1 /\ deaths < 0
          /\ Retains
      BY <2>4, HangingCounts DEF Retains
    <3>3. FilesHold(1)'
      BY <2>4, <3>1, HangingFilesNext
    <3>4. errors' = 0 /\ deaths' = 0
      BY <3>1, <3>2 DEF Hanging!Fail
    <3> QED
      BY <1>2, <1>k, <2>1, <2>2, <2>4, <3>2, <3>3, <3>4 DEF RecordsInv
  <2> QED
    BY <1>2, <2>3, <2>4
<1>3. CASE /\ \/ which = "credentials" /\ Credentials!Next
              \/ which = "drifting" /\ Drifting!Next
           /\ UNCHANGED <<which, managed, backup>>
  <2>1. UNCHANGED <<Cluster!vars, Backed!vars>>
    BY <1>3 DEF managed, backup, Cluster!vars, Cluster!cluster, Cluster!postgres,
                Cluster!sqlite, Cluster!backupState, Backed!vars, Backed!disk, Backed!rows
  <2>2. ManagedInv'
    BY <1>3 DEF ManagedInv
  <2>3. up' \in BOOLEAN /\ lock' \in Requests \cup {None}
    BY <1>3, CredentialsShaped DEF RecordsInv
  <2>4. which' # "backed" /\ which' # "hanging"
    BY <1>3
  <2>5. RecordsNotLost'
    BY <1>3, <1>n DEF backup
  <2> QED
    BY <1>3, <2>1, <2>2, <2>3, <2>4, <2>5 DEF RecordsInv
<1>4. CASE UNCHANGED vars
  <2>1. UNCHANGED <<which, managed, backup, credential, Cluster!vars, Backed!vars>>
    BY <1>4 DEF vars, managed, backup, Cluster!vars, Cluster!cluster, Cluster!postgres,
                Cluster!sqlite, Cluster!backupState, Backed!vars, Backed!disk, Backed!rows
  <2>2. ManagedInv'
    <3>1. Managed(Requests)' = Managed(Requests) /\ Managed({r})' = Managed({r})
      BY <2>1 DEF managed, Managed, ManagedTypes, RequestTypes, LoginKept, Locked, InLock, Known,
                  RoomFor, Named, NotDefault, Started, Gone, LeaseNamed
    <3>2. ClusterHolds => ClusterHolds'
      BY <2>1, ClusterRests
      DEF managed, Failing!cluster, Failing!postgres, Failing!sqlite
    <3>3. FailingHolds => FailingHolds'
      BY <2>1, FailingRests DEF managed
    <3> QED
      BY <2>1, <3>1, <3>2, <3>3 DEF RecordsInv, ManagedInv, managed
  <2>3. UNCHANGED <<made, files, records, recorded, expired, removed, temps, stale, restored, mu,
                    lease, op, gone, errors, deaths, up, lock>>
    BY <2>1 DEF backup, credential
  <2>4. FilesHold(1)' = FilesHold(1) /\ FilesHold(2)' = FilesHold(2) /\ Referred' = Referred
    BY <2>3 DEF FilesHold, Referred
  <2> QED
    BY <1>n, <2>1, <2>2, <2>3, <2>4 DEF RecordsInv
<1> QED
  BY <1>1, <1>2, <1>3, <1>4 DEF Next

LEMMA RecordsTyped == ASSUME Constants, DatabasesInv, RecordsInv PROVE TypeOK
<1>1. /\ which = "leases" => Leases!TypeOK
      /\ which = "cluster" => Cluster!TypeOK
      /\ which = "failing" => Failing!TypeOK
  BY ManagedTyped DEF RecordsInv
<1>2. which = "backed" => Backed!TypeOK
  BY BackedTyped DEF RecordsInv, DatabasesInv
<1>3. which = "hanging" => Hanging!TypeOK
  <2>1. 0 \in 0..0
    OBVIOUS
  <2> QED
    BY <2>1, HangingTyped DEF RecordsInv, DatabasesInv
<1>4. Credentials!TypeOK /\ Drifting!TypeOK
  BY CredentialsTyped DEF RecordsInv, DatabasesInv
<1>5. which \in {"leases", "cluster", "failing", "backed", "hanging", "credentials", "drifting"}
  BY DEF RecordsInv
<1> QED
  BY <1>1, <1>2, <1>3, <1>4, <1>5 DEF TypeOK

(* With one default user: between requests what SQLite lists of databases, *)
(* users and grants PostgreSQL has; a database without a row is the one a  *)
(* creation is at work on; a database is forgotten only when PostgreSQL    *)
(* has it no more; an existing backup keeps its record, a dump without one *)
(* belongs to a run at work unless the manager died; and only what expired *)
(* or was asked for is removed.                                            *)
THEOREM RecordsTellTheTruth == ASSUME OneDefault PROVE Spec => RecordsMatch
<1> DEFINE Forget == \A d \in Names : rows[d] # 0 /\ rows'[d] = 0 => live[d] = None
    Retain == \A f \in removed' \ removed :
                f \in expired \/ \E a \in Requests : op[a].kind = "delete" /\ op[a].f = f
<1>1. ASSUME DatabasesInv, RecordsInv
      PROVE  TypeOK /\ RecordsAreLive /\ DatabasesRecorded /\ RecordsNotLost /\ DumpsRecorded
  <2>1. TypeOK /\ RecordsAreLive /\ DatabasesRecorded
    BY <1>1, Constants, RecordsTyped, ManagedRecords DEF RecordsInv
  <2>2. RecordsNotLost
    BY <1>1 DEF RecordsInv
  <2>3. DumpsRecorded
    BY <1>1 DEF RecordsInv, DumpsRecorded, Backed!NothingUnrecorded, Referred
  <2> QED
    BY <2>1, <2>2, <2>3
<1>2. ASSUME DatabasesInv, RecordsInv, [Next]_vars
      PROVE  RecordsInv' /\ [Forget]_(Cluster!vars) /\ [Retain]_(Backed!vars)
  BY <1>2, Constants, RecordsStep DEF Forgets, Retains
<1>3. Init => RecordsInv
  BY Constants, RecordsInit
<1> HIDE DEF Forget, Retain
<1>4. Spec => [](DatabasesInv /\ RecordsInv) /\ [][Forget]_(Cluster!vars) /\ [][Retain]_(Backed!vars)
  BY <1>2, <1>3, DatabasesAlways, PTL DEF Spec
<1>5. Spec => [](TypeOK /\ RecordsAreLive /\ DatabasesRecorded /\ RecordsNotLost /\ DumpsRecorded)
  BY <1>1, <1>4, PTL
<1> QED
  BY <1>4, <1>5 DEF RecordsMatch, ForgottenIsGone, OnlyExpiredRemoved, Cluster!ForgottenIsGone,
     Backed!OnlyExpiredRemoved, Forget, Retain
=============================================================================
