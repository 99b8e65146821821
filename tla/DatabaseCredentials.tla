------------------------- MODULE DatabaseCredentials --------------------------
(***************************************************************************)
(* The user and password of a PostgreSQL service of an application:        *)
(* internal/service/postgres_credentials.go with the starts and restarts   *)
(* that check for drift.                                                   *)
(*                                                                         *)
(* role is the live database role.  scoped holds the service's own         *)
(* environment files, mirror the application's, which follow when the      *)
(* application has one PostgreSQL service.  meta is the user in SQLite.    *)
(* env is the environment the container was created with, which statements *)
(* use to log in.                                                          *)
(*                                                                         *)
(* A statement logs in as the user of env, and PostgreSQL refuses to       *)
(* rename the user of the session.  The role is never renamed, then, and   *)
(* what the code does after a rename is not reached.                       *)
(***************************************************************************)
EXTENDS Integers

CONSTANTS
  Procs,
  Users, Passwords,     \* what forms and files may hold
  First,                \* the credentials the service was created with
  Asked,                \* users a rotation may ask for
  Mirror,               \* whether the application's files follow
  MaxOps, MaxEdits, MaxFaults, MaxCrashes,
  Late,                 \* whether a cancelled statement may have been carried out
  None

Credentials == [user : Users, password : Passwords]

VARIABLES
  role, scoped, mirror, meta, env, up,
  lock, proc,
  refused,              \* a rotation failed though nothing else had
  ops, edits, faults, crashes
files == <<scoped, mirror, meta>>
counts == <<ops, edits, crashes>>
vars == <<role, files, env, up, lock, proc, refused, faults, counts>>

Idle == [pc |-> "idle", new |-> First, old |-> First, oldMirror |-> First, cancelled |-> FALSE]

Init ==
  /\ First \in Credentials
  /\ role = First /\ scoped = First /\ mirror = First /\ env = First
  /\ meta = First.user /\ up = TRUE
  /\ lock = None /\ proc = [p \in Procs |-> Idle]
  /\ refused = FALSE
  /\ ops = 0 /\ edits = 0 /\ faults = 0 /\ crashes = 0

Goto(p, pc) == proc' = [proc EXCEPT ![p].pc = pc]
Ends(p) == proc' = [proc EXCEPT ![p] = Idle] /\ lock' = None
Faulty == faults < MaxFaults /\ faults' = faults + 1

(* ExecPostgresSQL: a statement about a user can succeed.                  *)
Connects == up /\ env.user = role.user
Can(p, user) == Connects /\ user = role.user /\ ~proc[p].cancelled

---------------------------------------------------------------------------
(* UpdatePostgreSQLCredentials                                             *)

(* The container must run and something must change.                       *)
updatePostgresCredentials(p, user, password) ==
  /\ proc[p].pc = "idle" /\ lock = None /\ ops < MaxOps
  /\ up /\ [user |-> user, password |-> password] # scoped
  /\ lock' = p /\ ops' = ops + 1
  /\ proc' = [proc EXCEPT ![p] = [pc |-> IF user # scoped.user THEN "rename" ELSE "alter",
                                  new |-> [user |-> user, password |-> password],
                                  old |-> scoped, oldMirror |-> mirror, cancelled |-> FALSE]]
  /\ UNCHANGED <<role, files, env, up, refused, faults, edits, crashes>>

(* ALTER ROLE old RENAME TO new, as the user of the session or for a user  *)
(* the database does not have.                                             *)
Rename(p) ==
  /\ proc[p].pc = "rename"
  /\ refused' = (refused \/ (faults = 0 /\ ~proc[p].cancelled))
  /\ Ends(p)
  /\ UNCHANGED <<role, files, env, up, faults, counts>>

(* ALTER ROLE ... WITH PASSWORD                                            *)
Alter(p) ==
  /\ proc[p].pc = "alter"
  /\ \/ /\ Can(p, proc[p].new.user)
        /\ role' = [role EXCEPT !.password = proc[p].new.password]
        /\ Goto(p, "scoped")
        /\ UNCHANGED <<lock, refused, faults>>
     \/ /\ ~Can(p, proc[p].new.user)
        /\ role' \in {role} \cup (IF Late /\ proc[p].cancelled /\ Connects
                                  THEN {[role EXCEPT !.password = proc[p].new.password]} ELSE {})
        /\ refused' = (refused \/ (faults = 0 /\ ~proc[p].cancelled))
        /\ Ends(p) /\ UNCHANGED faults
     \/ Faulty /\ Ends(p) /\ UNCHANGED <<role, refused>>
  /\ UNCHANGED <<files, env, up, counts>>

(* The scoped files are written; a failure undoes the role only.           *)
WriteScoped(p) ==
  /\ proc[p].pc = "scoped"
  /\ \/ /\ scoped' = proc[p].new
        /\ Goto(p, IF Mirror THEN "mirror" ELSE "restart")
        /\ UNCHANGED faults
     \/ UNCHANGED scoped /\ Goto(p, "undo") /\ Faulty
  /\ UNCHANGED <<role, mirror, meta, env, up, lock, refused, counts>>

syncPostgresCredentialsMirror(p) ==
  /\ proc[p].pc = "mirror"
  /\ \/ mirror' = proc[p].new /\ Goto(p, "restart") /\ UNCHANGED faults
     \/ UNCHANGED mirror /\ Goto(p, "undo") /\ Faulty
  /\ UNCHANGED <<role, scoped, meta, env, up, lock, refused, counts>>

(* Only the files are restored.                                            *)
FilesOnly(p) ==
  /\ proc[p].pc = "undo"
  /\ scoped' = proc[p].old /\ mirror' = proc[p].oldMirror
  /\ Ends(p)
  /\ UNCHANGED <<role, meta, env, up, refused, faults, counts>>

(* The files and the role are put back; the outcome is ignored.            *)
rollbackPostgresRole(p) ==
  /\ proc[p].pc = "undo"
  /\ scoped' = proc[p].old /\ mirror' = proc[p].oldMirror
  /\ \/ /\ Can(p, proc[p].new.user)
        /\ role' = [role EXCEPT !.password = proc[p].old.password] /\ UNCHANGED faults
     \/ ~Can(p, proc[p].new.user) /\ UNCHANGED <<role, faults>>
     \/ Faulty /\ UNCHANGED role
  /\ Ends(p)
  /\ UNCHANGED <<meta, env, up, refused, counts>>

StartsUnchanged(p) ==
  /\ proc[p].pc = "restart"
  /\ Goto(p, "verify")
  /\ UNCHANGED <<role, files, env, up, lock, refused, faults, counts>>

(* startManagedService recreates the container, and SELECT 1 verifies it.  *)
(* Nothing is undone when either fails.                                    *)
startManagedService(p) ==
  /\ proc[p].pc = "restart"
  /\ \/ ~proc[p].cancelled /\ env' = scoped /\ Goto(p, "verify") /\ UNCHANGED <<lock, faults>>
     \/ proc[p].cancelled /\ UNCHANGED <<env, faults>> /\ Ends(p)
     \/ UNCHANGED env /\ Faulty /\ Ends(p)
  /\ UNCHANGED <<role, files, up, refused, counts>>

Verify(p) ==
  /\ proc[p].pc = "verify"
  /\ \/ Can(p, role.user) /\ UNCHANGED <<refused, faults>>
     \/ /\ ~Can(p, role.user) /\ UNCHANGED faults
        /\ refused' = (refused \/ (faults = 0 /\ ~proc[p].cancelled))
     \/ Faulty /\ UNCHANGED refused
  /\ Ends(p)
  /\ UNCHANGED <<role, files, env, up, counts>>

---------------------------------------------------------------------------
(* StartService and RestartService want the user of the files to be the    *)
(* one in SQLite; both recreate the container from the files.              *)
NoCheck == TRUE
checkPostgresCredentialsDrift == scoped.user = meta

Operation(p) ==
  /\ proc[p].pc = "idle" /\ lock = None /\ ops < MaxOps /\ ops' = ops + 1
  /\ UNCHANGED <<role, files, lock, proc, refused, faults, edits, crashes>>
StartService(p) ==
  /\ checkPostgresCredentialsDrift
  /\ env' = scoped /\ up' = TRUE
  /\ Operation(p)
StopService(p) ==
  /\ up /\ up' = FALSE /\ UNCHANGED env
  /\ Operation(p)

(* The operator edits the user in the file while nothing runs.             *)
Edit(user) ==
  /\ edits < MaxEdits /\ lock = None /\ edits' = edits + 1
  /\ user # scoped.user
  /\ scoped' = [scoped EXCEPT !.user = user]
  /\ UNCHANGED <<role, mirror, meta, env, up, lock, proc, refused, faults, ops, crashes>>

(* The manager stops its jobs, or dies.                                    *)
Cancel(p) ==
  /\ Late /\ proc[p].pc # "idle" /\ ~proc[p].cancelled
  /\ proc' = [proc EXCEPT ![p].cancelled = TRUE]
  /\ UNCHANGED <<role, files, env, up, lock, refused, faults, counts>>
Crash ==
  /\ crashes < MaxCrashes /\ lock # None /\ crashes' = crashes + 1
  /\ lock' = None /\ proc' = [p \in Procs |-> Idle]
  /\ UNCHANGED <<role, files, env, up, refused, faults, ops, edits>>

Step(p) ==
  \/ Rename(p)
  \/ Alter(p)
  \/ WriteScoped(p)
  \/ syncPostgresCredentialsMirror(p)
  \/ rollbackPostgresRole(p)
  \/ startManagedService(p)
  \/ Verify(p)

Next ==
  \/ \E p \in Procs, u \in Asked, w \in Passwords : updatePostgresCredentials(p, u, w)
  \/ \E p \in Procs : Step(p)
  \/ \E p \in Procs : StartService(p) \/ StopService(p)
  \/ \E p \in Procs : Cancel(p)
  \/ \E u \in Users : Edit(u)
  \/ Crash

Spec == Init /\ [][Next]_vars

---------------------------------------------------------------------------
TypeOK ==
  /\ {role, scoped, mirror, env} \subseteq Credentials
  /\ meta \in Users /\ up \in BOOLEAN
  /\ lock \in Procs \cup {None}

(* One failure, of a statement, a write or a start, leaves the role and    *)
(* the files with the same password.                                       *)
PasswordsAgree ==
  lock = None => role.password = scoped.password /\ (Mirror => mirror.password = scoped.password)

(* A rotation that ends well has changed the role, the files and the       *)
(* container, also when an earlier one was cancelled or died on the way.   *)
SuccessAgrees ==
  [][\A p \in Procs : proc[p].pc = "verify" /\ lock' = None /\ refused' = refused /\ faults' = faults
                      /\ crashes' = crashes /\ ~proc[p].cancelled =>
       /\ role' = proc[p].new /\ scoped' = proc[p].new /\ env' = proc[p].new
       /\ Mirror => mirror' = proc[p].new]_vars

(* No container is created for a user the database does not have.          *)
NoDriftedStart == [][env' # env => env'.user = role.user]_vars

(* A rotation of a running service fails only when something fails.        *)
(* The code does not keep this: README, "Disagreements".                   *)
RotationSucceeds == ~refused
=============================================================================
