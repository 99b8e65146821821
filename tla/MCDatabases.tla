----------------------------- MODULE MCDatabases -----------------------------
(***************************************************************************)
(* Databases: the server-level cluster, the backups of a service and the   *)
(* credentials of a service.  A behaviour is one of one component, the     *)
(* others rest; which says of which, and in which instance.                *)
(***************************************************************************)
EXTENDS Integers, FiniteSets, TLC

CONSTANTS
  Requests, r,            \* requests and operations in flight, and one alone
  Names, Defaults,        \* of databases and login roles, and the default users
  MaxID,                  \* databases the cluster makes in all
  Cap, Lease,             \* ticks to an operation's deadline and to its lease's end
  Users, Passwords,       \* what rotations ask for and the files may hold
  FirstUser, FirstPassword,
  Failures, Crashes, MaxOps, MaxEdits, MaxFaults,
  None

VARIABLES
  which,
  enabled, admin, env, login, running, live, roles, access, rows, owner, users, grants,
  lastID, schedules, timers, backups, leased, holder, pc, failed, crashed,
  op, lease, mu, row, timer, temps, stale, files, records, made, expired, gone, job,
  restored, recorded, removed, errors, deaths,
  role, scoped, mirror, meta, container, up, lock, proc, refused, ops, edits, faults, crashes

managed == <<enabled, admin, env, login, running, live, roles, access, rows, owner, users,
             grants, lastID, schedules, timers, backups, leased, holder, pc, failed, crashed>>
backup == <<op, lease, mu, row, timer, temps, stale, files, records, made, expired, gone, job,
            restored, recorded, removed, errors, deaths>>
credential == <<role, scoped, mirror, meta, container, up, lock, proc, refused, ops, edits,
                faults, crashes>>
vars == <<which, managed, backup, credential>>

Symmetry == Permutations(Requests)

(* Requests for the operations that lease a database, with crashes.        *)
Leases == INSTANCE ManagedDatabases WITH
  Clients <- Requests, Failures <- 0,
  Operations <- {"enable", "create", "drop", "backup", "restore"}

(* One request at a time of any kind that changes cluster, databases or    *)
(* users.                                                                  *)
Cluster == INSTANCE ManagedDatabases WITH
  Clients <- {r}, Failures <- 0, Crashes <- 0,
  Operations <- {"enable", "disable", "start", "stop", "create", "drop", "adduser", "grants",
                 "deluser"}

(* One request at a time with steps that fail.                             *)
Failing == INSTANCE ManagedDatabases WITH
  Clients <- {r}, Crashes <- 0,
  Operations <- {"enable", "create", "drop", "deluser", "schedule",
                 "unschedule"}

(* Requests, timer runs and the deletion of backups, with failing steps    *)
(* and crashes; an operation ends before its lease.                        *)
Backed == INSTANCE Backups WITH
  failed <- errors, crashed <- deaths, Actors <- Requests,
  Kinds <- {"backup", "scheduled", "delete", "on"}, MaxFiles <- 2, Hangs <- FALSE

(* Schedule edits that outlive their lease because systemctl hangs.        *)
Hanging == INSTANCE Backups WITH
  failed <- errors, crashed <- deaths, Actors <- Requests,
  Kinds <- {"backup", "scheduled", "restore", "on", "off", "teardown"}, MaxFiles <- 1,
  Hangs <- TRUE, Failures <- 0, Crashes <- 0

First == [user |-> FirstUser, password |-> FirstPassword]

(* Rotations, starts and stops with one failing step.                      *)
Credentials == INSTANCE DatabaseCredentials WITH
  env <- container, Procs <- Requests, Asked <- Users, Mirror <- TRUE,
  MaxEdits <- 0, MaxFaults <- 1, MaxCrashes <- 0, Late <- FALSE

(* With hand edits of the files, cancelled statements that were carried    *)
(* out, failures and crashes.                                              *)
Drifting == INSTANCE DatabaseCredentials WITH
  env <- container, Procs <- Requests, Asked <- Users, Mirror <- TRUE,
  MaxCrashes <- Crashes, Late <- TRUE

ASSUME Constants ==
  /\ Leases!DefaultsAreNames /\ Backed!CapBelowLease
  /\ None \notin Requests /\ r # None
  /\ {MaxID, Failures, Crashes} \subseteq Nat

Init ==
  /\ which \in {"leases", "cluster", "failing", "backed", "hanging", "credentials", "drifting"}
  /\ IF which \in {"cluster", "failing"} THEN Cluster!Init ELSE Leases!Init
  /\ Backed!Init /\ Credentials!Init

Next ==
  \/ /\ \/ which = "leases" /\ Leases!Next
        \/ which = "cluster" /\ Cluster!Next
        \/ which = "failing" /\ Failing!Next
     /\ UNCHANGED <<which, backup, credential>>
  \/ /\ \/ which = "backed" /\ Backed!Next
        \/ which = "hanging" /\ Hanging!Next
     /\ UNCHANGED <<which, managed, credential>>
  \/ /\ \/ which = "credentials" /\ Credentials!Next
        \/ which = "drifting" /\ Drifting!Next
     /\ UNCHANGED <<which, managed, backup>>

Spec == Init /\ [][Next]_vars

(* Each component's variables have their types.                            *)
TypeOK ==
  CASE which = "leases" -> Leases!TypeOK
    [] which = "cluster" -> Cluster!TypeOK
    [] which = "failing" -> Failing!TypeOK
    [] which = "backed" -> Backed!TypeOK
    [] which = "hanging" -> Hanging!TypeOK
    [] which = "credentials" -> Credentials!TypeOK
    [] which = "drifting" -> Drifting!TypeOK

(* While a backup, restore, schedule change or drop works on a database of *)
(* the cluster no other does, not even one that looked the database up     *)
(* before (acquireDatabaseLease).                                          *)
DatabaseLeaseExcludes == which = "leases" => Leases!LeaseExcludes

(* Between requests what SQLite lists of databases, users and grants       *)
(* PostgreSQL has.                                                         *)
RecordsAreLive == which = "cluster" => Cluster!RecordsAreLive

(* DropDatabase forgets a database only when PostgreSQL has it no more.    *)
ForgottenIsGone == Cluster!ForgottenIsGone

(* A database that a failed creation made is taken back.                   *)
DatabasesRecorded == which = "failing" => Failing!NothingUnrecorded

(* Two operations of a service never overlap although leases expire by the *)
(* clock: the deadline ends the holder first, unless systemctl hangs.      *)
BackupLeaseExcludes == which = "backed" => Backed!LeaseExcludes

(* An existing backup keeps its record, whichever step of a deletion or of *)
(* the retention fails or is the last before a crash.                      *)
RecordsNotLost == Backed!RecordsNotLost

(* Without a crash no failing step leaves a dump that nothing refers to.   *)
DumpsRecorded == which = "backed" /\ deaths = 0 => Backed!NothingUnrecorded

(* Retention removes only what expired.                                    *)
OnlyExpiredRemoved == Backed!OnlyExpiredRemoved

(* A scheduled run past its check works for a schedule that is enabled.    *)
ScheduledOnlyWhenEnabled ==
  /\ which = "backed" => Backed!ScheduledOnlyWhenEnabled
  /\ which = "hanging" => Hanging!ScheduledOnlyWhenEnabled

(* An enabled schedule has its timer, also when a backup that started      *)
(* before an edit records its status after it.                             *)
EnabledIsTimed == which = "hanging" => Hanging!EnabledIsTimed

(* One failure of a statement, a write or a start leaves the role and the  *)
(* files with one password.                                                *)
PasswordsAgree == which = "credentials" => Credentials!PasswordsAgree

(* A rotation that ends well has changed role, files and container, also   *)
(* when an earlier one was cancelled or died on the way.                   *)
SuccessAgrees == Drifting!SuccessAgrees

(* No container is created for a user the database does not have.          *)
NoDriftedStart == Drifting!NoDriftedStart

(* Together: at most one operation works on a database, of the shared      *)
(* cluster or of a service.                                                *)
LeasesExclude == DatabaseLeaseExcludes /\ BackupLeaseExcludes

(* Together: what SQLite lists exists and what exists is listed, whichever *)
(* step of a creation, a drop, a backup or the retention fails, and a      *)
(* record goes only when its database is gone or its backup expired.       *)
RecordsMatch ==
  /\ [](TypeOK /\ RecordsAreLive /\ DatabasesRecorded /\ RecordsNotLost /\ DumpsRecorded)
  /\ ForgottenIsGone
  /\ OnlyExpiredRemoved

(* Together: timers and schedules say the same to whoever acts on them.    *)
SchedulesMatch == ScheduledOnlyWhenEnabled /\ EnabledIsTimed

(* Together: a rotation that reports success is complete, and a container  *)
(* is never started with a user that cannot sign in.                       *)
RotationsAgree == SuccessAgrees /\ NoDriftedStart
=============================================================================
