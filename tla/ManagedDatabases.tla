-------------------------- MODULE ManagedDatabases --------------------------
(***************************************************************************)
(* The server-level PostgreSQL cluster (service/managed_databases.go, its  *)
(* store and its handlers).  Two systems hold the same facts: PostgreSQL   *)
(* has databases, roles and privileges, SQLite has the rows the interface  *)
(* lists.  Every operation changes PostgreSQL first and SQLite after it;   *)
(* some hold the project lock, some a database's backup lease, some        *)
(* neither.  Any step may fail (Failures in all) and the manager may die   *)
(* between two steps (Crashes).  Passwords are not modelled.               *)
(***************************************************************************)
EXTENDS Integers, FiniteSets

CONSTANTS Clients,    \* requests in flight
          Names,      \* names of databases and of login roles
          Defaults,   \* default users the enable dialog is given
          None,
          Operations, \* the kinds of request an instance makes
          Failures, Crashes, MaxID

DefaultsAreNames == Defaults \subseteq Names /\ None \notin Names

VARIABLES enabled, admin,    \* the cluster row: enabled, default_user
          env,               \* POSTGRES_USER and POSTGRES_DB of vars.env
          login,             \* the same in the container, once created
          running,
          live, roles, access,              \* PostgreSQL
          rows, owner, users, grants,       \* SQLite
          lastID, schedules, timers, backups, leased,
          holder, pc, failed, crashed

postgres == <<live, roles, access>>
sqlite   == <<rows, owner, users, grants, lastID>>
cluster  == <<enabled, admin, env, login, running>>
backupState == <<schedules, timers, backups>>
vars == <<cluster, postgres, sqlite, backupState, leased, holder, pc, failed, crashed>>

Idle == [op |-> "idle", at |-> "none", u |-> None, d |-> None, g |-> {}, seen |-> {},
         id |-> 0, mine |-> FALSE]
Ops == {"idle", "enable", "disable", "start", "stop", "create", "drop", "adduser",
        "grants", "deluser", "schedule", "unschedule", "backup", "restore"}

TypeOK ==
    /\ enabled \in BOOLEAN /\ running \in BOOLEAN
    /\ {admin, env, login} \subseteq Names \cup {None}
    /\ live \in [Names -> Names \cup {None}] /\ owner \in [Names -> Names \cup {None}]
    /\ roles \subseteq Names /\ users \subseteq Names
    /\ access \subseteq Names \X Names /\ grants \subseteq Names \X Names
    /\ rows \in [Names -> 0..MaxID] /\ lastID \in 0..MaxID
    /\ schedules \subseteq 1..MaxID /\ timers \subseteq 1..MaxID /\ leased \subseteq 1..MaxID
    /\ backups \subseteq (1..MaxID) \X Names
    /\ holder \in Clients \cup {None}
    /\ \A c \in Clients : pc[c].op \in Ops
    /\ failed \in 0..Failures /\ crashed \in 0..Crashes

Init ==
    /\ enabled = FALSE /\ running = FALSE /\ admin = None /\ env = None /\ login = None
    /\ live = [d \in Names |-> None] /\ roles = {} /\ access = {}
    /\ rows = [d \in Names |-> 0] /\ owner = [d \in Names |-> None] /\ users = {} /\ grants = {}
    /\ lastID = 0 /\ schedules = {} /\ timers = {} /\ backups = {} /\ leased = {}
    /\ holder = None /\ pc = [c \in Clients |-> Idle] /\ failed = 0 /\ crashed = 0
-----------------------------------------------------------------------------
(* Requests and their ends *)

At(c, op, at) == pc[c].op = op /\ pc[c].at = at
Goto(c, at) == pc' = [pc EXCEPT ![c].at = at]

\* A request returns: its lock and its lease go with it.
Return(c) ==
    /\ pc' = [pc EXCEPT ![c] = Idle]
    /\ holder' = IF holder = c THEN None ELSE holder
    /\ leased' = leased \ {pc[c].id}

Fail == failed < Failures /\ failed' = failed + 1

Begin(c, r) ==
    /\ pc[c] = Idle /\ r.op \in Operations
    /\ pc' = [pc EXCEPT ![c] = r]
    /\ UNCHANGED <<cluster, postgres, sqlite, backupState, leased, holder, failed, crashed>>

Request(op, at) == [Idle EXCEPT !.op = op, !.at = at]

\* MaxID bounds the rows the model makes.
Room(u) == rows[u] # 0 \/ lastID < MaxID
Enable(c, u) == Begin(c, [Request("enable", "lock") EXCEPT !.u = u])
Disable(c) == Begin(c, Request("disable", "lock"))
RequireEnabled == enabled
Start(c) == RequireEnabled /\ Begin(c, Request("start", "run"))
Stop(c) == RequireEnabled /\ Begin(c, Request("stop", "run"))
CreateDatabase(c, d, o) ==
    RequireEnabled /\ Begin(c, [Request("create", "lock") EXCEPT !.d = d, !.u = o])
DropDatabase(c, d) == RequireEnabled /\ Begin(c, [Request("drop", "lock") EXCEPT !.d = d])
CreateUser(c, u, g) ==
    RequireEnabled /\ Begin(c, [Request("adduser", "lock") EXCEPT !.u = u, !.g = g])

\* The grants to replace are read here, before the lock is taken; only the
\* difference to them is applied under it.
GrantsOf(u) == {d \in Names : <<u, d>> \in grants}
SetUserPermissions(c, u, g) ==
    /\ RequireEnabled /\ u \in users
    /\ Begin(c, [Request("grants", "lock") EXCEPT !.u = u, !.g = g, !.seen = GrantsOf(u)])

DeleteUser(c, u) ==
    /\ RequireEnabled /\ u # admin /\ u \in users
    /\ Begin(c, [Request("deluser", "lock") EXCEPT !.u = u])

\* Backup operations look the database up and take its lease, not the lock.
LeaseRequest(c, op, d) ==
    /\ RequireEnabled /\ rows[d] # 0
    /\ Begin(c, [Request(op, "lease") EXCEPT !.d = d, !.id = -rows[d]])

Lock(c) ==
    /\ pc[c].at = "lock" /\ holder = None
    /\ holder' = c /\ Goto(c, "check")
    /\ UNCHANGED <<cluster, postgres, sqlite, backupState, leased, failed, crashed>>
-----------------------------------------------------------------------------
(* PostgreSQL, as psql in the container reaches it *)

Answers == running /\ login \in roles
\* psql logs in as POSTGRES_USER; a role the volume does not have is refused
\* with the words "does not exist".
NoSuchRole == running /\ login \notin roles

\* docker compose up: a new volume is initialised for the user of vars.env, an
\* old one is used as it is.
Up ==
    /\ running' = TRUE /\ login' = env
    /\ IF roles = {} THEN /\ roles' = {env}
                          /\ live' = [live EXCEPT ![env] = env]
                          /\ access' = {<<env, env>>}
                     ELSE UNCHANGED postgres
    /\ UNCHANGED <<enabled, admin, env>>

\* PostgreSQL refuses to drop a role that owns or may use a database.
Droppable(u) == u \in roles /\ ~\E d \in Names : live[d] = u \/ <<u, d>> \in access
-----------------------------------------------------------------------------
(* The cluster *)

Refused(c) ==
    /\ pc[c].at = "check"
    /\ \/ pc[c].op = "enable" /\ (enabled \/ ~Room(pc[c].u))
       \/ pc[c].op = "disable" /\ ~enabled
       \/ pc[c].op = "create" /\ (rows[pc[c].d] # 0 \/ ~Answers \/ lastID = MaxID)
       \/ pc[c].op = "drop" /\ (rows[pc[c].d] = 0 \/ rows[pc[c].d] \in leased)
       \/ pc[c].op = "adduser" /\ (~Answers \/ pc[c].u \in roles)
       \/ pc[c].op = "grants" /\ (~Answers \/ pc[c].u \notin roles)
       \/ pc[c].op = "deluser" /\ ~NoSuchRole /\ (~running \/ (pc[c].u \in roles /\ ~Droppable(pc[c].u)))
    /\ Return(c)
    /\ UNCHANGED <<cluster, postgres, sqlite, backupState, failed, crashed>>

\* The Compose project and the environment files are written anew.
EnableFiles(c) ==
    /\ At(c, "enable", "check") /\ ~enabled /\ Room(pc[c].u)
    /\ env' = pc[c].u /\ Goto(c, "cluster")
    /\ UNCHANGED <<enabled, admin, login, running, postgres, sqlite, backupState, leased, holder, failed, crashed>>

EnableCluster(c) ==
    /\ At(c, "enable", "cluster")
    /\ enabled' = TRUE /\ admin' = pc[c].u /\ Goto(c, "rows")
    /\ UNCHANGED <<env, login, running, postgres, sqlite, backupState, leased, holder, failed, crashed>>

EnableRows(c) ==
    /\ At(c, "enable", "rows")
    /\ LET u == pc[c].u IN
       /\ IF rows[u] # 0 THEN UNCHANGED <<rows, owner, lastID>>
          ELSE /\ lastID' = lastID + 1
               /\ rows' = [rows EXCEPT ![u] = lastID + 1]
               /\ owner' = [owner EXCEPT ![u] = u]
       /\ IF u \in users THEN UNCHANGED <<users, grants>>
          ELSE users' = users \cup {u} /\ grants' = grants \cup {<<u, u>>}
    /\ Goto(c, "up")
    /\ UNCHANGED <<cluster, postgres, backupState, leased, holder, failed, crashed>>

EnableUp(c) ==
    /\ At(c, "enable", "up") /\ Up /\ Return(c)
    /\ UNCHANGED <<sqlite, backupState, failed, crashed>>

DisableStop(c) ==
    /\ At(c, "disable", "check") /\ enabled
    /\ running' = FALSE /\ Goto(c, "record")
    /\ UNCHANGED <<enabled, admin, env, login, postgres, sqlite, backupState, leased, holder, failed, crashed>>

DisableRecord(c) ==
    /\ At(c, "disable", "record") /\ enabled' = FALSE /\ Return(c)
    /\ UNCHANGED <<admin, env, login, running, postgres, sqlite, backupState, failed, crashed>>

StartCluster(c) ==
    /\ At(c, "start", "run") /\ Up /\ Return(c)
    /\ UNCHANGED <<sqlite, backupState, failed, crashed>>

StopCluster(c) ==
    /\ At(c, "stop", "run") /\ running' = FALSE /\ Return(c)
    /\ UNCHANGED <<enabled, admin, env, login, postgres, sqlite, backupState, failed, crashed>>

\* docker compose restart starts the container it finds, with its old environment.
RestartCluster(c) ==
    /\ At(c, "start", "run") /\ login # None /\ running' = TRUE /\ Return(c)
    /\ UNCHANGED <<enabled, admin, env, login, postgres, sqlite, backupState, failed, crashed>>
-----------------------------------------------------------------------------
(* Databases *)

CreateRole(c) ==
    /\ At(c, "create", "check") /\ rows[pc[c].d] = 0 /\ Answers /\ lastID < MaxID
    /\ roles' = roles \cup {pc[c].u}
    /\ pc' = [pc EXCEPT ![c].at = "database", ![c].mine = pc[c].u \notin roles]
    /\ UNCHANGED <<cluster, live, access, sqlite, backupState, leased, holder, failed, crashed>>

CreateLive(c) ==
    /\ At(c, "create", "database") /\ Answers /\ live[pc[c].d] = None
    /\ live' = [live EXCEPT ![pc[c].d] = pc[c].u]
    /\ access' = access \cup {<<pc[c].u, pc[c].d>>}
    /\ Goto(c, "record")
    /\ UNCHANGED <<cluster, roles, sqlite, backupState, leased, holder, failed, crashed>>

CreateRecord(c) ==
    /\ At(c, "create", "record")
    /\ pc[c].mine => pc[c].u \notin users
    /\ lastID' = lastID + 1
    /\ rows' = [rows EXCEPT ![pc[c].d] = lastID + 1]
    /\ owner' = [owner EXCEPT ![pc[c].d] = pc[c].u]
    /\ users' = IF pc[c].mine THEN users \cup {pc[c].u} ELSE users
    /\ grants' = IF pc[c].mine THEN grants \cup {<<pc[c].u, pc[c].d>>} ELSE grants
    /\ Return(c)
    /\ UNCHANGED <<cluster, postgres, backupState, failed, crashed>>

\* Fault: the compensation forgets the database.
CreateUndoRole(c) ==
    /\ At(c, "create", "record") /\ Fail
    /\ roles' = IF pc[c].mine /\ Answers THEN roles \ {pc[c].u} ELSE roles
    /\ Return(c)
    /\ UNCHANGED <<cluster, live, access, sqlite, backupState, crashed>>

\* Whatever fails after the role: drop the database this request made, then the
\* role this request made.  Nothing can be undone while psql cannot log in.
CreateUndo(c) ==
    LET made == pc[c].at = "record"
        free == [live EXCEPT ![pc[c].d] = None]
    IN
    /\ pc[c].op = "create"
    /\ \/ pc[c].at = "database" /\ (~Answers \/ live[pc[c].d] # None) /\ UNCHANGED failed
       \/ pc[c].at = "record" /\ pc[c].mine /\ pc[c].u \in users /\ UNCHANGED failed
       \/ pc[c].at \in {"database", "record"} /\ Fail
    /\ IF Answers
       THEN /\ live' = IF made THEN free ELSE live
            /\ access' = IF made THEN {a \in access : a[2] # pc[c].d} ELSE access
            /\ roles' = IF pc[c].mine THEN roles \ {pc[c].u} ELSE roles
       ELSE UNCHANGED postgres
    /\ Return(c)
    /\ UNCHANGED <<cluster, sqlite, backupState, crashed>>

\* Fault: a drop that does not respect a running backup's lease.
DropWithoutLease(c) ==
    /\ At(c, "drop", "check") /\ rows[pc[c].d] # 0
    /\ leased' = leased \cup {rows[pc[c].d]}
    /\ pc' = [pc EXCEPT ![c].at = "drop", ![c].id = rows[pc[c].d]]
    /\ UNCHANGED <<cluster, postgres, sqlite, backupState, holder, failed, crashed>>

DropLease(c) ==
    /\ At(c, "drop", "check") /\ rows[pc[c].d] # 0 /\ rows[pc[c].d] \notin leased
    /\ leased' = leased \cup {rows[pc[c].d]}
    /\ pc' = [pc EXCEPT ![c].at = "drop", ![c].id = rows[pc[c].d]]
    /\ UNCHANGED <<cluster, postgres, sqlite, backupState, holder, failed, crashed>>

\* Fault: a container that cannot be reached counts as a dropped database.
GoneOrStopped(d) == (Answers /\ live[d] = None) \/ ~running

\* An answer that says "does not exist" is read as: already dropped.
AlreadyGone(d) == (Answers /\ live[d] = None) \/ NoSuchRole

DropLive(c) ==
    LET d == pc[c].d IN
    /\ At(c, "drop", "drop")
    /\ \/ AlreadyGone(d) /\ UNCHANGED <<live, access>>
       \/ /\ Answers /\ live[d] # None /\ d # login
          /\ live' = [live EXCEPT ![d] = None]
          /\ access' = {a \in access : a[2] # d}
    /\ Goto(c, "unrecord")
    /\ UNCHANGED <<cluster, roles, sqlite, backupState, leased, holder, failed, crashed>>

DropRefused(c) ==
    /\ At(c, "drop", "drop") /\ ~AlreadyGone(pc[c].d) /\ (~Answers \/ pc[c].d = login)
    /\ Return(c)
    /\ UNCHANGED <<cluster, postgres, sqlite, backupState, failed, crashed>>

\* Fault: the grants of a dropped database are kept.
UnrecordKeepingGrants(d) ==
    /\ rows' = [rows EXCEPT ![d] = 0] /\ owner' = [owner EXCEPT ![d] = None]
    /\ schedules' = schedules \ {rows[d]} /\ backups' = {b \in backups : b[1] # rows[d]}
    /\ UNCHANGED <<users, grants, lastID, timers>>

\* The row, its grants and, by the foreign keys, its schedule, backup records and lease.
Unrecord(d) ==
    /\ rows' = [rows EXCEPT ![d] = 0] /\ owner' = [owner EXCEPT ![d] = None]
    /\ grants' = {g \in grants : g[2] # d}
    /\ schedules' = schedules \ {rows[d]} /\ backups' = {b \in backups : b[1] # rows[d]}
    /\ UNCHANGED <<users, lastID, timers>>

DropRecord(c) ==
    /\ At(c, "drop", "unrecord") /\ Unrecord(pc[c].d) /\ Return(c)
    /\ UNCHANGED <<cluster, postgres, failed, crashed>>
-----------------------------------------------------------------------------
(* Users *)

UserRole(c) ==
    /\ At(c, "adduser", "check") /\ Answers /\ pc[c].u \notin roles
    /\ roles' = roles \cup {pc[c].u} /\ Goto(c, "grant")
    /\ UNCHANGED <<cluster, live, access, sqlite, backupState, leased, holder, failed, crashed>>

Missing(c) == {d \in pc[c].g : live[d] = None}
Granted(c, ds) == access \cup ({pc[c].u} \X ds)

UserGrants(c) ==
    /\ At(c, "adduser", "grant") /\ Answers /\ Missing(c) = {}
    /\ access' = Granted(c, pc[c].g) /\ Goto(c, "record")
    /\ UNCHANGED <<cluster, live, roles, sqlite, backupState, leased, holder, failed, crashed>>

UserRecord(c) ==
    /\ At(c, "adduser", "record") /\ pc[c].u \notin users
    /\ users' = users \cup {pc[c].u} /\ grants' = grants \cup ({pc[c].u} \X pc[c].g)
    /\ Return(c)
    /\ UNCHANGED <<cluster, postgres, rows, owner, lastID, backupState, failed, crashed>>

\* A grant that fails, or a row that cannot be written: the role is dropped,
\* which PostgreSQL refuses once a grant went through.
UserUndo(c) ==
    /\ pc[c].op = "adduser"
    /\ \/ /\ pc[c].at = "grant" /\ Answers /\ Missing(c) # {} /\ UNCHANGED failed
          /\ \E done \in SUBSET (pc[c].g \ Missing(c)) : access' = Granted(c, done)
       \/ pc[c].at = "grant" /\ ~Answers /\ UNCHANGED <<access, failed>>
       \/ pc[c].at = "record" /\ pc[c].u \in users /\ UNCHANGED <<access, failed>>
       \/ pc[c].at \in {"grant", "record"} /\ Fail /\ UNCHANGED access
    /\ roles' = IF Answers /\ ~\E d \in Names : <<pc[c].u, d>> \in access'
                THEN roles \ {pc[c].u} ELSE roles
    /\ Return(c)
    /\ UNCHANGED <<cluster, live, sqlite, backupState, crashed>>

\* GRANT what is wanted and was not seen; stop at the first database that is gone.
GrantNew(c) ==
    LET wanted == pc[c].g \ pc[c].seen IN
    /\ At(c, "grants", "check") /\ Answers /\ pc[c].u \in roles
    /\ IF \A d \in wanted : live[d] # None
       THEN access' = Granted(c, wanted) /\ Goto(c, "revoke") /\ UNCHANGED <<holder, leased>>
       ELSE /\ \E done \in SUBSET {d \in wanted : live[d] # None} : access' = Granted(c, done)
            /\ Return(c)
    /\ UNCHANGED <<cluster, live, roles, sqlite, backupState, failed, crashed>>

RevokeOld(c) ==
    LET old == pc[c].seen \ pc[c].g IN
    /\ At(c, "grants", "revoke")
    /\ IF Answers /\ \A d \in old : live[d] # None
       THEN access' = access \ ({pc[c].u} \X old) /\ Goto(c, "record") /\ UNCHANGED <<holder, leased>>
       ELSE UNCHANGED access /\ Return(c)
    /\ UNCHANGED <<cluster, live, roles, sqlite, backupState, failed, crashed>>

GrantRecord(c) ==
    LET u == pc[c].u IN
    /\ At(c, "grants", "record")
    /\ grants' = IF u \in users THEN {g \in grants : g[1] # u} \cup ({u} \X pc[c].g) ELSE grants
    /\ Return(c)
    /\ UNCHANGED <<cluster, postgres, rows, owner, users, lastID, backupState, failed, crashed>>

DeleteRole(c) ==
    /\ At(c, "deluser", "check")
    /\ \/ NoSuchRole /\ UNCHANGED roles
       \/ Answers /\ (pc[c].u \in roles => Droppable(pc[c].u)) /\ roles' = roles \ {pc[c].u}
    /\ Goto(c, "record")
    /\ UNCHANGED <<cluster, live, access, sqlite, backupState, leased, holder, failed, crashed>>

DeleteUserRecord(c) ==
    /\ At(c, "deluser", "record")
    /\ users' = users \ {pc[c].u} /\ grants' = {g \in grants : g[1] # pc[c].u}
    /\ Return(c)
    /\ UNCHANGED <<cluster, postgres, rows, owner, lastID, backupState, failed, crashed>>
-----------------------------------------------------------------------------
(* Backups and schedules *)

Registered(id) == \E d \in Names : rows[d] = id

\* The lease row references the database: one dropped since it was looked up
\* has no lease to give.
TakeLease(c) ==
    LET id == -pc[c].id IN
    /\ pc[c].at = "lease" /\ Registered(id) /\ id \notin leased
    /\ leased' = leased \cup {id}
    /\ pc' = [pc EXCEPT ![c].at = "leased", ![c].id = id]
    /\ UNCHANGED <<cluster, postgres, sqlite, backupState, holder, failed, crashed>>

LeaseRefused(c) ==
    /\ pc[c].at = "lease" /\ (~Registered(-pc[c].id) \/ -pc[c].id \in leased)
    /\ Return(c)
    /\ UNCHANGED <<cluster, postgres, sqlite, backupState, failed, crashed>>

Install(c) ==
    /\ At(c, "schedule", "leased")
    /\ timers' = timers \cup {pc[c].id} /\ Goto(c, "record")
    /\ UNCHANGED <<cluster, postgres, sqlite, schedules, backups, leased, holder, failed, crashed>>

ScheduleRecord(c) ==
    /\ At(c, "schedule", "record") /\ schedules' = schedules \cup {pc[c].id} /\ Return(c)
    /\ UNCHANGED <<cluster, postgres, sqlite, timers, backups, failed, crashed>>

\* The row cannot be written: the timer is disabled again.
ScheduleUndo(c) ==
    /\ At(c, "schedule", "record") /\ Fail
    /\ timers' = timers \ {pc[c].id} /\ Return(c)
    /\ UNCHANGED <<cluster, postgres, sqlite, schedules, backups, crashed>>

Unschedule(c) ==
    /\ At(c, "unschedule", "leased")
    /\ timers' = (IF pc[c].id \in schedules THEN timers \ {pc[c].id} ELSE timers)
    /\ schedules' = schedules \ {pc[c].id} /\ Return(c)
    /\ UNCHANGED <<cluster, postgres, sqlite, backups, failed, crashed>>

\* pg_dump reads the database POSTGRES_DB names; the record is the requested one's.
RunBackup(c) ==
    /\ At(c, "backup", "leased") /\ Answers
    /\ backups' = backups \cup {<<pc[c].id, login>>} /\ Return(c)
    /\ UNCHANGED <<cluster, postgres, sqlite, schedules, timers, failed, crashed>>

BackupFails(c) ==
    /\ pc[c].op \in {"backup", "restore"} /\ pc[c].at = "leased" /\ ~Answers
    /\ Return(c)
    /\ UNCHANGED <<cluster, postgres, sqlite, backupState, failed, crashed>>

RestoreBackup(c) ==
    /\ At(c, "restore", "leased") /\ Answers
    /\ Return(c)
    /\ UNCHANGED <<cluster, postgres, sqlite, backupState, failed, crashed>>
-----------------------------------------------------------------------------
(* Faults *)

\* Docker or the store refuses a step that has no compensation of its own.
StepFails(c) ==
    /\ pc[c].op \in {"enable", "disable", "start", "stop", "drop", "grants", "deluser"}
    /\ pc[c].at \notin {"lock", "check"} /\ Fail /\ Return(c)
    /\ UNCHANGED <<cluster, postgres, sqlite, backupState, crashed>>

Crash ==
    /\ crashed < Crashes /\ crashed' = crashed + 1
    /\ pc' = [c \in Clients |-> Idle] /\ holder' = None
    /\ UNCHANGED <<cluster, postgres, sqlite, backupState, leased, failed>>

\* A lease nobody holds any more is reclaimed when its time is over.
LeaseExpires ==
    /\ \E id \in leased : ~(\E c \in Clients : pc[c].id = id) /\ leased' = leased \ {id}
    /\ UNCHANGED <<cluster, postgres, sqlite, backupState, holder, pc, failed, crashed>>

BeginAny(c) ==
    \/ \E u \in Defaults : Enable(c, u)
    \/ Disable(c) \/ Start(c) \/ Stop(c)
    \/ \E d, o \in Names : CreateDatabase(c, d, o)
    \/ \E d \in Names : DropDatabase(c, d)
    \/ \E u \in Names, g \in SUBSET Names : CreateUser(c, u, g) \/ SetUserPermissions(c, u, g)
    \/ \E u \in Names : DeleteUser(c, u)
    \/ \E d \in Names, op \in {"schedule", "unschedule", "backup", "restore"} : LeaseRequest(c, op, d)

Step(c) ==
    \/ Lock(c) \/ Refused(c)
    \/ EnableFiles(c) \/ EnableCluster(c) \/ EnableRows(c) \/ EnableUp(c)
    \/ DisableStop(c) \/ DisableRecord(c) \/ StartCluster(c) \/ StopCluster(c) \/ RestartCluster(c)
    \/ CreateRole(c) \/ CreateLive(c) \/ CreateRecord(c) \/ CreateUndo(c)
    \/ DropLease(c) \/ DropLive(c) \/ DropRefused(c) \/ DropRecord(c)
    \/ UserRole(c) \/ UserGrants(c) \/ UserRecord(c) \/ UserUndo(c)
    \/ GrantNew(c) \/ RevokeOld(c) \/ GrantRecord(c) \/ DeleteRole(c) \/ DeleteUserRecord(c)
    \/ TakeLease(c) \/ LeaseRefused(c) \/ Install(c) \/ ScheduleRecord(c) \/ ScheduleUndo(c)
    \/ Unschedule(c) \/ RunBackup(c) \/ BackupFails(c) \/ RestoreBackup(c)

Next ==
    \/ \E c \in Clients : BeginAny(c) \/ Step(c) \/ StepFails(c)
    \/ Crash \/ LeaseExpires

Spec == Init /\ [][Next]_vars
-----------------------------------------------------------------------------
(* Properties *)

\* Two operations that hold a database's lease never overlap: while a backup,
\* a restore, a schedule change or a drop works on a database, no other does
\* (acquireDatabaseLease), not even one that looked the database up earlier.
LeaseExcludes ==
    \A c, e \in Clients : c # e /\ pc[c].id > 0 => pc[c].id # pc[e].id

\* What SQLite records PostgreSQL has: after any sequence of requests, a listed
\* database exists, a listed user can log in and a listed grant is held.
\* Stated for the moments when no request is in flight.
RecordsAreLive ==
    (\A c \in Clients : pc[c] = Idle) =>
        /\ \A d \in Names : rows[d] # 0 => live[d] # None
        /\ users \subseteq roles
        /\ grants \subseteq access

\* DropDatabase forgets a database only when PostgreSQL has it no more.
ForgottenIsGone == [][\A d \in Names : rows[d] # 0 /\ rows'[d] = 0 => live[d] = None]_vars

\* A database that a failed or refused creation made is taken back: what exists
\* without a row is being created or dropped by the request under the lock.
NothingUnrecorded ==
    \A d \in Names : live[d] # None /\ rows[d] = 0 =>
        \E c \in Clients : holder = c /\ pc[c].op \in {"create", "drop"} /\ pc[c].d = d

\* DisableCluster: once managed databases are disabled and nothing is in flight
\* the shared container is stopped.
\* The code does not keep this: README, "Disagreements".
DisabledIsStopped ==
    ~enabled /\ (\A c \in Clients : pc[c] = Idle) => ~running

\* An enabled backup timer belongs to a database that still has its schedule.
\* The code does not keep this: README, "Disagreements".
TimersHaveSchedules ==
    (\A c \in Clients : pc[c] = Idle) => timers \subseteq schedules

\* A recorded backup of a database holds that database.
\* The code does not keep this: README, "Disagreements".
BackupHoldsItsDatabase == \A b \in backups : rows[b[2]] = b[1]
=============================================================================
