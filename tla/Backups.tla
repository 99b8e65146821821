------------------------------ MODULE Backups ------------------------------
(***************************************************************************)
(* Backups of one database service (service/backup.go, the lease and the   *)
(* records of store/store.go, handler/backup_job.go, systemd/manager.go).  *)
(* Requests of the web process, one-shot units of the systemd timer and    *)
(* the deletion of the service meet at one lease row in SQLite.  An        *)
(* operation changes files, rows and units in turn; any of these steps may *)
(* fail (Failures in all) and the manager may die between two of them      *)
(* (Crashes).  Time is measured in ticks: an operation's deadline comes    *)
(* Cap ticks after its start, a lease expires Lease ticks after it was     *)
(* taken.                                                                  *)
(***************************************************************************)
EXTENDS Integers, FiniteSets

CONSTANTS Actors,   \* operations in flight
          Kinds,    \* the kinds of operation an instance has
          MaxFiles, \* backups made in all
          Cap, Lease,
          Hangs,    \* systemctl may take longer than Cap
          Failures, Crashes, None

CapBelowLease == Cap \in Nat /\ Lease \in Nat /\ Cap < Lease

VARIABLES op, lease, mu,
          row,       \* the schedule row: is there one, enabled, last status
          timer,
          temps,     \* actors that left a temporary dump
          stale,     \* temporary dumps older than a day
          files, records, made, expired,
          gone,      \* the service row is deleted
          job,       \* the actor whose backup or restore job is running
          restored,  \* actors that restored what they were asked to
          recorded,  \* history: files that had a record
          removed,   \* history: files a deletion or retention removed
          failed, crashed

disk == <<temps, stale, files, made, expired, removed>>
rows == <<row, records, gone, recorded>>
vars == <<op, lease, mu, disk, rows, timer, job, restored, failed, crashed>>

Files == 1..MaxFiles
NoOp == [kind |-> "idle", at |-> "none", age |-> 0, f |-> 0, enabled |-> FALSE,
         asked |-> "none", joined |-> None]
NoRow == [saved |-> FALSE, enabled |-> FALSE, status |-> "none"]
Web == {"backup", "restore", "delete", "on", "off", "teardown"}

TypeOK ==
    /\ \A a \in Actors : /\ op[a].kind \in Web \cup {"idle", "scheduled", "joined"}
                         /\ op[a].age \in 0..Lease /\ op[a].f \in 0..MaxFiles
                         /\ op[a].enabled \in BOOLEAN /\ op[a].joined \in Actors \cup {None}
    /\ lease \in [by : Actors \cup {None}, age : 0..Lease]
    /\ mu \in Actors \cup {None} /\ job \in Actors \cup {None}
    /\ row \in [saved : BOOLEAN, enabled : BOOLEAN, status : {"none", "ok", "failed"}]
    /\ timer \in BOOLEAN /\ gone \in BOOLEAN
    /\ temps \subseteq Actors /\ stale \subseteq temps /\ restored \subseteq Actors
    /\ files \subseteq Files /\ records \subseteq Files /\ expired \subseteq Files
    /\ recorded \subseteq Files /\ removed \subseteq Files /\ made \in 0..MaxFiles
    /\ failed \in 0..Failures /\ crashed \in 0..Crashes

Init ==
    /\ op = [a \in Actors |-> NoOp] /\ lease = [by |-> None, age |-> 0] /\ mu = None
    /\ row = NoRow /\ timer = FALSE /\ gone = FALSE
    /\ temps = {} /\ stale = {} /\ files = {} /\ made = 0 /\ expired = {} /\ removed = {}
    /\ records = {} /\ recorded = {} /\ job = None /\ restored = {}
    /\ failed = 0 /\ crashed = 0
-----------------------------------------------------------------------------
(* Requests, the lease and their ends *)

At(a, kind, at) == op[a].kind = kind /\ op[a].at = at
Goto(a, at) == op' = [op EXCEPT ![a].at = at]
Fail == failed < Failures /\ failed' = failed + 1

\* createUnique: a request joins whatever job of the service is running.
RunningJob(kind) == kind \in {"backup", "restore"} /\ job # None

\* The page of the job the requests a joined showed them how it ended.
Finish(a, done) ==
    /\ job' = IF job = a THEN None ELSE job
    /\ restored' = IF done /\ op[a].kind = "restore" THEN restored \cup {a} ELSE restored \ {a}
    /\ op' = [b \in Actors |->
                IF b = a THEN IF op[a].kind \in {"backup", "restore"} /\ done
                              THEN [NoOp EXCEPT !.at = "complete", !.asked = op[a].asked]
                              ELSE NoOp
                ELSE IF op[b].joined # a THEN op[b]
                ELSE IF done THEN [NoOp EXCEPT !.at = "complete", !.asked = op[b].asked]
                ELSE NoOp]

\* Only the caller's own row is deleted.
ReleaseBackupLease(a) == lease' = IF lease.by = a THEN [by |-> None, age |-> 0] ELSE lease

Return(a, done) ==
    /\ Finish(a, done) /\ ReleaseBackupLease(a)
    /\ mu' = IF mu = a THEN None ELSE mu

Request(a, kind, f) ==
    /\ op[a].kind = "idle" /\ kind \in Kinds /\ kind \in Web /\ ~gone
    /\ kind \in {"restore", "delete"} <=> f # 0
    /\ restored' = restored \ {a}
    /\ IF RunningJob(kind)
       THEN /\ op' = [op EXCEPT ![a] = [NoOp EXCEPT !.kind = "joined", !.asked = kind,
                                                    !.joined = job]]
            /\ UNCHANGED job
       ELSE /\ op' = [op EXCEPT ![a] = [NoOp EXCEPT !.kind = kind, !.at = "lease", !.f = f,
                                                    !.asked = kind]]
            /\ job' = IF kind \in {"backup", "restore"} THEN a ELSE job
    /\ UNCHANGED <<lease, mu, disk, rows, timer, failed, crashed>>

\* The timer starts the one-shot unit unless it is still running.
TimerFires(a) ==
    /\ timer /\ op[a].kind = "idle" /\ "scheduled" \in Kinds
    /\ ~\E b \in Actors : op[b].kind = "scheduled"
    /\ restored' = restored \ {a}
    /\ op' = [op EXCEPT ![a] = [NoOp EXCEPT !.kind = "scheduled", !.at = "lease"]]
    /\ UNCHANGED <<lease, mu, disk, rows, timer, job, failed, crashed>>

Expired == lease.age >= Lease
\* The row refers to the service: it cannot be inserted once that is deleted.
AcquireBackupLease(a) ==
    /\ op[a].at = "lease" /\ op[a].kind # "idle"
    /\ lease.by = None \/ Expired
    /\ ~gone
    /\ lease' = [by |-> a, age |-> 0] /\ Goto(a, "start")
    /\ UNCHANGED <<mu, disk, rows, timer, job, restored, failed, crashed>>

\* ErrBackupOperationInProgress, or the service is gone.
LeaseRefused(a) ==
    /\ op[a].at = "lease" /\ op[a].kind # "idle"
    /\ gone \/ (lease.by # None /\ ~Expired)
    /\ Return(a, FALSE)
    /\ UNCHANGED <<disk, rows, timer, failed, crashed>>
-----------------------------------------------------------------------------
(* runBackup *)

\* Fault: the unit trusts its timer.
TimerIsTrusted(a) == FALSE
ScheduleDisabled(a) == op[a].kind = "scheduled" /\ ~row.enabled

\* The schedule is read here, once.  A scheduled run that finds it disabled
\* ends; a run the user asked for needs the service to be running (StepFails
\* when it is not).
ReadSchedule(a) ==
    /\ op[a].kind \in {"backup", "scheduled"} /\ op[a].at = "start"
    /\ IF ScheduleDisabled(a)
       THEN Return(a, FALSE)
       ELSE /\ op' = [op EXCEPT ![a].at = "temp", ![a].enabled = row.enabled]
            /\ UNCHANGED <<lease, mu, job, restored>>
    /\ UNCHANGED <<disk, rows, timer, failed, crashed>>

\* recoverAbandonedTemporaryBackups, then os.CreateTemp.
RecoverAbandoned(a) == temps' = (temps \ stale) \cup {a}

CreateTemp(a) ==
    /\ op[a].kind \in {"backup", "scheduled"} /\ op[a].at = "temp"
    /\ RecoverAbandoned(a)
    /\ stale' = {} /\ Goto(a, "dump")
    /\ UNCHANGED <<lease, mu, rows, timer, files, made, expired, removed, job, restored, failed, crashed>>

\* pg_dump has written the temporary file; commitBackupFile links it to a name
\* no file has and removes the temporary one.
CommitBackupFile(a) ==
    /\ op[a].kind \in {"backup", "scheduled"} /\ op[a].at = "dump"
    /\ made < MaxFiles
    /\ made' = made + 1 /\ files' = files \cup {made'} /\ temps' = temps \ {a}
    /\ op' = [op EXCEPT ![a].at = "record", ![a].f = made']
    /\ UNCHANGED <<lease, mu, rows, timer, stale, expired, removed, job, restored, failed, crashed>>

\* updateBackupStatus: a missing row is created from the snapshot's settings,
\* disabled; a present one only has its status changed.
\* Fault: the whole row is saved from the snapshot.
StatusFromSnapshot(a, status) ==
    row' = [saved |-> TRUE, enabled |-> op[a].enabled, status |-> status]
\* Fault: a status the schedule does not know.
UnknownStatus(a, status) == row' = [row EXCEPT !.saved = TRUE, !.status = "running"]
UpdateBackupStatus(a, status) ==
    row' = [row EXCEPT !.saved = TRUE, !.status = status]

CreateBackup(a) ==
    /\ op[a].kind \in {"backup", "scheduled"} /\ op[a].at = "record" /\ ~gone
    /\ records' = records \cup {op[a].f} /\ recorded' = recorded \cup {op[a].f}
    /\ Goto(a, "status")
    /\ UNCHANGED <<lease, mu, disk, row, gone, timer, job, restored, failed, crashed>>

RecordStatus(a) ==
    /\ op[a].kind \in {"backup", "scheduled"} /\ op[a].at = "status" /\ ~gone
    /\ UpdateBackupStatus(a, "ok")
    /\ Goto(a, "retention")
    /\ UNCHANGED <<lease, mu, disk, records, gone, recorded, timer, job, restored, failed, crashed>>

\* Fault: a dump whose record cannot be written stays.
KeepUnrecorded(a) == files
WithoutUnrecorded(a) == IF op[a].at = "record" THEN files \ {op[a].f} ELSE files

\* recordBackupFailure: the failure is recorded and the temporary dump, or the
\* file that has no record, removed.
BackupFails(a) ==
    /\ op[a].kind \in {"backup", "scheduled"} /\ op[a].at \in {"dump", "record"}
    /\ \/ Fail
       \/ (gone \/ (made = MaxFiles /\ op[a].at = "dump")) /\ UNCHANGED failed
    /\ IF gone THEN UNCHANGED row ELSE UpdateBackupStatus(a, "failed")
    /\ temps' = temps \ {a} /\ stale' = stale \ {a}
    /\ files' = WithoutUnrecorded(a)
    /\ Return(a, FALSE)
    /\ UNCHANGED <<records, gone, recorded, timer, made, expired, removed, crashed>>

\* applyRetention: of an expired backup the file goes first, its record next.
\* Fault: the record goes first.
RetentionRecordFirst(a, f) ==
    \/ /\ f \in records
       /\ records' = records \ {f} /\ removed' = removed \cup {f} /\ UNCHANGED files
    \/ /\ f \in files \ records
       /\ files' = files \ {f} /\ UNCHANGED <<records, removed>>
RemoveFileThenRecord(a, f) ==
    \/ /\ f \in files
       /\ files' = files \ {f} /\ removed' = removed \cup {f} /\ UNCHANGED records
    \/ /\ f \in records \ files
       /\ records' = records \ {f} /\ UNCHANGED <<files, removed>>

\* Fault: the backup just made is not spared.
AllRecords(a) == records
ExpiredBackups(a) == records \cap expired

ApplyRetention(a) ==
    /\ op[a].kind \in {"backup", "scheduled"} /\ op[a].at = "retention"
    /\ \E f \in ExpiredBackups(a) : RemoveFileThenRecord(a, f)
    /\ UNCHANGED <<op, lease, mu, row, gone, recorded, timer, temps, stale, made, expired,
                   job, restored, failed, crashed>>

RunBackupReturns(a) ==
    /\ op[a].kind \in {"backup", "scheduled"} /\ op[a].at = "retention"
    /\ ExpiredBackups(a) = {}
    /\ Return(a, TRUE)
    /\ UNCHANGED <<disk, rows, timer, failed, crashed>>
-----------------------------------------------------------------------------
(* RestoreBackup, DeleteBackup *)

\* The restore runs in one transaction: it is all there or not at all.
RestoreBackup(a) ==
    /\ At(a, "restore", "start")
    /\ Return(a, op[a].f \in records /\ op[a].f \in files)
    /\ UNCHANGED <<disk, rows, timer, failed, crashed>>

\* A recorded backup: its file first, then its record.
DeleteBackup(a) ==
    /\ At(a, "delete", "start")
    /\ op[a].f \in records
    /\ RemoveFileThenRecord(a, op[a].f)
    /\ IF op[a].f \in records'
       THEN UNCHANGED <<op, lease, mu, job, restored>>
       ELSE Return(a, TRUE)
    /\ UNCHANGED <<row, gone, recorded, timer, temps, stale, made, expired, failed, crashed>>

BackupNotFound(a) ==
    /\ At(a, "delete", "start") /\ op[a].f \notin records
    /\ Return(a, FALSE)
    /\ UNCHANGED <<disk, rows, timer, failed, crashed>>
-----------------------------------------------------------------------------
(* The schedule and its timer: UpdateBackupSchedule, the deletion of the service *)

Lock(a) ==
    /\ op[a].kind \in {"on", "off", "teardown"} /\ op[a].at = "start" /\ mu = None
    /\ mu' = a /\ Goto(a, "units")
    /\ UNCHANGED <<lease, disk, rows, timer, job, restored, failed, crashed>>

\* Install writes both units and enables the timer.
Install(a) ==
    /\ At(a, "on", "units")
    /\ timer' = TRUE /\ Goto(a, "save")
    /\ UNCHANGED <<lease, mu, disk, rows, job, restored, failed, crashed>>

\* A one-shot unit that is stopped dies where it is: its lease stays.
StopUnit(then, a) ==
    op' = [b \in Actors |-> IF b = a THEN [op[b] EXCEPT !.at = then]
                            ELSE IF op[b].kind = "scheduled" THEN NoOp ELSE op[b]]

\* Disable stops the timer, then the one-shot unit, and removes both files.
Disable(a) == timer' = FALSE /\ StopUnit("save", a)

DisableUnits(a) ==
    /\ op[a].kind \in {"off", "teardown"} /\ op[a].at = "units"
    /\ IF row.enabled THEN Disable(a) ELSE Goto(a, "save") /\ UNCHANGED timer
    /\ UNCHANGED <<lease, mu, disk, rows, job, restored, failed, crashed>>

\* A row for a deleted service is refused; the units are taken back.
SaveBackupSchedule(a) ==
    /\ op[a].kind \in {"on", "off"} /\ op[a].at = "save" /\ ~gone
    /\ row' = [row EXCEPT !.saved = TRUE, !.enabled = (op[a].kind = "on")]
    /\ Return(a, TRUE)
    /\ UNCHANGED <<disk, records, gone, recorded, timer, failed, crashed>>

SaveFails(a) ==
    /\ At(a, "on", "save") /\ ((gone /\ UNCHANGED failed) \/ Fail)
    /\ timer' = FALSE /\ Return(a, FALSE)
    /\ UNCHANGED <<disk, rows, crashed>>

\* The deletion saves the disabled row, then deletes the service: its rows,
\* the lease among them, go with it.  The files stay.
DeleteService(a) ==
    /\ At(a, "teardown", "save") /\ ~gone
    /\ gone' = TRUE /\ row' = NoRow /\ records' = {} /\ recorded' = {}
    /\ Finish(a, TRUE) /\ mu' = None /\ lease' = [by |-> None, age |-> 0]
    /\ UNCHANGED <<disk, timer, failed, crashed>>
-----------------------------------------------------------------------------
(* Failures, crashes, time *)

\* A step that fails without an effect ends its operation.  systemctl may have
\* switched the timer before Install or Disable fails.
StepFails(a) ==
    /\ op[a].kind \notin {"idle", "joined"} /\ op[a].at # "none"
    /\ ~(op[a].kind \in {"backup", "scheduled"} /\ op[a].at \in {"dump", "record"})
    /\ ~At(a, "on", "save")
    /\ Fail /\ Return(a, FALSE)
    /\ timer' \in IF op[a].at = "units" THEN {timer, op[a].kind = "on"} ELSE {timer}
    /\ UNCHANGED <<disk, rows, crashed>>

\* The manager dies; the one-shot unit is a process of its own.
Crash ==
    /\ crashed < Crashes /\ crashed' = crashed + 1
    /\ op' = [a \in Actors |-> IF op[a].kind = "scheduled" THEN op[a] ELSE NoOp]
    /\ mu' = None /\ job' = None /\ restored' = {}
    /\ UNCHANGED <<lease, disk, rows, timer, failed>>

Live(a) == op[a].kind \notin {"idle", "joined"}
\* Fault: the unit's run has no deadline.
WebDeadline(a) == Live(a) /\ op[a].kind # "scheduled"
\* withBackupOperationDeadline; a web job has a shorter one.  The schedule's
\* operation has none.
HasDeadline(a) == Live(a) /\ (op[a].kind \notin {"on", "off"} \/ ~Hangs)

Tick ==
    /\ \A a \in Actors : HasDeadline(a) => op[a].age < Cap
    /\ \E a \in Actors : Live(a) \/ lease.by # None
    /\ op' = [a \in Actors |-> IF Live(a) /\ op[a].age < Lease
                               THEN [op[a] EXCEPT !.age = @ + 1] ELSE op[a]]
    /\ lease' = IF lease.by # None /\ lease.age < Lease THEN [lease EXCEPT !.age = @ + 1] ELSE lease
    /\ <<op', lease'>> # <<op, lease>>
    /\ UNCHANGED <<mu, disk, rows, timer, job, restored, failed, crashed>>

\* Days pass: a backup no operation is busy with expires.
BackupExpires(f) ==
    /\ f \in records \ expired /\ \A a \in Actors : op[a].f # f
    /\ expired' = expired \cup {f}
    /\ UNCHANGED <<op, lease, mu, rows, timer, temps, stale, files, made, removed, job, restored,
                   failed, crashed>>
TempAges(a) ==
    /\ a \in temps \ stale /\ op[a].at # "dump"
    /\ stale' = stale \cup {a}
    /\ UNCHANGED <<op, lease, mu, rows, timer, temps, files, made, expired, removed, job, restored,
                   failed, crashed>>

Next ==
    \/ \E a \in Actors :
         \/ \E kind \in Kinds, f \in 0..MaxFiles : Request(a, kind, f)
         \/ TimerFires(a) \/ AcquireBackupLease(a) \/ LeaseRefused(a)
         \/ ReadSchedule(a) \/ CreateTemp(a) \/ CommitBackupFile(a) \/ CreateBackup(a)
         \/ RecordStatus(a) \/ BackupFails(a) \/ ApplyRetention(a) \/ RunBackupReturns(a)
         \/ RestoreBackup(a) \/ DeleteBackup(a) \/ BackupNotFound(a)
         \/ Lock(a) \/ Install(a) \/ DisableUnits(a) \/ SaveBackupSchedule(a) \/ SaveFails(a)
         \/ DeleteService(a) \/ StepFails(a) \/ TempAges(a)
    \/ Crash \/ Tick
    \/ \E f \in Files : BackupExpires(f)

\* A lease's holder is gone sooner or later, time passes, and operations run.
Fairness ==
    /\ WF_vars(Tick)
    /\ \A a \in Actors :
         WF_vars(LeaseRefused(a) \/ AcquireBackupLease(a) \/ ReadSchedule(a) \/ CreateTemp(a)
                 \/ CommitBackupFile(a) \/ CreateBackup(a) \/ RecordStatus(a) \/ BackupFails(a)
                 \/ ApplyRetention(a) \/ RunBackupReturns(a) \/ RestoreBackup(a) \/ DeleteBackup(a)
                 \/ BackupNotFound(a) \/ Lock(a) \/ Install(a) \/ DisableUnits(a)
                 \/ SaveBackupSchedule(a) \/ SaveFails(a) \/ DeleteService(a))

Spec == Init /\ [][Next]_vars /\ Fairness
-----------------------------------------------------------------------------
(* Properties *)

InLease(a) == Live(a) /\ op[a].at # "lease"

\* Two operations of a service never overlap, although a lease expires by the
\* clock and not by its holder's end: the deadline ends the holder first.
LeaseExcludes == \A a, b \in Actors : InLease(a) /\ InLease(b) => a = b

\* A backup that still exists never loses its record, whichever step of a
\* deletion or of the retention fails or is the last before a crash.
RecordsNotLost == ~gone => \A f \in files : f \in recorded => f \in records

\* A dump is recorded unless its process died: no failing step leaves a file
\* nothing refers to.
NothingUnrecorded ==
    \A f \in files : f \in recorded \/ gone \/ \E a \in Actors : op[a].f = f /\ op[a].at = "record"

\* Retention never removes a file that is not expired; only a deletion asked
\* for by the user does.
OnlyExpiredRemoved ==
    [][\A f \in removed' \ removed :
          f \in expired \/ \E a \in Actors : op[a].kind = "delete" /\ op[a].f = f]_vars

\* A schedule that is shown enabled has its timer, also when a backup that
\* started before an edit of the schedule records its status after it.
EnabledIsTimed == row.enabled => timer \/ \E a \in Actors : mu = a /\ op[a].kind \in {"off", "teardown"}

\* A scheduled run past its check works for a schedule that is enabled: a
\* timer that is switched off takes the run it started with it.
ScheduledOnlyWhenEnabled ==
    \A a \in Actors : op[a].kind = "scheduled" /\ op[a].at \notin {"lease", "start"} => row.enabled

\* The job a request is answered with ends complete only if what was asked
\* for was done.
\* The code does not keep this: README, "Disagreements".
RestoreDone ==
    \A a \in Actors : op[a].at = "complete" /\ op[a].asked = "restore" => a \in restored

=============================================================================
