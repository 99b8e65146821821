----------------------------- MODULE TrackedJobs -----------------------------
(***************************************************************************)
(* The process-local job system behind the asynchronous HTTP operations.   *)
(* internal/handler/tracked_jobs.go owns admission (one worker per key, a  *)
(* bounded number of workers, nothing after shutdown), release and         *)
(* draining.  The job stores keep the records the status pages show; two   *)
(* of them are modelled, one for each order of the two steps:              *)
(*   - service actions (service_action_job.go, and the same code in the    *)
(*     API run, backup, delete, ... stores) record the job first and ask   *)
(*     the runtime for a worker afterwards;                                *)
(*   - management operations (management_api.go) lease a worker first and  *)
(*     record the job afterwards, in a store of limited size.              *)
(* A critical section of the runtime's mutex or of a store's mutex is one  *)
(* action.  The name of the operation is left out: a request that finds a  *)
(* running record starts nothing, whether it joins it (same operation) or  *)
(* is answered ErrServiceActionBusy (another one).                         *)
(***************************************************************************)
EXTENDS Integers, FiniteSets

CONSTANTS Requests,     \* HTTP requests; a request's job has its identity
          Services,     \* the services of the applications
          Callers,      \* callers of Handler.Shutdown (main calls it twice)
          Capacity,     \* maxWorkers, 8
          MaxRetained,  \* the limit of the management store, 1024
          None          \* "no key yet"

ASSUME RequestsFinite == IsFiniteSet(Requests)
ASSUME KeysDiffer ==
    /\ Services \cap Requests = {}
    /\ None \notin Services \cup Requests
ASSUME LimitsNat == Capacity \in Nat \ {0} /\ MaxRetained \in Nat \ {0}

VARIABLES closed,    \* r.closed; r.ctx is cancelled with it
          running,   \* r.running
          slots,     \* len(r.slots)
          workers,   \* the counter of r.workers
          pc,        \* request -> where its handler or its worker is
          key,       \* request -> the key of its job
          state,     \* request -> the state in its job record
          finished,  \* request -> finishedAt: zero, recent, past the retention
          listed,    \* the requests whose record is in its store's map
          shut       \* caller -> where it is in shutdown

vars == <<closed, running, slots, workers, pc, key, state, finished, listed, shut>>

\* Service actions are keyed by their service, management operations by their
\* own random identifier.
Keys == Services \cup Requests
Managed(j) == key[j] = j

PcValues == {"idle", "created", "leased", "expired", "cancelling",
             "working", "settled", "released", "done"}

TypeOK ==
    /\ closed \in BOOLEAN
    /\ running \in SUBSET Keys
    /\ slots \in Nat
    /\ workers \in Nat
    /\ pc \in [Requests -> PcValues]
    /\ key \in [Requests -> Keys \cup {None}]
    /\ state \in [Requests -> {"none", "running", "complete", "failed"}]
    /\ finished \in [Requests -> {"zero", "recent", "past"}]
    /\ listed \in SUBSET Requests
    /\ shut \in [Callers -> {"idle", "waiting", "drained", "deadline"}]

Init ==
    /\ closed = FALSE
    /\ running = {}
    /\ slots = 0
    /\ workers = 0
    /\ pc = [j \in Requests |-> "idle"]
    /\ key = [j \in Requests |-> None]
    /\ state = [j \in Requests |-> "none"]
    /\ finished = [j \in Requests |-> "zero"]
    /\ listed = {}
    /\ shut = [c \in Callers |-> "idle"]

-----------------------------------------------------------------------------
(* The runtime: admission and release.                                     *)

\* Mutant: acquire lost the check for a running worker of the same key.
AdmitsDuplicate(k) == ~closed /\ slots < Capacity

\* Mutant: one worker too many.
AdmitsOneMore(k) == ~closed /\ k \notin running /\ slots <= Capacity

\* acquire's early returns: closed, duplicate, at capacity.
Admits(k) == ~closed /\ k \notin running /\ slots < Capacity

\* acquire: the token, the key and the wait group in one critical section.
Acquire(k) ==
    /\ Admits(k)
    /\ slots' = slots + 1
    /\ running' = running \cup {k}
    /\ workers' = workers + 1

Runtime == <<closed, running, slots, workers>>
Records == <<key, state, finished, listed>>

\* release, once per lease: the key and the token go under the mutex.
Release(j) ==
    /\ pc[j] \in {"settled", "cancelling"}
    /\ running' = running \ {key[j]}
    /\ slots' = slots - 1
    /\ pc' = [pc EXCEPT ![j] = "released"]
    /\ UNCHANGED <<closed, workers, Records, shut>>

\* ... and r.workers.Done follows after the mutex is unlocked.
Done(j) ==
    /\ pc[j] = "released"
    /\ workers' = workers - 1
    /\ pc' = [pc EXCEPT ![j] = "done"]
    /\ UNCHANGED <<closed, running, slots, Records, shut>>

\* The run function returns, by itself or because its context timed out or
\* was cancelled by shutdown; its last act is job.complete or job.fail.
Settle(j) ==
    /\ pc[j] = "working"
    /\ \E outcome \in {"complete", "failed"} :
         state' = [state EXCEPT ![j] = outcome]
    /\ finished' = [finished EXCEPT ![j] = "recent"]
    /\ pc' = [pc EXCEPT ![j] = "settled"]
    /\ UNCHANGED <<Runtime, key, listed, shut>>

-----------------------------------------------------------------------------
(* The stores: retention.                                                  *)

\* Mutant: a record without a finishing time counts as old.
PastOrUnfinished(j) == finished[j] # "recent"

\* !finishedAt.IsZero() && now.Sub(finishedAt) > retention.
PastRetention(j) == finished[j] = "past"

\* The records of the service-action or of the management store to delete.
Expirable(managed) ==
    {j \in listed : Managed(j) = managed /\ PastRetention(j)}

\* An hour passes since the job finished.
Age(j) ==
    /\ finished[j] = "recent"
    /\ finished' = [finished EXCEPT ![j] = "past"]
    /\ UNCHANGED <<Runtime, pc, key, state, listed, shut>>

\* One store's expire, from expiryLoop's tick (a tick that is ready together
\* with ctx.Done may still be taken after shutdown) or, for the management
\* store, from a status request.
Expire(managed) ==
    /\ listed' = listed \ Expirable(managed)
    /\ UNCHANGED <<Runtime, pc, key, state, finished, shut>>

\* get: a status page asks for one job and drops it when it is too old.
Get(j) ==
    /\ j \in Expirable(FALSE)
    /\ listed' = listed \ {j}
    /\ UNCHANGED <<Runtime, pc, key, state, finished, shut>>

-----------------------------------------------------------------------------
(* A service action: record, then worker.                                  *)

RunningRecords(s) == {i \in listed : key[i] = s /\ state[i] = "running"}

\* createUnique adds a record when the service has no running one; its loop
\* has then visited, and expired, every old record.
CreateUnique(j, s) ==
    /\ pc[j] = "idle"
    /\ RunningRecords(s) = {}
    /\ key' = [key EXCEPT ![j] = s]
    /\ state' = [state EXCEPT ![j] = "running"]
    /\ listed' = (listed \ Expirable(FALSE)) \cup {j}
    /\ pc' = [pc EXCEPT ![j] = "created"]
    /\ UNCHANGED <<Runtime, finished, shut>>

\* createUnique meets a running record, after it expired some of the others:
\* the map is visited in no particular order.
FindRunning(j, s) ==
    /\ pc[j] = "idle"
    /\ RunningRecords(s) # {}
    /\ \E visited \in SUBSET Expirable(FALSE) : listed' = listed \ visited
    /\ pc' = [pc EXCEPT ![j] = "done"]
    /\ UNCHANGED <<Runtime, key, state, finished, shut>>

\* startTrackedJob succeeds and the worker's goroutine is on its way.
StartTrackedJob(j) ==
    /\ pc[j] = "created"
    /\ Acquire(key[j])
    /\ pc' = [pc EXCEPT ![j] = "working"]
    /\ UNCHANGED <<closed, Records, shut>>

\* Mutant: the handler answers the admission error and forgets the record.
RejectedUnsettled(j) ==
    /\ pc[j] = "created"
    /\ ~Admits(key[j])
    /\ pc' = [pc EXCEPT ![j] = "done"]
    /\ UNCHANGED <<Runtime, Records, shut>>

\* startTrackedJob fails: job.fail(err), and the request is answered 503.
Rejected(j) ==
    /\ pc[j] = "created"
    /\ ~Admits(key[j])
    /\ state' = [state EXCEPT ![j] = "failed"]
    /\ finished' = [finished EXCEPT ![j] = "recent"]
    /\ pc' = [pc EXCEPT ![j] = "done"]
    /\ UNCHANGED <<Runtime, key, listed, shut>>

-----------------------------------------------------------------------------
(* A management operation: worker, then record.                            *)

ManagementAcquire(j) ==
    /\ pc[j] = "idle"
    /\ Acquire(j)
    /\ key' = [key EXCEPT ![j] = j]
    /\ pc' = [pc EXCEPT ![j] = "leased"]
    /\ UNCHANGED <<closed, state, finished, listed, shut>>

\* The operation system is busy: 503 before anything is recorded.
ManagementBusy(j) ==
    /\ pc[j] = "idle"
    /\ ~Admits(j)
    /\ pc' = [pc EXCEPT ![j] = "done"]
    /\ UNCHANGED <<Runtime, Records, shut>>

ManagementExpire(j) ==
    /\ pc[j] = "leased"
    /\ listed' = listed \ Expirable(TRUE)
    /\ pc' = [pc EXCEPT ![j] = "expired"]
    /\ UNCHANGED <<Runtime, key, state, finished, shut>>

Retained == Cardinality({i \in listed : Managed(i)})

\* Mutant: the limit is compared one too late.
HasRoomAtLimit == Retained <= MaxRetained

HasRoom == Retained < MaxRetained

\* The record is stored and lease.start launches the worker.
ManagementRecord(j) ==
    /\ pc[j] = "expired"
    /\ HasRoom
    /\ state' = [state EXCEPT ![j] = "running"]
    /\ listed' = listed \cup {j}
    /\ pc' = [pc EXCEPT ![j] = "working"]
    /\ UNCHANGED <<Runtime, key, finished, shut>>

\* The store is full: lease.cancel, which releases the lease like a worker.
ManagementFull(j) ==
    /\ pc[j] = "expired"
    /\ ~HasRoom
    /\ pc' = [pc EXCEPT ![j] = "cancelling"]
    /\ UNCHANGED <<Runtime, Records, shut>>

-----------------------------------------------------------------------------
(* Shutdown.                                                               *)

Shutdown(c) ==
    /\ shut[c] = "idle"
    /\ closed' = TRUE
    /\ shut' = [shut EXCEPT ![c] = "waiting"]
    /\ UNCHANGED <<running, slots, workers, pc, Records>>

\* Mutant: shutdown waits for the tokens to come back, not for the workers.
WaitForSlots(c) ==
    /\ shut[c] = "waiting"
    /\ slots = 0
    /\ shut' = [shut EXCEPT ![c] = "drained"]
    /\ UNCHANGED <<Runtime, pc, Records>>

\* workers.Wait returns and so does shutdown, with nil.
Wait(c) ==
    /\ shut[c] = "waiting"
    /\ workers = 0
    /\ shut' = [shut EXCEPT ![c] = "drained"]
    /\ UNCHANGED <<Runtime, pc, Records>>

\* The caller's deadline comes first: ctx.Err().
Deadline(c) ==
    /\ shut[c] = "waiting"
    /\ shut' = [shut EXCEPT ![c] = "deadline"]
    /\ UNCHANGED <<Runtime, pc, Records>>

-----------------------------------------------------------------------------
RequestStep(j) ==
    \/ \E s \in Services : CreateUnique(j, s) \/ FindRunning(j, s)
    \/ StartTrackedJob(j) \/ Rejected(j)
    \/ ManagementAcquire(j) \/ ManagementBusy(j)
    \/ ManagementExpire(j) \/ ManagementRecord(j) \/ ManagementFull(j)
    \/ Settle(j) \/ Release(j) \/ Done(j)
    \/ Age(j) \/ Get(j)

Next ==
    \/ \E j \in Requests : RequestStep(j)
    \/ \E managed \in BOOLEAN : Expire(managed)
    \/ \E c \in Callers : Shutdown(c) \/ Wait(c) \/ Deadline(c)

Spec == Init /\ [][Next]_vars

\* Handlers and workers run.  A run function returns because its context has
\* a deadline (15 minutes by default) that its Docker commands obey.  Nobody
\* is obliged to send a request or to shut down, and time need not pass.
Fairness ==
    \A j \in Requests :
        /\ WF_vars(StartTrackedJob(j) \/ Rejected(j))
        /\ WF_vars(ManagementExpire(j))
        /\ WF_vars(ManagementRecord(j) \/ ManagementFull(j))
        /\ WF_vars(Settle(j))
        /\ WF_vars(Release(j))
        /\ WF_vars(Done(j))

FairSpec == Spec /\ Fairness

-----------------------------------------------------------------------------
\* The requests that hold a lease, and those the wait group counts.
Leasing == {"leased", "expired", "cancelling", "working", "settled"}
Leases == {j \in Requests : pc[j] \in Leasing}
Counted == {j \in Requests : pc[j] \in Leasing \cup {"released"}}

\* Two workers never run for the same key, although the record of a finished
\* job stops blocking new ones before the worker has given its key back.
OneWorkerPerKey ==
    \A i, j \in Leases : key[i] = key[j] => i = j

\* The key set, the tokens and the wait group all count the same leases, and
\* there are never more than the channel has room for.
AccountsBalance ==
    /\ running = {key[j] : j \in Leases}
    /\ slots = Cardinality(Leases)
    /\ workers = Cardinality(Counted)
    /\ slots <= Capacity

\* Once a shutdown has returned nil, no worker runs and none is on its way
\* out: what main closes next (SQLite) is not in use.
QuietAfterShutdown ==
    (\E c \in Callers : shut[c] = "drained") => Counted = {}

\* A record says "running" exactly while its handler or its worker is still
\* at it, it is then found by every request for the service, and a service
\* has at most one: no admission error, no expiry and no late worker leaves a
\* service blocked for ever or lets a second action in.
RecordMirrorsWorker ==
    /\ \A j \in Requests : state[j] = "running" <=> pc[j] \in {"created", "working"}
    /\ \A j \in Requests : state[j] = "running" => j \in listed
    /\ \A i, j \in Requests :
         state[i] = "running" /\ state[j] = "running" /\ key[i] = key[j] => i = j

\* The management store never holds more records than its limit, whatever
\* leases are granted while it is full.
RetentionBounded == Retained <= MaxRetained

\* The strengthening that makes these invariants inductive: which key a job
\* has at each point, that only finished jobs have a finishing time, that a
\* request has no record before it creates one, and that only a closed
\* runtime is waited for.
KeyMatchesPc ==
    \A j \in Requests :
        /\ key[j] \in Services \cup {j, None}
        /\ pc[j] = "created" => key[j] \in Services
        /\ pc[j] \in Leasing => key[j] # None
        /\ pc[j] \in {"leased", "expired"} => key[j] = j
        /\ pc[j] = "idle" => key[j] = None
UnfinishedHasNoTime ==
    \A j \in Requests :
        /\ pc[j] \in {"idle", "created", "leased", "expired", "working"} => finished[j] = "zero"
        /\ pc[j] \in {"idle", "leased", "expired"} => j \notin listed
ShutdownClosed == \A c \in Callers : shut[c] # "idle" => closed

IInv ==
    /\ TypeOK /\ KeyMatchesPc /\ UnfinishedHasNoTime /\ ShutdownClosed
    /\ OneWorkerPerKey /\ AccountsBalance /\ QuietAfterShutdown
    /\ RecordMirrorsWorker /\ RetentionBounded

=============================================================================
