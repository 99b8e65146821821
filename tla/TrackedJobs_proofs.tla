------------------------- MODULE TrackedJobs_proofs -------------------------
(***************************************************************************)
(* Proofs about the job system, for any finite set of requests, any        *)
(* services and callers of Shutdown, and any limits.                       *)
(***************************************************************************)
EXTENDS TrackedJobs, FiniteSetTheorems, TLAPS

\* Leases, counted workers and records are finitely many.
LEMMA SetsFinite ==
    /\ IsFiniteSet(Leases) /\ Cardinality(Leases) \in Nat
    /\ IsFiniteSet(Counted) /\ Cardinality(Counted) \in Nat
  <1>1. Leases \in SUBSET Requests /\ Counted \in SUBSET Requests
    BY DEF Leases, Counted
  <1>2. IsFiniteSet(Leases) /\ IsFiniteSet(Counted)
    BY <1>1, RequestsFinite, FS_Subset
  <1> QED  BY <1>2, FS_CardinalityType

LEMMA InitIInv == Init => IInv
  <1> SUFFICES ASSUME Init PROVE IInv
    OBVIOUS
  <1>1. TypeOK /\ KeyMatchesPc /\ UnfinishedHasNoTime /\ ShutdownClosed
    BY DEF Init, TypeOK, PcValues, Keys, KeyMatchesPc, UnfinishedHasNoTime,
           ShutdownClosed, Leasing
  <1>2. Leases = {} /\ Counted = {} /\ {i \in listed : Managed(i)} = {}
    BY DEF Init, Leases, Counted, Leasing
  <1>3. Cardinality({}) = 0
    BY FS_EmptySet
  <1>4. OneWorkerPerKey /\ AccountsBalance /\ QuietAfterShutdown
    BY <1>2, <1>3, LimitsNat DEF Init, OneWorkerPerKey, AccountsBalance, QuietAfterShutdown
  <1>5. RecordMirrorsWorker /\ RetentionBounded
    BY <1>2, <1>3, LimitsNat DEF Init, RecordMirrorsWorker, RetentionBounded, Retained
  <1> QED  BY <1>1, <1>4, <1>5 DEF IInv

\* A step that moves one request between two points on the same side of the
\* lease's life changes neither set.
LEMMA SameSide ==
    ASSUME TypeOK, NEW j \in Requests, NEW n, pc' = [pc EXCEPT ![j] = n],
           pc[j] \in Leasing <=> n \in Leasing,
           pc[j] # "released", n # "released"
    PROVE  Leases' = Leases /\ Counted' = Counted
  <1>1. \A i \in Requests : pc'[i] = IF i = j THEN n ELSE pc[i]
    BY DEF TypeOK
  <1> QED  BY <1>1 DEF Leases, Counted

\* What acquire does to the accounts, for a request that held no lease.
LEMMA AcquireBalances ==
    ASSUME IInv, NEW j \in Requests, NEW k \in Keys, NEW n \in Leasing,
           pc[j] \in {"idle", "created"}, pc' = [pc EXCEPT ![j] = n],
           key' = [key EXCEPT ![j] = k], Acquire(k), closed' = closed, shut' = shut
    PROVE  /\ slots' \in Nat /\ workers' \in Nat /\ running' \in SUBSET Keys
           /\ OneWorkerPerKey' /\ AccountsBalance' /\ QuietAfterShutdown'
  <1> USE DEF IInv
  <1>1. /\ j \notin Leases /\ j \notin Counted
        /\ Leases' = Leases \cup {j} /\ Counted' = Counted \cup {j}
    <2>1. \A i \in Requests : pc'[i] = IF i = j THEN n ELSE pc[i]
      BY DEF TypeOK
    <2> QED  BY <2>1 DEF Leases, Counted, Leasing
  <1>2. /\ Cardinality(Leases') = Cardinality(Leases) + 1
        /\ Cardinality(Counted') = Cardinality(Counted) + 1
    BY <1>1, SetsFinite, FS_AddElement
  <1>3. \A i \in Requests : key'[i] = IF i = j THEN k ELSE key[i]
    BY DEF TypeOK
  <1>4. /\ slots' = slots + 1 /\ running' = running \cup {k}
        /\ workers' = workers + 1 /\ ~closed /\ k \notin running /\ slots < Capacity
    BY DEF Acquire, Admits
  <1>5. Leases \in SUBSET Requests
    BY DEF Leases
  <1>6. running' = {key'[i] : i \in Leases'}
    BY <1>1, <1>3, <1>4, <1>5 DEF AccountsBalance
  <1>7. AccountsBalance'
    BY <1>2, <1>4, <1>6, LimitsNat DEF AccountsBalance, TypeOK
  <1>8. OneWorkerPerKey'
    <2>1. \A i \in Leases : key[i] # k
      BY <1>4 DEF AccountsBalance
    <2> QED  BY <1>1, <1>3, <1>5, <2>1 DEF OneWorkerPerKey
  <1>9. QuietAfterShutdown'
    BY <1>4 DEF QuietAfterShutdown, ShutdownClosed
  <1> QED  BY <1>4, <1>7, <1>8, <1>9 DEF TypeOK

\* The requests' steps that touch neither the runtime nor the lease sets keep
\* the accounts as they are.
LEMMA AccountsKept ==
    ASSUME IInv, Leases' = Leases, Counted' = Counted,
           \A i \in Leases : key'[i] = key[i],
           running' = running, slots' = slots, workers' = workers, shut' = shut
    PROVE  OneWorkerPerKey' /\ AccountsBalance' /\ QuietAfterShutdown'
  <1>1. {key'[i] : i \in Leases'} = {key[i] : i \in Leases}
    OBVIOUS
  <1> QED  BY <1>1 DEF IInv, OneWorkerPerKey, AccountsBalance, QuietAfterShutdown

\* Deleting records, or adding one that is not a management job, keeps the
\* management store within its limit.
LEMMA RetentionKept ==
    ASSUME IInv, \A i \in listed' : key'[i] = i => i \in listed /\ key[i] = i
    PROVE  RetentionBounded'
  <1> DEFINE M == {i \in listed : Managed(i)}
  <1>1. {i \in listed : Managed(i)}' \subseteq M
    BY DEF Managed
  <1>2. IsFiniteSet(M)
    <2>1. M \in SUBSET Requests  BY DEF IInv, TypeOK
    <2> QED  BY <2>1, RequestsFinite, FS_Subset
  <1>3. Cardinality({i \in listed : Managed(i)}') <= Cardinality(M)
    BY <1>1, <1>2, FS_Subset
  <1>4. Cardinality(M) \in Nat /\ Cardinality({i \in listed : Managed(i)}') \in Nat
    BY <1>1, <1>2, FS_Subset, FS_CardinalityType
  <1> QED  BY <1>3, <1>4, LimitsNat DEF IInv, RetentionBounded, Retained

\* The steps of a service action up to its worker.
LEMMA ServiceIInv ==
    ASSUME IInv, NEW j \in Requests, NEW s \in Services,
           CreateUnique(j, s) \/ FindRunning(j, s) \/ StartTrackedJob(j) \/ Rejected(j)
    PROVE  IInv'
  <1> USE DEF IInv
  <1>1. CASE CreateUnique(j, s)
    <2>1. Leases' = Leases /\ Counted' = Counted
      BY <1>1, SameSide DEF CreateUnique, Leasing
    <2>2. OneWorkerPerKey' /\ AccountsBalance' /\ QuietAfterShutdown'
      BY <1>1, <2>1, AccountsKept DEF CreateUnique, Runtime, Leases, Leasing, TypeOK
    <2>3. RetentionBounded'
      BY <1>1, RetentionKept, KeysDiffer DEF CreateUnique, TypeOK
    <2>4. TypeOK' /\ KeyMatchesPc' /\ ShutdownClosed'
      BY <1>1 DEF CreateUnique, Runtime, TypeOK, PcValues, Keys, KeyMatchesPc,
                  Leasing, ShutdownClosed
    <2>5. UnfinishedHasNoTime'
      BY <1>1 DEF CreateUnique, UnfinishedHasNoTime, TypeOK
    <2>6. RecordMirrorsWorker'
      BY <1>1 DEF CreateUnique, RecordMirrorsWorker, RunningRecords, Expirable,
                  PastRetention, UnfinishedHasNoTime, TypeOK
    <2> QED  BY <2>2, <2>3, <2>4, <2>5, <2>6
  <1>2. CASE FindRunning(j, s)
    <2>1. Leases' = Leases /\ Counted' = Counted
      BY <1>2, SameSide DEF FindRunning, Leasing
    <2>2. OneWorkerPerKey' /\ AccountsBalance' /\ QuietAfterShutdown'
      BY <1>2, <2>1, AccountsKept DEF FindRunning, Runtime
    <2>3. RetentionBounded'
      BY <1>2, RetentionKept DEF FindRunning
    <2>4. TypeOK' /\ KeyMatchesPc' /\ ShutdownClosed' /\ UnfinishedHasNoTime'
      BY <1>2 DEF FindRunning, Runtime, TypeOK, PcValues, Keys, KeyMatchesPc,
                  Leasing, ShutdownClosed, UnfinishedHasNoTime
    <2>5. RecordMirrorsWorker'
      BY <1>2 DEF FindRunning, RecordMirrorsWorker, Expirable, PastRetention,
                  UnfinishedHasNoTime, TypeOK
    <2> QED  BY <2>2, <2>3, <2>4, <2>5
  <1>3. CASE StartTrackedJob(j)
    <2>1. key[j] \in Keys /\ key' = [key EXCEPT ![j] = key[j]]
      BY <1>3 DEF StartTrackedJob, Records, KeyMatchesPc, Keys, TypeOK
    <2>2. /\ slots' \in Nat /\ workers' \in Nat /\ running' \in SUBSET Keys
          /\ OneWorkerPerKey' /\ AccountsBalance' /\ QuietAfterShutdown'
      BY <1>3, <2>1, AcquireBalances DEF StartTrackedJob, Leasing
    <2>3. RetentionBounded'
      BY <1>3, RetentionKept DEF StartTrackedJob, Records
    <2>4. TypeOK' /\ KeyMatchesPc' /\ ShutdownClosed' /\ UnfinishedHasNoTime'
      BY <1>3, <2>2, KeysDiffer
      DEF StartTrackedJob, Records, TypeOK, PcValues, KeyMatchesPc, Leasing,
          ShutdownClosed, UnfinishedHasNoTime
    <2>5. RecordMirrorsWorker'
      BY <1>3 DEF StartTrackedJob, Records, RecordMirrorsWorker, TypeOK
    <2> QED  BY <2>2, <2>3, <2>4, <2>5
  <1>4. CASE Rejected(j)
    <2>1. Leases' = Leases /\ Counted' = Counted
      BY <1>4, SameSide DEF Rejected, Leasing
    <2>2. OneWorkerPerKey' /\ AccountsBalance' /\ QuietAfterShutdown'
      BY <1>4, <2>1, AccountsKept DEF Rejected, Runtime
    <2>3. RetentionBounded'
      BY <1>4, RetentionKept DEF Rejected
    <2>4. TypeOK' /\ KeyMatchesPc' /\ ShutdownClosed' /\ UnfinishedHasNoTime'
      BY <1>4 DEF Rejected, Runtime, TypeOK, PcValues, KeyMatchesPc,
                  Leasing, ShutdownClosed, UnfinishedHasNoTime
    <2>5. RecordMirrorsWorker'
      BY <1>4 DEF Rejected, RecordMirrorsWorker, TypeOK
    <2> QED  BY <2>2, <2>3, <2>4, <2>5
  <1> QED  BY <1>1, <1>2, <1>3, <1>4

\* The steps of a management operation up to its worker.
LEMMA ManagementIInv ==
    ASSUME IInv, NEW j \in Requests,
           \/ ManagementAcquire(j) \/ ManagementBusy(j) \/ ManagementExpire(j)
           \/ ManagementRecord(j) \/ ManagementFull(j)
    PROVE  IInv'
  <1> USE DEF IInv
  <1>1. CASE ManagementAcquire(j)
    <2>1. j \in Keys  BY DEF Keys
    <2>2. /\ slots' \in Nat /\ workers' \in Nat /\ running' \in SUBSET Keys
          /\ OneWorkerPerKey' /\ AccountsBalance' /\ QuietAfterShutdown'
      BY <1>1, <2>1, AcquireBalances DEF ManagementAcquire, Leasing
    <2>3. RetentionBounded'
      BY <1>1, RetentionKept DEF ManagementAcquire, UnfinishedHasNoTime, TypeOK
    <2>4. TypeOK' /\ KeyMatchesPc' /\ ShutdownClosed' /\ UnfinishedHasNoTime'
      BY <1>1, <2>1, <2>2, KeysDiffer
      DEF ManagementAcquire, TypeOK, PcValues, KeyMatchesPc, Leasing,
          ShutdownClosed, UnfinishedHasNoTime
    <2>5. RecordMirrorsWorker'
      BY <1>1 DEF ManagementAcquire, RecordMirrorsWorker, TypeOK
    <2> QED  BY <2>2, <2>3, <2>4, <2>5
  <1>2. CASE ManagementBusy(j)
    <2>1. Leases' = Leases /\ Counted' = Counted
      BY <1>2, SameSide DEF ManagementBusy, Leasing
    <2>2. OneWorkerPerKey' /\ AccountsBalance' /\ QuietAfterShutdown'
      BY <1>2, <2>1, AccountsKept DEF ManagementBusy, Runtime, Records
    <2>3. RetentionBounded'
      BY <1>2, RetentionKept DEF ManagementBusy, Records
    <2>4. TypeOK' /\ KeyMatchesPc' /\ ShutdownClosed' /\ UnfinishedHasNoTime'
      BY <1>2 DEF ManagementBusy, Runtime, Records, TypeOK, PcValues, KeyMatchesPc,
                  Leasing, ShutdownClosed, UnfinishedHasNoTime
    <2>5. RecordMirrorsWorker'
      BY <1>2 DEF ManagementBusy, Records, RecordMirrorsWorker, TypeOK
    <2> QED  BY <2>2, <2>3, <2>4, <2>5
  <1>3. CASE ManagementExpire(j)
    <2>1. Leases' = Leases /\ Counted' = Counted
      BY <1>3, SameSide DEF ManagementExpire, Leasing
    <2>2. OneWorkerPerKey' /\ AccountsBalance' /\ QuietAfterShutdown'
      BY <1>3, <2>1, AccountsKept DEF ManagementExpire, Runtime
    <2>3. RetentionBounded'
      BY <1>3, RetentionKept DEF ManagementExpire
    <2>4. TypeOK' /\ KeyMatchesPc' /\ ShutdownClosed' /\ UnfinishedHasNoTime'
      BY <1>3 DEF ManagementExpire, Runtime, TypeOK, PcValues, KeyMatchesPc,
                  Leasing, ShutdownClosed, UnfinishedHasNoTime
    <2>5. RecordMirrorsWorker'
      BY <1>3 DEF ManagementExpire, RecordMirrorsWorker, Expirable, PastRetention,
                  UnfinishedHasNoTime, TypeOK
    <2> QED  BY <2>2, <2>3, <2>4, <2>5
  <1>4. CASE ManagementRecord(j)
    <2>1. Leases' = Leases /\ Counted' = Counted
      BY <1>4, SameSide DEF ManagementRecord, Leasing
    <2>2. OneWorkerPerKey' /\ AccountsBalance' /\ QuietAfterShutdown'
      BY <1>4, <2>1, AccountsKept DEF ManagementRecord, Runtime
    <2>3. RetentionBounded'
      <3>1. PICK M : M = {i \in listed : Managed(i)}
        OBVIOUS
      <3>2. {i \in listed : Managed(i)}' = M \cup {j} /\ j \notin M
        BY <1>4, <3>1 DEF ManagementRecord, Managed, KeyMatchesPc, UnfinishedHasNoTime
      <3>3. IsFiniteSet(M)
        <4>1. M \in SUBSET Requests  BY <3>1 DEF TypeOK
        <4> QED  BY <4>1, RequestsFinite, FS_Subset
      <3>4. Cardinality(M \cup {j}) = Cardinality(M) + 1 /\ Cardinality(M) \in Nat
        BY <3>2, <3>3, FS_AddElement, FS_CardinalityType
      <3>5. Cardinality(M) < MaxRetained
        BY <1>4, <3>1 DEF ManagementRecord, HasRoom, Retained
      <3> QED  BY <3>2, <3>4, <3>5, LimitsNat DEF RetentionBounded, Retained
    <2>4. TypeOK' /\ KeyMatchesPc' /\ ShutdownClosed' /\ UnfinishedHasNoTime'
      BY <1>4 DEF ManagementRecord, Runtime, TypeOK, PcValues, KeyMatchesPc,
                  Leasing, ShutdownClosed, UnfinishedHasNoTime
    <2>5. RecordMirrorsWorker'
      <3>1. \A i \in Requests : key[i] = j => i = j
        BY KeysDiffer DEF KeyMatchesPc
      <3>2. key[j] = j
        BY <1>4 DEF ManagementRecord, KeyMatchesPc
      <3> QED  BY <1>4, <3>1, <3>2 DEF ManagementRecord, RecordMirrorsWorker, TypeOK
    <2> QED  BY <2>2, <2>3, <2>4, <2>5
  <1>5. CASE ManagementFull(j)
    <2>1. Leases' = Leases /\ Counted' = Counted
      BY <1>5, SameSide DEF ManagementFull, Leasing
    <2>2. OneWorkerPerKey' /\ AccountsBalance' /\ QuietAfterShutdown'
      BY <1>5, <2>1, AccountsKept DEF ManagementFull, Runtime, Records
    <2>3. RetentionBounded'
      BY <1>5, RetentionKept DEF ManagementFull, Records
    <2>4. TypeOK' /\ KeyMatchesPc' /\ ShutdownClosed' /\ UnfinishedHasNoTime'
      BY <1>5 DEF ManagementFull, Runtime, Records, TypeOK, PcValues, KeyMatchesPc,
                  Leasing, ShutdownClosed, UnfinishedHasNoTime
    <2>5. RecordMirrorsWorker'
      BY <1>5 DEF ManagementFull, Records, RecordMirrorsWorker, TypeOK
    <2> QED  BY <2>2, <2>3, <2>4, <2>5
  <1> QED  BY <1>1, <1>2, <1>3, <1>4, <1>5

\* The end of a worker: its record, its key and token, its count.
LEMMA WorkerIInv ==
    ASSUME IInv, NEW j \in Requests, Settle(j) \/ Release(j) \/ Done(j)
    PROVE  IInv'
  <1> USE DEF IInv
  <1>1. CASE Settle(j)
    <2>1. Leases' = Leases /\ Counted' = Counted
      BY <1>1, SameSide DEF Settle, Leasing
    <2>2. OneWorkerPerKey' /\ AccountsBalance' /\ QuietAfterShutdown'
      BY <1>1, <2>1, AccountsKept DEF Settle, Runtime
    <2>3. RetentionBounded'
      BY <1>1, RetentionKept DEF Settle
    <2>4. TypeOK' /\ KeyMatchesPc' /\ ShutdownClosed' /\ UnfinishedHasNoTime'
      BY <1>1 DEF Settle, Runtime, TypeOK, PcValues, KeyMatchesPc,
                  Leasing, ShutdownClosed, UnfinishedHasNoTime
    <2>5. RecordMirrorsWorker'
      BY <1>1 DEF Settle, RecordMirrorsWorker, TypeOK
    <2> QED  BY <2>2, <2>3, <2>4, <2>5
  <1>2. CASE Release(j)
    <2>1. \A i \in Requests : pc'[i] = IF i = j THEN "released" ELSE pc[i]
      BY <1>2 DEF Release, TypeOK
    <2>2. Leases' = Leases \ {j} /\ j \in Leases /\ Counted' = Counted
      BY <1>2, <2>1 DEF Release, Leases, Counted, Leasing
    <2>3. Cardinality(Leases') = Cardinality(Leases) - 1 /\ Cardinality(Leases') \in Nat
      <3>1. Cardinality(Leases \ {j}) = Cardinality(Leases) - 1 /\ IsFiniteSet(Leases \ {j})
        BY <2>2, SetsFinite, FS_RemoveElement
      <3> QED  BY <2>2, <3>1, FS_CardinalityType
    <2>4. running' = running \ {key[j]} /\ slots' = slots - 1 /\ key' = key
          /\ workers' = workers /\ shut' = shut /\ closed' = closed
      BY <1>2 DEF Release, Records
    <2>5. running' = {key'[i] : i \in Leases'}
      BY <2>2, <2>4 DEF AccountsBalance, OneWorkerPerKey
    <2>6. AccountsBalance' /\ OneWorkerPerKey' /\ QuietAfterShutdown'
      BY <2>2, <2>3, <2>4, <2>5, LimitsNat
      DEF AccountsBalance, OneWorkerPerKey, QuietAfterShutdown, TypeOK
    <2>7. slots' \in Nat
      BY <2>3, <2>4 DEF AccountsBalance
    <2>8. RetentionBounded'
      BY <1>2, RetentionKept DEF Release, Records
    <2>9. TypeOK' /\ KeyMatchesPc' /\ ShutdownClosed' /\ UnfinishedHasNoTime'
      BY <1>2, <2>7 DEF Release, Records, TypeOK, PcValues, KeyMatchesPc,
                  Leasing, ShutdownClosed, UnfinishedHasNoTime
    <2>10. RecordMirrorsWorker'
      BY <1>2 DEF Release, Records, RecordMirrorsWorker, TypeOK
    <2> QED  BY <2>6, <2>8, <2>9, <2>10
  <1>3. CASE Done(j)
    <2>1. \A i \in Requests : pc'[i] = IF i = j THEN "done" ELSE pc[i]
      BY <1>3 DEF Done, TypeOK
    <2>2. Leases' = Leases /\ Counted' = Counted \ {j} /\ j \in Counted
      BY <1>3, <2>1 DEF Done, Leases, Counted, Leasing
    <2>3. Cardinality(Counted') = Cardinality(Counted) - 1 /\ Cardinality(Counted') \in Nat
      <3>1. Cardinality(Counted \ {j}) = Cardinality(Counted) - 1 /\ IsFiniteSet(Counted \ {j})
        BY <2>2, SetsFinite, FS_RemoveElement
      <3> QED  BY <2>2, <3>1, FS_CardinalityType
    <2>4. running' = running /\ slots' = slots /\ key' = key
          /\ workers' = workers - 1 /\ shut' = shut /\ closed' = closed
      BY <1>3 DEF Done, Records
    <2>5. AccountsBalance' /\ OneWorkerPerKey' /\ QuietAfterShutdown' /\ workers' \in Nat
      BY <2>2, <2>3, <2>4
      DEF AccountsBalance, OneWorkerPerKey, QuietAfterShutdown, TypeOK
    <2>6. RetentionBounded'
      BY <1>3, RetentionKept DEF Done, Records
    <2>7. TypeOK' /\ KeyMatchesPc' /\ ShutdownClosed' /\ UnfinishedHasNoTime'
      BY <1>3, <2>5 DEF Done, Records, TypeOK, PcValues, KeyMatchesPc,
                  Leasing, ShutdownClosed, UnfinishedHasNoTime
    <2>8. RecordMirrorsWorker'
      BY <1>3 DEF Done, Records, RecordMirrorsWorker, TypeOK
    <2> QED  BY <2>5, <2>6, <2>7, <2>8
  <1> QED  BY <1>1, <1>2, <1>3

\* Time passes and old records are deleted.
LEMMA RetentionIInv ==
    ASSUME IInv,
           \/ \E j \in Requests : Age(j) \/ Get(j)
           \/ \E managed \in BOOLEAN : Expire(managed)
    PROVE  IInv'
  <1> USE DEF IInv
  <1>1. /\ UNCHANGED <<closed, running, slots, workers, pc, key, state, shut>>
        /\ listed' \in SUBSET listed
        /\ \A i \in listed : finished[i] # "past" => i \in listed'
        /\ finished' \in [Requests -> {"zero", "recent", "past"}]
        /\ \A i \in Requests : finished[i] = "zero" => finished'[i] = "zero"
    BY DEF Age, Get, Expire, Expirable, PastRetention, Runtime, TypeOK
  <1>2. Leases' = Leases /\ Counted' = Counted
    BY <1>1 DEF Leases, Counted
  <1>3. OneWorkerPerKey' /\ AccountsBalance' /\ QuietAfterShutdown'
    BY <1>1, <1>2, AccountsKept
  <1>4. RetentionBounded'
    BY <1>1, RetentionKept
  <1>5. TypeOK' /\ KeyMatchesPc' /\ ShutdownClosed' /\ UnfinishedHasNoTime'
    BY <1>1 DEF TypeOK, KeyMatchesPc, ShutdownClosed, UnfinishedHasNoTime
  <1>6. RecordMirrorsWorker'
    BY <1>1 DEF RecordMirrorsWorker, UnfinishedHasNoTime, TypeOK
  <1> QED  BY <1>3, <1>4, <1>5, <1>6

\* Shutdown closes the runtime first and reports success only when the wait
\* group, which nobody joins any more, is at zero.
LEMMA ShutdownIInv ==
    ASSUME IInv, NEW c \in Callers, Shutdown(c) \/ Wait(c) \/ Deadline(c)
    PROVE  IInv'
  <1> USE DEF IInv
  <1>1. /\ UNCHANGED <<running, slots, workers, pc, key, state, finished, listed>>
        /\ closed' \in BOOLEAN /\ (closed => closed')
        /\ shut' \in [Callers -> {"idle", "waiting", "drained", "deadline"}]
        /\ shut'[c] # "idle" => closed'
        /\ shut'[c] = "drained" => workers = 0 /\ closed
        /\ \A d \in Callers : d # c => shut'[d] = shut[d]
    BY DEF Shutdown, Wait, Deadline, Runtime, Records, TypeOK, ShutdownClosed
  <1>2. Leases' = Leases /\ Counted' = Counted
    BY <1>1 DEF Leases, Counted
  <1>3. OneWorkerPerKey' /\ AccountsBalance'
    BY <1>1, <1>2 DEF OneWorkerPerKey, AccountsBalance
  <1>4. QuietAfterShutdown'
    <2>1. workers = 0 => Counted = {}
      BY SetsFinite, FS_EmptySet DEF AccountsBalance
    <2> QED  BY <1>1, <1>2, <2>1 DEF QuietAfterShutdown
  <1>5. TypeOK' /\ KeyMatchesPc' /\ ShutdownClosed' /\ UnfinishedHasNoTime'
    BY <1>1 DEF TypeOK, KeyMatchesPc, ShutdownClosed, UnfinishedHasNoTime
  <1>6. RecordMirrorsWorker' /\ RetentionBounded'
    BY <1>1, RetentionKept DEF RecordMirrorsWorker
  <1> QED  BY <1>3, <1>4, <1>5, <1>6

LEMMA NextIInv == IInv /\ [Next]_vars => IInv'
  <1> SUFFICES ASSUME IInv, [Next]_vars PROVE IInv'
    OBVIOUS
  <1>1. CASE UNCHANGED vars
    BY <1>1 DEF vars, IInv, TypeOK, KeyMatchesPc, UnfinishedHasNoTime, ShutdownClosed,
                OneWorkerPerKey, AccountsBalance, QuietAfterShutdown, Leases, Counted,
                RecordMirrorsWorker, RetentionBounded, Retained, Managed
  <1>2. ASSUME NEW j \in Requests, RequestStep(j) PROVE IInv'
    <2>1. ASSUME NEW s \in Services, CreateUnique(j, s) \/ FindRunning(j, s) PROVE IInv'
      BY <2>1, ServiceIInv
    <2>2. CASE StartTrackedJob(j) \/ Rejected(j)
      <3>1. PICK s \in Services : TRUE
        BY <2>2 DEF StartTrackedJob, Rejected, IInv, KeyMatchesPc
      <3> QED  BY <2>2, <3>1, ServiceIInv
    <2>3. CASE \/ ManagementAcquire(j) \/ ManagementBusy(j) \/ ManagementExpire(j)
               \/ ManagementRecord(j) \/ ManagementFull(j)
      BY <2>3, ManagementIInv
    <2>4. CASE Settle(j) \/ Release(j) \/ Done(j)
      BY <2>4, WorkerIInv
    <2>5. CASE Age(j) \/ Get(j)
      BY <2>5, RetentionIInv
    <2> QED  BY <1>2, <2>1, <2>2, <2>3, <2>4, <2>5 DEF RequestStep
  <1>3. ASSUME NEW managed \in BOOLEAN, Expire(managed) PROVE IInv'
    BY <1>3, RetentionIInv
  <1>4. ASSUME NEW c \in Callers, Shutdown(c) \/ Wait(c) \/ Deadline(c) PROVE IInv'
    BY <1>4, ShutdownIInv
  <1> QED  BY <1>1, <1>2, <1>3, <1>4 DEF Next

\* Every reachable state satisfies the inductive invariant.
LEMMA Invariant == Spec => []IInv
  BY InitIInv, NextIInv, PTL DEF Spec

\* tracked_jobs.go, for any number of requests and callers: the state keeps
\* its types, and a shutdown that returned nil has left no worker.
THEOREM TrackedJobsSafe == Spec => [](TypeOK /\ QuietAfterShutdown)
  <1>1. IInv => TypeOK /\ QuietAfterShutdown
    BY DEF IInv
  <1> QED  BY Invariant, <1>1, PTL

\* startTrackedJob and the management leases: two workers never have the same
\* key, although a finished record no longer blocks a new job before its
\* worker has given the key back.
THEOREM KeysExclude == Spec => []OneWorkerPerKey
  <1>1. IInv => OneWorkerPerKey
    BY DEF IInv
  <1> QED  BY Invariant, <1>1, PTL

\* The key set, the semaphore channel and the wait group of tracked_jobs.go
\* count the same leases, and never more than the channel has room for.
THEOREM AccountsAgree == Spec => []AccountsBalance
  <1>1. IInv => AccountsBalance
    BY DEF IInv
  <1> QED  BY Invariant, <1>1, PTL

\* The job stores: a record says "running" exactly while its handler or its
\* worker is at it, and a service has at most one such record.
THEOREM RecordsMirror == Spec => []RecordMirrorsWorker
  <1>1. IInv => RecordMirrorsWorker
    BY DEF IInv
  <1> QED  BY Invariant, <1>1, PTL

\* The management store stays within its limit, whatever is granted while it
\* is full.
THEOREM StoreBounded == Spec => []RetentionBounded
  <1>1. IInv => RetentionBounded
    BY DEF IInv
  <1> QED  BY Invariant, <1>1, PTL
=============================================================================
