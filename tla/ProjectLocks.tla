---------------------------- MODULE ProjectLocks ----------------------------
(***************************************************************************)
(* projectLockManager (internal/service/project_locks.go): a map from a    *)
(* project key to a lock object that is created by the first caller that   *)
(* asks for the key and deleted by the last one that lets go of it.  Every *)
(* critical section of m.mu is one action; the send on and the receive     *)
(* from the one-slot semaphore channel happen outside m.mu and are actions *)
(* of their own.                                                           *)
(***************************************************************************)
EXTENDS Integers, FiniteSets

CONSTANTS Procs,  \* callers: one goroutine's request for one key
          Keys,   \* project keys ("application:7", "proxy", ...)
          Objs,   \* addresses a projectLock can be allocated at
          Nil     \* the nil pointer, and "no key"

ASSUME ProcsFinite == IsFiniteSet(Procs)
ASSUME NilIsNoAddress == Nil \notin Objs /\ Nil \notin Keys

VARIABLES locks,      \* m.locks: key -> object, Nil when the key is absent
          semaphore,  \* object -> TRUE when its channel holds the token
          refs,       \* object -> lock.refs
          pc,         \* caller -> where it is in acquire/tryAcquire/release
          key,        \* caller -> the key it asked for
          lock        \* caller -> the object its local variable points to

vars == <<locks, semaphore, refs, pc, key, lock>>

PcValues == {"idle", "waiting", "trying", "holding", "releasing", "dropping"}

TypeOK ==
    /\ locks \in [Keys -> Objs \cup {Nil}]
    /\ semaphore \in [Objs -> BOOLEAN]
    /\ refs \in [Objs -> Nat]
    /\ pc \in [Procs -> PcValues]
    /\ key \in [Procs -> Keys \cup {Nil}]
    /\ lock \in [Procs -> Objs \cup {Nil}]

Init ==
    /\ locks = [k \in Keys |-> Nil]
    /\ semaphore = [o \in Objs |-> FALSE]
    /\ refs = [o \in Objs |-> 0]
    /\ pc = [p \in Procs |-> "idle"]
    /\ key = [p \in Procs |-> Nil]
    /\ lock = [p \in Procs |-> Nil]

\* An address the allocator may hand out: no map entry and no goroutine
\* points to it any more (the collector frees nothing else).
Unreferenced(o) ==
    /\ \A k \in Keys : locks[k] # o
    /\ \A p \in Procs : lock[p] # o

\* The first critical section of acquire and tryAcquire: find the key's lock
\* or allocate one with an empty channel, and count the caller in.
Lookup(p, k, next) ==
    /\ pc[p] = "idle"
    /\ \/ /\ locks[k] # Nil
          /\ refs' = [refs EXCEPT ![locks[k]] = @ + 1]
          /\ lock' = [lock EXCEPT ![p] = locks[k]]
          /\ UNCHANGED <<locks, semaphore>>
       \/ /\ locks[k] = Nil
          /\ \E o \in Objs :
               /\ Unreferenced(o)
               /\ locks' = [locks EXCEPT ![k] = o]
               /\ semaphore' = [semaphore EXCEPT ![o] = FALSE]
               /\ refs' = [refs EXCEPT ![o] = 1]
               /\ lock' = [lock EXCEPT ![p] = o]
    /\ key' = [key EXCEPT ![p] = k]
    /\ pc' = [pc EXCEPT ![p] = next]

\* acquire: a caller whose context is already done returns before it touches
\* the map, which changes nothing.
Acquire(p, k) == Lookup(p, k, "waiting")

TryAcquire(p, k) == Lookup(p, k, "trying")

\* Mutant: the channel has room for a second token.
EnterUnbounded(p) ==
    /\ pc[p] \in {"waiting", "trying"}
    /\ semaphore' = [semaphore EXCEPT ![lock[p]] = TRUE]
    /\ pc' = [pc EXCEPT ![p] = "holding"]
    /\ UNCHANGED <<locks, refs, key, lock>>

\* The send on the semaphore channel succeeds: the caller gets its lease.
Enter(p) ==
    /\ pc[p] \in {"waiting", "trying"}
    /\ ~semaphore[lock[p]]
    /\ semaphore' = [semaphore EXCEPT ![lock[p]] = TRUE]
    /\ pc' = [pc EXCEPT ![p] = "holding"]
    /\ UNCHANGED <<locks, refs, key, lock>>

\* ctx is done, either at the check after the critical section or in the
\* select; when the channel has room as well, select may take either branch.
Cancel(p) ==
    /\ pc[p] = "waiting"
    /\ pc' = [pc EXCEPT ![p] = "dropping"]
    /\ UNCHANGED <<locks, semaphore, refs, key, lock>>

\* tryAcquire's default branch: the channel is full, ErrProjectBusy.
Busy(p) ==
    /\ pc[p] = "trying"
    /\ semaphore[lock[p]]
    /\ pc' = [pc EXCEPT ![p] = "dropping"]
    /\ UNCHANGED <<locks, semaphore, refs, key, lock>>

\* Mutant: release forgets to take the token out of the channel.
ReleaseKeepingToken(p) ==
    /\ pc[p] = "holding"
    /\ pc' = [pc EXCEPT ![p] = "releasing"]
    /\ UNCHANGED <<locks, semaphore, refs, key, lock>>

\* release receives the token; sync.Once makes any later call a no-op.
Release(p) ==
    /\ pc[p] = "holding"
    /\ semaphore' = [semaphore EXCEPT ![lock[p]] = FALSE]
    /\ pc' = [pc EXCEPT ![p] = "releasing"]
    /\ UNCHANGED <<locks, refs, key, lock>>

\* Mutant: the entry is deleted whatever the reference count is.
KeepEntryIgnoringRefs(k, o) == locks[k] # o

\* Mutant: the entry is never deleted.
KeepEntryAlways(k, o) == TRUE

\* releaseReference deletes the entry with its last reference, and only while
\* the map still points to this very object.
KeepEntry(k, o) == ~(refs[o] - 1 = 0 /\ locks[k] = o)

\* The critical section of releaseReference.
ReleaseReference(p) ==
    /\ pc[p] \in {"releasing", "dropping"}
    /\ refs' = [refs EXCEPT ![lock[p]] = @ - 1]
    /\ locks' = IF KeepEntry(key[p], lock[p])
                  THEN locks
                  ELSE [locks EXCEPT ![key[p]] = Nil]
    /\ pc' = [pc EXCEPT ![p] = "idle"]
    /\ key' = [key EXCEPT ![p] = Nil]
    /\ lock' = [lock EXCEPT ![p] = Nil]
    /\ UNCHANGED semaphore

Next ==
    \E p \in Procs :
        \/ \E k \in Keys : Acquire(p, k) \/ TryAcquire(p, k)
        \/ Enter(p) \/ Cancel(p) \/ Busy(p)
        \/ Release(p) \/ ReleaseReference(p)

Spec == Init /\ [][Next]_vars

\* Goroutines run; holders finish their Docker work and release (every caller
\* defers release and works under a deadline); goroutines blocked on a channel
\* send are queued first-in first-out, so a send that is possible again and
\* again for a waiter happens.  Nobody is obliged to ask or to cancel.
Fairness ==
    \A p \in Procs :
        /\ SF_vars(Enter(p))
        /\ WF_vars(Busy(p))
        /\ WF_vars(Release(p))
        /\ WF_vars(ReleaseReference(p))

FairSpec == Spec /\ Fairness

-----------------------------------------------------------------------------
Active(p) == pc[p] # "idle"
Users(o) == {p \in Procs : lock[p] = o}

\* Two callers never hold leases for the same project key, although the lock
\* object behind the key comes and goes with its users.
MutualExclusion ==
    \A p, q \in Procs :
        pc[p] = "holding" /\ pc[q] = "holding" /\ key[p] = key[q] => p = q

\* lock.refs counts exactly the goroutines that point to the object, and the
\* map holds an object exactly while somebody uses it under that key: entries
\* neither leak after the last release nor vanish under a waiter.
RefsCountUsers ==
    /\ \A o \in Objs :
         (\E k \in Keys : locks[k] = o) => refs[o] = Cardinality(Users(o))
    /\ \A p \in Procs : Active(p) => locks[key[p]] = lock[p]
    /\ \A k \in Keys : locks[k] # Nil => \E p \in Procs : key[p] = k

\* The strengthening that makes the two invariants above inductive: a caller
\* has an object and a key exactly while it is active, no two keys share an
\* object, and the token in an object's channel stands for its one holder.
LocalsSet ==
    \A p \in Procs : IF Active(p) THEN lock[p] \in Objs /\ key[p] \in Keys
                                  ELSE lock[p] = Nil /\ key[p] = Nil
OneKeyPerObject ==
    \A j, k \in Keys : locks[j] = locks[k] /\ locks[j] # Nil => j = k
TokenIsHolder ==
    \A p \in Procs : pc[p] = "holding" =>
        /\ semaphore[lock[p]]
        /\ \A q \in Procs : pc[q] = "holding" /\ lock[q] = lock[p] => q = p

IInv == TypeOK /\ LocalsSet /\ OneKeyPerObject /\ RefsCountUsers /\ TokenIsHolder

\* A caller that waits for a project lock gets it, or gives up because its
\* context is done: no waiter is stranded on a lock object nobody releases.
WaiterServed ==
    \A p \in Procs : pc[p] \in {"waiting", "trying"} ~> pc[p] \in {"holding", "dropping"}

\* The lock manager implements the keyed mutex.
Held == {<<p, key[p]>> : p \in {q \in Procs : pc[q] = "holding"}}
Mutex == INSTANCE KeyedMutex WITH held <- Held

\* Every behaviour of acquire, tryAcquire and release is one of the keyed
\* mutex: a lease is handed out only when no lease for its key is out.
ImplementsKeyedMutex == Mutex!Spec

=============================================================================
