------------------------- MODULE ProjectLocks_proofs -------------------------
(***************************************************************************)
(* Proofs about the project lock manager, for any finite set of callers    *)
(* and any set of keys.                                                    *)
(***************************************************************************)
EXTENDS ProjectLocks, FiniteSetTheorems, TLAPS

\* The goroutines that point to one object are finitely many.
LEMMA UsersFinite ==
    ASSUME NEW o
    PROVE  IsFiniteSet(Users(o)) /\ Cardinality(Users(o)) \in Nat
  <1>1. Users(o) \in SUBSET Procs  BY DEF Users
  <1>2. IsFiniteSet(Users(o))  BY <1>1, ProcsFinite, FS_Subset
  <1> QED  BY <1>2, FS_CardinalityType

\* Init of project_locks.go's newProjectLockManager establishes the invariant.
LEMMA InitIInv == Init => IInv
  BY NilIsNoAddress
  DEF Init, IInv, TypeOK, PcValues, LocalsSet, Active, OneKeyPerObject,
      RefsCountUsers, TokenIsHolder

\* The critical section that finds or creates the lock object, by any caller.
LEMMA LookupIInv ==
    ASSUME IInv, NEW p \in Procs, NEW k \in Keys,
           NEW next \in {"waiting", "trying"}, Lookup(p, k, next)
    PROVE  IInv'
  <1> USE DEF IInv
  <1> lock[p] = Nil /\ key[p] = Nil /\ pc[p] = "idle"
    BY DEF Lookup, LocalsSet, Active
  <1>1. CASE locks[k] # Nil
    <2> DEFINE o == locks[k]
    <2>1. /\ o \in Objs
          /\ refs' = [refs EXCEPT ![o] = @ + 1]
          /\ lock' = [lock EXCEPT ![p] = o]
          /\ key' = [key EXCEPT ![p] = k]
          /\ pc' = [pc EXCEPT ![p] = next]
          /\ UNCHANGED <<locks, semaphore>>
      BY <1>1 DEF Lookup, TypeOK
    <2>2. TypeOK'
      BY <2>1 DEF TypeOK, PcValues
    <2>3. LocalsSet' /\ OneKeyPerObject' /\ TokenIsHolder'
      BY <2>1, NilIsNoAddress
      DEF TypeOK, LocalsSet, Active, OneKeyPerObject, TokenIsHolder
    <2>4. ASSUME NEW x \in Objs, \E j \in Keys : locks'[j] = x
          PROVE  refs'[x] = Cardinality(Users(x)')
      <3>1. refs[x] = Cardinality(Users(x))
        BY <2>1, <2>4 DEF RefsCountUsers
      <3>2. CASE x = o
        <4>1. Users(x)' = Users(x) \cup {p} /\ p \notin Users(x)
          BY <2>1, <3>2, NilIsNoAddress DEF Users, TypeOK
        <4>2. Cardinality(Users(x)') = Cardinality(Users(x)) + 1
          BY <4>1, UsersFinite, FS_AddElement, Zenon
        <4>3. refs'[x] = refs[x] + 1
          BY <2>1, <3>2 DEF TypeOK
        <4> QED  BY <4>2, <4>3, <3>1
      <3>3. CASE x # o
        <4>1. Users(x)' = Users(x)
          BY <2>1, <3>3, NilIsNoAddress DEF Users, TypeOK
        <4> QED  BY <4>1, <3>1, <3>3, <2>1 DEF TypeOK
      <3> QED  BY <3>2, <3>3
    <2>5. \A q \in Procs : Active(q)' => locks'[key'[q]] = lock'[q]
      BY <2>1 DEF RefsCountUsers, TypeOK, Active
    <2>6. \A j \in Keys : locks'[j] # Nil => \E q \in Procs : key'[q] = j
      <3> SUFFICES ASSUME NEW j \in Keys, locks'[j] # Nil
                   PROVE  \E q \in Procs : key'[q] = j
        OBVIOUS
      <3>1. PICK q \in Procs : key[q] = j
        BY <2>1 DEF RefsCountUsers
      <3>2. q # p  BY <3>1, NilIsNoAddress
      <3> QED  BY <2>1, <3>1, <3>2 DEF TypeOK
    <2> QED  BY <2>2, <2>3, <2>4, <2>5, <2>6 DEF RefsCountUsers
  <1>2. CASE locks[k] = Nil
    <2>1. PICK o \in Objs :
             /\ Unreferenced(o)
             /\ locks' = [locks EXCEPT ![k] = o]
             /\ semaphore' = [semaphore EXCEPT ![o] = FALSE]
             /\ refs' = [refs EXCEPT ![o] = 1]
             /\ lock' = [lock EXCEPT ![p] = o]
      BY <1>2 DEF Lookup
    <2>2. /\ key' = [key EXCEPT ![p] = k]
          /\ pc' = [pc EXCEPT ![p] = next]
      BY DEF Lookup
    <2>3. /\ \A j \in Keys : locks[j] # o
          /\ \A q \in Procs : lock[q] # o
      BY <2>1 DEF Unreferenced
    <2>4. TypeOK'
      BY <2>1, <2>2 DEF TypeOK, PcValues
    <2>5. LocalsSet' /\ OneKeyPerObject'
      BY <2>1, <2>2, <2>3, NilIsNoAddress
      DEF TypeOK, LocalsSet, Active, OneKeyPerObject
    <2>6. TokenIsHolder'
      BY <2>1, <2>2, <2>3 DEF TypeOK, TokenIsHolder, LocalsSet, Active
    <2>7. ASSUME NEW x \in Objs, \E j \in Keys : locks'[j] = x
          PROVE  refs'[x] = Cardinality(Users(x)')
      <3>1. CASE x = o
        <4>1. Users(x)' = {p}
          BY <2>1, <2>3, <3>1 DEF Users, TypeOK
        <4> QED  BY <4>1, <2>1, <3>1, FS_Singleton DEF TypeOK
      <3>2. CASE x # o
        <4>1. Users(x)' = Users(x)
          BY <2>1, <3>2, NilIsNoAddress DEF Users, TypeOK
        <4>2. \E j \in Keys : locks[j] = x
          BY <2>1, <2>7, <3>2 DEF TypeOK
        <4> QED  BY <4>1, <4>2, <2>1, <3>2 DEF TypeOK, RefsCountUsers
      <3> QED  BY <3>1, <3>2
    <2>8. \A q \in Procs : Active(q)' => locks'[key'[q]] = lock'[q]
      BY <2>1, <2>2, <1>2, NilIsNoAddress
      DEF RefsCountUsers, TypeOK, Active, LocalsSet
    <2>9. \A j \in Keys : locks'[j] # Nil => \E q \in Procs : key'[q] = j
      <3> SUFFICES ASSUME NEW j \in Keys, locks'[j] # Nil
                   PROVE  \E q \in Procs : key'[q] = j
        OBVIOUS
      <3>1. CASE j = k  BY <3>1, <2>2 DEF TypeOK
      <3>2. CASE j # k
        <4>1. PICK q \in Procs : key[q] = j
          BY <2>1, <3>2 DEF RefsCountUsers, TypeOK
        <4>2. q # p  BY <4>1, NilIsNoAddress
        <4> QED  BY <2>2, <4>1, <4>2 DEF TypeOK
      <3> QED  BY <3>1, <3>2
    <2> QED  BY <2>4, <2>5, <2>6, <2>7, <2>8, <2>9 DEF RefsCountUsers
  <1> QED  BY <1>1, <1>2

\* Letting go of the reference: the entry goes exactly with its last user.
LEMMA ReleaseReferenceIInv ==
    ASSUME IInv, NEW p \in Procs, ReleaseReference(p)
    PROVE  IInv'
  <1> USE DEF IInv
  <1>0. PICK o \in Objs, k \in Keys : o = lock[p] /\ k = key[p]
    BY DEF ReleaseReference, LocalsSet, Active
  <1>1. /\ o = lock[p] /\ k = key[p] /\ locks[k] = o
        /\ pc[p] \in {"releasing", "dropping"}
        /\ refs[o] = Cardinality(Users(o))
    BY <1>0 DEF ReleaseReference, Active, RefsCountUsers
  <1>2. /\ refs' = [refs EXCEPT ![o] = @ - 1]
        /\ locks' = IF KeepEntry(k, o) THEN locks ELSE [locks EXCEPT ![k] = Nil]
        /\ pc' = [pc EXCEPT ![p] = "idle"]
        /\ key' = [key EXCEPT ![p] = Nil]
        /\ lock' = [lock EXCEPT ![p] = Nil]
        /\ semaphore' = semaphore
    BY <1>0 DEF ReleaseReference
  <1>3. /\ Users(o)' = Users(o) \ {p} /\ p \in Users(o)
        /\ \A x \in Objs : x # o => Users(x)' = Users(x)
    <2>1. \A q \in Procs : lock'[q] = IF q = p THEN Nil ELSE lock[q]
      BY <1>2 DEF TypeOK
    <2>2. {q \in Procs : lock'[q] = o} = {q \in Procs : lock[q] = o} \ {p}
      BY <2>1, <1>1, NilIsNoAddress
    <2>3. ASSUME NEW x \in Objs, x # o
          PROVE  {q \in Procs : lock'[q] = x} = {q \in Procs : lock[q] = x}
      BY <2>1, <2>3, <1>1, NilIsNoAddress
    <2> QED  BY <2>2, <2>3, <1>0 DEF Users
  <1>4. Cardinality(Users(o)') = refs[o] - 1 /\ refs'[o] = refs[o] - 1
    <2>1. Cardinality(Users(o) \ {p}) = Cardinality(Users(o)) - 1
      BY <1>3, UsersFinite, FS_RemoveElement
    <2> QED  BY <2>1, <1>1, <1>2, <1>3 DEF TypeOK
  <1>5. KeepEntry(k, o) <=> Users(o)' # {}
    <2>1. IsFiniteSet(Users(o)')
      BY <1>3, UsersFinite, FS_RemoveElement
    <2>2. Cardinality(Users(o)') = 0 <=> Users(o)' = {}
      BY <2>1, FS_EmptySet
    <2> QED  BY <1>1, <1>4, <2>2 DEF KeepEntry
  <1>6. TypeOK'
    <2>1. refs[o] - 1 \in Nat
      BY <1>3, <1>4, UsersFinite, FS_RemoveElement, FS_CardinalityType
    <2> QED  BY <1>1, <1>2, <2>1 DEF TypeOK, PcValues
  <1>7. LocalsSet' /\ OneKeyPerObject' /\ TokenIsHolder'
    BY <1>1, <1>2 DEF TypeOK, LocalsSet, Active, OneKeyPerObject, TokenIsHolder
  <1>8. ASSUME NEW x \in Objs, \E j \in Keys : locks'[j] = x
        PROVE  refs'[x] = Cardinality(Users(x)')
    <2>1. \E j \in Keys : locks[j] = x
      BY <1>2, <1>8, NilIsNoAddress DEF TypeOK
    <2>2. refs[x] = Cardinality(Users(x))
      BY <2>1 DEF RefsCountUsers
    <2>3. CASE x = o
      BY <2>3, <1>4
    <2>4. CASE x # o
      <3>1. refs'[x] = refs[x]
        BY <2>4, <1>2 DEF TypeOK
      <3>2. Users(x)' = Users(x)
        BY <2>4, <1>3
      <3> QED  BY <2>2, <3>1, <3>2
    <2> QED  BY <2>3, <2>4
  <1>9. ASSUME NEW q \in Procs, Active(q)'
        PROVE  locks'[key'[q]] = lock'[q]
    <2>1. q # p /\ Active(q) /\ key'[q] = key[q] /\ lock'[q] = lock[q]
      BY <1>2, <1>9 DEF Active, TypeOK
    <2>2. locks[key[q]] = lock[q] /\ key[q] \in Keys /\ lock[q] \in Objs
      BY <2>1 DEF RefsCountUsers, LocalsSet
    <2>3. CASE key[q] # k
      BY <1>2, <2>1, <2>2, <2>3 DEF TypeOK
    <2>4. CASE key[q] = k
      <3>1. q \in Users(o)'
        <4>1. lock[q] = o  BY <1>1, <2>2, <2>4
        <4>2. q \in Users(o) /\ q # p  BY <4>1, <2>1 DEF Users
        <4> QED  BY <4>2, <1>3
      <3>2. locks' = locks
        BY <3>1, <1>2, <1>5
      <3> QED  BY <3>2, <2>1, <2>2
    <2> QED  BY <2>3, <2>4
  <1>10. ASSUME NEW j \in Keys, locks'[j] # Nil
         PROVE  \E q \in Procs : key'[q] = j
    <2>1. locks[j] # Nil
      BY <1>2, <1>10 DEF TypeOK
    <2>2. CASE j = k
      <3>1. KeepEntry(k, o)
        BY <1>2, <1>10, <2>2 DEF TypeOK
      <3>2. PICK q \in Procs : q # p /\ lock[q] = o
        BY <3>1, <1>3, <1>5 DEF Users
      <3>3. key[q] = k
        BY <3>2, <1>1, NilIsNoAddress DEF LocalsSet, Active, RefsCountUsers, OneKeyPerObject
      <3> QED  BY <3>2, <3>3, <2>2, <1>2 DEF TypeOK
    <2>3. CASE j # k
      <3>1. PICK q \in Procs : key[q] = j
        BY <2>1 DEF RefsCountUsers
      <3> QED  BY <3>1, <2>3, <1>1, <1>2 DEF TypeOK
    <2> QED  BY <2>2, <2>3
  <1> QED  BY <1>6, <1>7, <1>8, <1>9, <1>10 DEF RefsCountUsers

\* The steps that leave the map, the references and the locals alone.
LEMMA ChannelStepIInv ==
    ASSUME IInv, NEW p \in Procs, Enter(p) \/ Cancel(p) \/ Busy(p) \/ Release(p)
    PROVE  IInv'
  <1> USE DEF IInv
  <1>1. /\ UNCHANGED <<locks, refs, key, lock>>
        /\ pc' \in [Procs -> PcValues]
        /\ semaphore' \in [Objs -> BOOLEAN]
        /\ pc[p] # "idle" /\ pc'[p] # "idle"
        /\ \A q \in Procs : q # p => pc'[q] = pc[q]
    BY DEF Enter, Cancel, Busy, Release, TypeOK, PcValues, LocalsSet, Active
  <1>2. \A q \in Procs : Active(q)' <=> Active(q)
    BY <1>1 DEF Active
  <1>3. TypeOK' /\ LocalsSet' /\ OneKeyPerObject'
    BY <1>1, <1>2 DEF TypeOK, LocalsSet, OneKeyPerObject
  <1>4. RefsCountUsers'
    <2>1. \A x : Users(x)' = Users(x)
      BY <1>1 DEF Users
    <2> QED  BY <1>1, <1>2, <2>1 DEF RefsCountUsers
  <1>5. TokenIsHolder'
    <2>1. CASE Enter(p)
      BY <2>1 DEF Enter, TokenIsHolder, TypeOK, LocalsSet, Active
    <2>2. CASE Cancel(p) \/ Busy(p)
      BY <2>2 DEF Cancel, Busy, TokenIsHolder, TypeOK
    <2>3. CASE Release(p)
      BY <2>3 DEF Release, TokenIsHolder, TypeOK, LocalsSet, Active
    <2> QED  BY <2>1, <2>2, <2>3
  <1> QED  BY <1>3, <1>4, <1>5

LEMMA NextIInv == IInv /\ [Next]_vars => IInv'
  <1> SUFFICES ASSUME IInv, [Next]_vars PROVE IInv'
    OBVIOUS
  <1>1. CASE UNCHANGED vars
    BY <1>1 DEF vars, IInv, TypeOK, LocalsSet, Active, OneKeyPerObject,
                RefsCountUsers, Users, TokenIsHolder
  <1>2. ASSUME NEW p \in Procs, NEW k \in Keys, Acquire(p, k) \/ TryAcquire(p, k)
        PROVE  IInv'
    BY <1>2, LookupIInv DEF Acquire, TryAcquire
  <1>3. ASSUME NEW p \in Procs, Enter(p) \/ Cancel(p) \/ Busy(p) \/ Release(p)
        PROVE  IInv'
    BY <1>3, ChannelStepIInv
  <1>4. ASSUME NEW p \in Procs, ReleaseReference(p)
        PROVE  IInv'
    BY <1>4, ReleaseReferenceIInv
  <1> QED  BY <1>1, <1>2, <1>3, <1>4 DEF Next

\* Two callers that hold the same key point to the same object, whose channel
\* has room for one token.
LEMMA IInvExcludes == IInv => MutualExclusion
  BY DEF IInv, MutualExclusion, RefsCountUsers, Active, TokenIsHolder, LocalsSet

\* Every reachable state satisfies the inductive invariant.
LEMMA Invariant == Spec => []IInv
  BY InitIInv, NextIInv, PTL DEF Spec

\* project_locks.go: the state keeps its types and no project key is ever
\* held twice, for any number of callers, keys and lock objects.
THEOREM ProjectLocksSafe == Spec => [](TypeOK /\ MutualExclusion)
  <1>1. IInv => TypeOK /\ MutualExclusion
    BY IInvExcludes DEF IInv
  <1> QED  BY Invariant, <1>1, PTL

\* The reference count of an entry is the number of goroutines that point to
\* it: acquire, releaseReference and a cancelled wait neither leak an entry
\* nor delete one under a waiter.
THEOREM ReferencesExact == Spec => []RefsCountUsers
  <1>1. IInv => RefsCountUsers
    BY DEF IInv
  <1> QED  BY Invariant, <1>1, PTL

\* A lease step of the manager is a step of the keyed mutex, any other step
\* leaves the set of leases alone.
LEMMA StepRefines == IInv /\ [Next]_vars => [Mutex!Next]_Held
  <1> SUFFICES ASSUME IInv, [Next]_vars PROVE [Mutex!Next]_Held
    OBVIOUS
  <1> USE DEF IInv
  <1>1. ASSUME key' = key, NEW p \in Procs, pc[p] # "holding", pc'[p] # "holding",
               \A q \in Procs : q # p => pc'[q] = pc[q]
        PROVE  Held' = Held
    <2>1. \A q \in Procs : pc'[q] = "holding" <=> pc[q] = "holding"
      BY <1>1
    <2> QED  BY <2>1, <1>1 DEF Held
  <1>2. ASSUME NEW p \in Procs, NEW k \in Keys, NEW next \in {"waiting", "trying"},
               Lookup(p, k, next)
        PROVE  Held' = Held
    BY <1>2 DEF Lookup, Held, TypeOK
  <1>3. ASSUME NEW p \in Procs, Enter(p)
        PROVE  Mutex!Next
    <2>1. key[p] \in Keys /\ lock[p] \in Objs /\ ~semaphore[lock[p]] /\ pc[p] # "holding"
      BY <1>3 DEF Enter, LocalsSet, Active
    <2>2. \A q \in Procs : pc[q] = "holding" => key[q] # key[p]
      BY <1>3, <2>1 DEF Enter, TokenIsHolder, RefsCountUsers, Active
    <2>3. \A q \in Procs : <<q, key[p]>> \notin Held
      BY <2>2 DEF Held
    <2>4. \A j \in Keys : <<p, j>> \notin Held
      BY <2>1 DEF Held
    <2>5. Held' = Held \cup {<<p, key[p]>>}
      <3>1. key' = key /\ \A q \in Procs : pc'[q] = "holding" <=> q = p \/ pc[q] = "holding"
        BY <1>3 DEF Enter, TypeOK
      <3> QED  BY <3>1 DEF Held
    <2> QED  BY <2>1, <2>3, <2>4, <2>5 DEF Mutex!Next, Mutex!Take
  <1>4. ASSUME NEW p \in Procs, Cancel(p) \/ Busy(p)
        PROVE  Held' = Held
    BY <1>4, <1>1 DEF Cancel, Busy, TypeOK
  <1>5. ASSUME NEW p \in Procs, Release(p)
        PROVE  Mutex!Next
    <2>1. key[p] \in Keys /\ pc[p] = "holding"
      BY <1>5 DEF Release, LocalsSet, Active
    <2>2. key' = key /\ \A q \in Procs : pc'[q] = "holding" <=> q # p /\ pc[q] = "holding"
      BY <1>5 DEF Release, TypeOK
    <2>3. Held' = Held \ {<<p, key[p]>>} /\ <<p, key[p]>> \in Held
      BY <2>1, <2>2 DEF Held
    <2> QED  BY <2>1, <2>3 DEF Mutex!Next, Mutex!Drop
  <1>6. ASSUME NEW p \in Procs, ReleaseReference(p)
        PROVE  Held' = Held
    BY <1>6 DEF ReleaseReference, Held, TypeOK
  <1>7. CASE UNCHANGED vars
    BY <1>7 DEF vars, Held
  <1> QED  BY <1>2, <1>3, <1>4, <1>5, <1>6, <1>7 DEF Next, Acquire, TryAcquire

\* project_locks.go implements the keyed mutex its callers rely on, for any
\* number of callers, keys and lock objects.
THEOREM ProjectLocksRefine == Spec => ImplementsKeyedMutex
  <1>1. Init => Mutex!Init
    BY DEF Init, Mutex!Init, Held
  <1> QED  BY <1>1, InitIInv, NextIInv, StepRefines, PTL
           DEF Spec, ImplementsKeyedMutex, Mutex!Spec
=============================================================================
