-------------------------- MODULE Applications_proofs --------------------------
(***************************************************************************)
(* Proofs about MCApplications: creating, cloning and deleting applications*)
(* side by side, then the services of one application, with and without    *)
(* deaths of the manager.  One inductive invariant for each component,     *)
(* then the theorems of the suite.                                         *)
(***************************************************************************)
EXTENDS MCApplications, Sequences, TLAPS
---------------------------------------------------------------------------
(* Creating, cloning and deleting applications.  A request that works in a *)
(* folder holds the folder's lock, and one that deletes an application     *)
(* holds the application's lock first.                                     *)

Ids == 1 .. MaxId
FolderLock(f) == <<"application-folder", f>>
ApplicationLock(i) == <<"application", i>>
StageNames == {"schedules", "resources", "metadata", "routing", "folder", "complete"}
Creating == {"create_check", "create_row"}
Cloning == {"clone_reserved", "clone_source", "clone_check", "clone_row", "clone_contents",
            "clone_validate"}
Deleting == {"delete_folder", "delete_leases", "delete_stage", "delete_checkpoint"}
Placed == {"delete_leases", "delete_stage", "delete_checkpoint"}
Task == [kind : {"none", "create", "clone", "delete"}, id : Ids \cup {None},
         folder : Folders \cup {None}, source : Ids \cup {None}]
Intents == [folder : Folders, stage : StageNames, state : {"running", "failed", "complete"}]

DataTypes ==
  /\ rows \in [Ids -> Folders \cup {None}] /\ nextId \in 1 .. MaxId + 1
  /\ services \in SUBSET Ids /\ routes \in SUBSET Ids
  /\ intents \in [Ids -> Intents \cup {None}]
  /\ lease \in [Ids -> {"free", "backup", "deletion", "dead"}]
  /\ dirs \in [Folders -> Ids \cup {0, None}]
  /\ containers \in SUBSET Ids /\ caddy \in SUBSET Ids /\ timers \in SUBSET Ids

RequestTypes ==
  /\ locks \in [Applications!Keys -> Requests \cup {None}]
  /\ pc \in [Requests -> {"idle", "delete_begin"} \cup Creating \cup Cloning \cup Deleting]
  /\ op \in [Requests -> Task]

Present(i) == rows[i] # None
Active(i) == intents[i] # None /\ intents[i].state # "complete"

(* Rows, intents and leases: identifiers and folders are used by one.      *)
RowKnown(i) ==
  /\ i >= nextId => rows[i] = None /\ intents[i] = None
  /\ i \in services \cup routes => Present(i)
  /\ lease[i] = "backup" => i \in services
  /\ intents[i] # None /\ Present(i) => rows[i] = intents[i].folder
  /\ intents[i] # None => (intents[i].stage = "complete" <=> intents[i].state = "complete")

RowsDiffer == \A i, j \in Ids : Present(i) /\ rows[i] = rows[j] => i = j

(* A directory is of an application that is registered or being deleted.   *)
DirKnown(f) ==
  dirs[f] \in Ids =>
    /\ dirs[f] < nextId
    /\ rows[dirs[f]] = f \/ (intents[dirs[f]] # None /\ intents[dirs[f]].folder = f)

FolderKnown(i) ==
  /\ Present(i) /\ ~Active(i) => dirs[rows[i]] = i
  /\ Active(i) => dirs[intents[i].folder] \in {i, None}

(* What a request holds and knows.                                         *)
HoldsLocks(r) ==
  /\ pc[r] \in Creating \cup Cloning \cup Deleting => op[r].folder \in Folders
  /\ pc[r] \in Creating \cup Cloning \cup Placed => locks[FolderLock(op[r].folder)] = r
  /\ pc[r] \in {"delete_begin"} \cup Deleting =>
       op[r].id \in Ids /\ locks[ApplicationLock(op[r].id)] = r
  /\ pc[r] \in Creating => op[r].kind = "create"
  /\ pc[r] \in Cloning => op[r].kind = "clone" /\ op[r].source \in Ids

RequestKnown(r) ==
  /\ pc[r] \in {"create_row", "clone_row"} => dirs[op[r].folder] = 0
  /\ pc[r] \in Cloning \ {"clone_contents", "clone_validate"} => op[r].id = None
  /\ pc[r] \in {"clone_contents", "clone_validate"} =>
       op[r].id \in Ids /\ rows[op[r].id] = op[r].folder /\ dirs[op[r].folder] = op[r].id
  /\ pc[r] \in {"clone_source", "clone_check"} =>
       \A i \in Ids : Active(i) /\ intents[i].folder = op[r].folder => dirs[op[r].folder] # None
  /\ pc[r] \in Deleting => Active(op[r].id) /\ intents[op[r].id].folder = op[r].folder
  /\ pc[r] \in {"delete_stage", "delete_checkpoint"} => lease[op[r].id] # "backup"

(* What a deletion has done is not undone by what happens beside it.       *)
Checking(i) == \E r \in Requests : pc[r] = "delete_checkpoint" /\ op[r].id = i
Past(i, stage, later) ==
  intents[i].stage \in later \/ (intents[i].stage = stage /\ Checking(i))

StageKnown(i) ==
  intents[i] # None =>
    /\ Past(i, "schedules", {"resources", "metadata", "routing", "folder", "complete"}) =>
         i \notin timers
    /\ Past(i, "metadata", {"routing", "folder", "complete"}) => ~Present(i)
    /\ Past(i, "routing", {"folder", "complete"}) => i \notin caddy
    /\ Past(i, "folder", {"complete"}) => dirs[intents[i].folder] # i

DataKnown ==
  /\ RowsDiffer
  /\ \A i \in Ids : RowKnown(i) /\ FolderKnown(i)
  /\ \A f \in Folders : DirKnown(f)

AppInv ==
  /\ DataTypes /\ RequestTypes /\ DataKnown
  /\ \A i \in Ids : StageKnown(i)
  /\ \A r \in Requests : HoldsLocks(r) /\ RequestKnown(r)

---------------------------------------------------------------------------
(* What a step of one request leaves to the others.                        *)

LEMMA ConstantFacts ==
  /\ None \notin Requests /\ None \notin Folders /\ None \notin Ids /\ None # 0
  /\ None \notin Intents /\ MaxId \in Nat /\ MaxId >= 1 /\ Folders # {}
  /\ Applications!Ids = Ids /\ Applications!StageNames = StageNames
  <1>1. Applications!StageNames = StageNames
    <2>1. Applications!Stages = <<"schedules", "resources", "metadata", "routing", "folder",
                                  "complete">>
      BY DEF Applications!Stages
    <2>2. Len(Applications!Stages) = 6
      BY <2>1
    <2>3. Applications!StageNames = {Applications!Stages[n] : n \in 1 .. 6}
      BY <2>2 DEF Applications!StageNames
    <2> QED  BY <2>1, <2>3 DEF StageNames
  <1>2. None \notin Intents
    BY <1>1, Constants DEF Constants, Applications!ConstantsOK, Intents
  <1>3. MaxId \in Nat /\ MaxId >= 1 /\ None \notin 0 .. MaxId
    BY Constants DEF Constants, Applications!ConstantsOK
  <1> QED
    BY <1>1, <1>2, <1>3, Constants
       DEF Constants, Applications!ConstantsOK, Ids, Applications!Ids

LEMMA Ranks ==
  /\ Applications!Rank("schedules") = 1 /\ Applications!Rank("resources") = 2
  /\ Applications!Rank("metadata") = 3 /\ Applications!Rank("routing") = 4
  /\ Applications!Rank("folder") = 5 /\ Applications!Rank("complete") = 6
  <1>1. Applications!Stages = <<"schedules", "resources", "metadata", "routing", "folder",
                                "complete">>
    BY DEF Applications!Stages
  <1>2. Len(Applications!Stages) = 6
    BY <1>1
  <1>3. \A s : Applications!Rank(s) = CHOOSE n \in 1 .. 6 : Applications!Stages[n] = s
    BY <1>2 DEF Applications!Rank
  <1>4. ASSUME NEW k \in 1 .. 6
        PROVE  Applications!Rank(Applications!Stages[k]) = k
    <2>1. \A n \in 1 .. 6 : Applications!Stages[n] = Applications!Stages[k] <=> n = k
      BY <1>1
    <2> QED  BY <1>3, <2>1
  <1> QED  BY <1>1, <1>4

LEMMA LocksApart ==
  /\ \A f, g \in Folders : FolderLock(f) = FolderLock(g) => f = g
  /\ \A i, j \in Ids : ApplicationLock(i) = ApplicationLock(j) => i = j
  /\ \A f \in Folders, i \in Ids : FolderLock(f) # ApplicationLock(i)
  /\ \A f \in Folders : FolderLock(f) \in Applications!Keys
  /\ \A i \in Ids : ApplicationLock(i) \in Applications!Keys
  /\ \A f : Applications!FolderKey(f) = FolderLock(f)
  /\ \A i : Applications!AppKey(i) = ApplicationLock(i)
BY ConstantFacts
   DEF FolderLock, ApplicationLock, Applications!Keys, Applications!FolderKey, Applications!AppKey

\* The requests of S stay where they are and keep their locks.
Keeps(S) ==
  /\ RequestTypes'
  /\ \A q \in S :
       /\ pc'[q] = pc[q] /\ op'[q] = op[q]
       /\ \A k \in Applications!Keys : locks[k] = q => locks'[k] = q
Others(r) == Keeps(Requests \ {r})

Busy(r) == pc[r] \in Creating \cup Cloning \cup Placed

LEMMA BusyApart ==
  ASSUME NEW r \in Requests, NEW q \in Requests \ {r}, HoldsLocks(r), HoldsLocks(q)
  PROVE  /\ Busy(r) /\ Busy(q) => op[r].folder # op[q].folder
         /\ (pc[r] \in {"delete_begin"} \cup Deleting /\ pc[q] \in {"delete_begin"} \cup Deleting)
              => op[r].id # op[q].id
BY DEF HoldsLocks, Busy, Placed, Deleting

LEMMA RestHold ==
  ASSUME NEW S \in SUBSET Requests, Keeps(S), \A q \in Requests : HoldsLocks(q)
  PROVE  \A q \in S : HoldsLocks(q)'
  <1> TAKE q \in S
  <1>1. HoldsLocks(q) /\ pc'[q] = pc[q] /\ op'[q] = op[q]
    BY DEF Keeps
  <1>2. \A k \in Applications!Keys : locks[k] = q => locks'[k] = q
    BY DEF Keeps
  <1> QED  BY <1>1, <1>2, LocksApart DEF HoldsLocks, Placed, Deleting

LEMMA Idles == Applications!Idle \in Task /\ Applications!Idle.kind = "none"
               /\ Applications!Idle.id = None
BY DEF Applications!Idle, Task

\* The three ways a request goes on.
LEMMA GoesOn ==
  ASSUME NEW r \in Requests, RequestTypes,
         NEW step \in {"idle", "delete_begin"} \cup Creating \cup Cloning \cup Deleting,
         pc' = [pc EXCEPT ![r] = step], locks' = locks, op' = op
  PROVE  Others(r) /\ pc'[r] = step /\ op'[r] = op[r]
BY DEF Others, Keeps, RequestTypes

LEMMA Returns ==
  ASSUME NEW r \in Requests, RequestTypes, Applications!Return(r)
  PROVE  Others(r) /\ pc'[r] = "idle" /\ HoldsLocks(r)' /\ RequestKnown(r)'
  <1>1. pc' = [pc EXCEPT ![r] = "idle"] /\ op' = [op EXCEPT ![r] = Applications!Idle]
        /\ locks' = Applications!Freed(r)
    BY DEF Applications!Return, Applications!Go
  <1>2. pc'[r] = "idle" /\ pc' \in [Requests -> {"idle", "delete_begin"} \cup Creating \cup Cloning \cup Deleting]
        /\ \A q \in Requests \ {r} : pc'[q] = pc[q]
    BY <1>1 DEF RequestTypes
  <1>3. op' \in [Requests -> Task] /\ \A q \in Requests \ {r} : op'[q] = op[q]
    BY <1>1, Idles DEF RequestTypes
  <1>4. /\ locks' \in [Applications!Keys -> Requests \cup {None}]
        /\ \A q \in Requests \ {r} : \A k \in Applications!Keys : locks[k] = q => locks'[k] = q
    BY <1>1 DEF RequestTypes, Applications!Freed
  <1> QED
    BY <1>2, <1>3, <1>4
       DEF Others, Keeps, RequestTypes, HoldsLocks, RequestKnown, Creating, Cloning, Deleting, Placed

LEMMA TakesLock ==
  ASSUME NEW r \in Requests, RequestTypes, NEW k \in Applications!Keys,
         NEW step \in {"idle", "delete_begin"} \cup Creating \cup Cloning \cup Deleting,
         locks[k] = None, locks' = [locks EXCEPT ![k] = r], pc' = [pc EXCEPT ![r] = step],
         \/ op' = op
         \/ \E o \in Task : op' = [op EXCEPT ![r] = o]
  PROVE  Others(r) /\ pc'[r] = step /\ locks'[k] = r /\ \A l \in Applications!Keys : locks[l] = r => locks'[l] = r
  <1>1. /\ locks' \in [Applications!Keys -> Requests \cup {None}]
        /\ \A q \in Requests, l \in Applications!Keys : locks[l] = q => locks'[l] = q
        /\ locks'[k] = r
    BY ConstantFacts DEF RequestTypes
  <1>2. op' \in [Requests -> Task] /\ \A q \in Requests \ {r} : op'[q] = op[q]
    BY DEF RequestTypes
  <1>3. pc' \in [Requests -> {"idle", "delete_begin"} \cup Creating \cup Cloning \cup Deleting]
        /\ pc'[r] = step /\ \A q \in Requests \ {r} : pc'[q] = pc[q]
    BY DEF RequestTypes
  <1> QED  BY <1>1, <1>2, <1>3 DEF Others, Keeps, RequestTypes
---------------------------------------------------------------------------
(* What the changes of the database and the directories keep.              *)

Kept(S) ==
  /\ DataKnown' /\ \A i \in Ids : StageKnown(i)'
  /\ \A q \in S : RequestKnown(q)'

\* Nothing is done of which the intents say that it is done.
Checked(S) ==
  \A i \in Ids : Checking(i)' => Checking(i) \/ (intents[i] # None /\ intents[i].stage = "resources")

\* The intents say what they said, but for running and failed.
IntentsSay ==
  \A i \in Ids :
    /\ intents'[i] = None <=> intents[i] = None
    /\ intents[i] # None =>
         /\ intents'[i].folder = intents[i].folder /\ intents'[i].stage = intents[i].stage
         /\ intents'[i].state = "complete" <=> intents[i].state = "complete"

LEMMA Ready ==
  ASSUME AppInv
  PROVE  /\ \A i \in Ids : intents[i] # None =>
              /\ intents[i].folder \in Folders /\ intents[i].stage \in StageNames
              /\ Present(i) => rows[i] = intents[i].folder
              /\ intents[i].stage = "complete" => ~Present(i)
              /\ Active(i) => intents[i].stage # "complete"
         /\ \A i \in Ids : Present(i) => rows[i] \in Folders /\ i < nextId
         /\ \A i \in Ids : Present(i) /\ ~Active(i) => intents[i] = None
  <1>1. ASSUME NEW i \in Ids, intents[i] # None
        PROVE  intents[i] \in Intents
    BY <1>1 DEF AppInv, DataTypes
  <1>2. ASSUME NEW i \in Ids, intents[i] # None
        PROVE  /\ intents[i].folder \in Folders /\ intents[i].stage \in StageNames
               /\ Present(i) => rows[i] = intents[i].folder
               /\ intents[i].stage = "complete" <=> intents[i].state = "complete"
               /\ intents[i].stage = "complete" => ~Present(i)
    BY <1>1, <1>2 DEF AppInv, DataKnown, RowKnown, StageKnown, Past, Intents
  <1>3. \A i \in Ids : Present(i) => rows[i] \in Folders /\ i < nextId
    BY ConstantFacts DEF AppInv, DataTypes, DataKnown, RowKnown, Present, Ids
  <1> QED  BY <1>2, <1>3 DEF Active

LEMMA Quiet ==
  ASSUME AppInv, NEW S \in SUBSET Requests, Keeps(S), Checked(S), IntentsSay,
         UNCHANGED <<rows, nextId, services, routes, dirs, caddy, timers>>,
         \A i \in Ids : lease'[i] = "backup" => lease[i] = "backup"
  PROVE  Kept(S)
  <1>1. \A i \in Ids : (Present(i)' <=> Present(i)) /\ (Active(i)' <=> Active(i))
    BY DEF IntentsSay, Present, Active
  <1>2. DataKnown'
    <2>1. \A i \in Ids : RowKnown(i)' /\ FolderKnown(i)'
      BY <1>1 DEF AppInv, DataKnown, RowKnown, FolderKnown, IntentsSay, Active
    <2>2. RowsDiffer' /\ \A f \in Folders : DirKnown(f)'
      BY <1>1 DEF AppInv, DataKnown, RowsDiffer, DirKnown, IntentsSay
    <2> QED  BY <2>1, <2>2 DEF DataKnown
  <1>3. \A i \in Ids : StageKnown(i)'
    BY <1>1 DEF AppInv, StageKnown, Past, IntentsSay, Checked
  <1>4. ASSUME NEW q \in S
        PROVE  RequestKnown(q)'
    <2>1. HoldsLocks(q) /\ RequestKnown(q) /\ pc'[q] = pc[q] /\ op'[q] = op[q]
      BY DEF AppInv, Keeps
    <2> QED  BY <1>1, <2>1 DEF RequestKnown, HoldsLocks, IntentsSay, Active, Deleting
  <1> QED  BY <1>2, <1>3, <1>4 DEF Kept

LEMMA DirectoryMade ==
  ASSUME AppInv, NEW r \in Requests, Others(r), Busy(r),
         dirs[op[r].folder] = None, dirs' = [dirs EXCEPT ![op[r].folder] = 0],
         \A i \in Ids : Active(i) => intents[i].folder # op[r].folder,
         pc'[r] # "delete_checkpoint",
         UNCHANGED <<rows, nextId, services, routes, intents, lease, caddy, timers>>
  PROVE  Kept(Requests \ {r})
  <1> DEFINE f == op[r].folder
  <1>1. f \in Folders /\ dirs'[f] = 0 /\ \A g \in Folders \ {f} : dirs'[g] = dirs[g]
    BY DEF AppInv, HoldsLocks, Busy, Placed, Deleting, DataTypes
  <1>2. \A i \in Ids : Present(i) /\ ~Active(i) => rows[i] # f
    BY <1>1, ConstantFacts DEF AppInv, DataKnown, FolderKnown
  <1> HIDE DEF f
  <1>3. DataKnown'
    <2>1. \A i \in Ids : RowKnown(i)'
      BY DEF AppInv, DataKnown, RowKnown, Present
    <2>2. \A i \in Ids : FolderKnown(i)'
      BY <1>1, <1>2, Ready DEF AppInv, DataKnown, FolderKnown, Present, Active, f
    <2>3. RowsDiffer' /\ \A g \in Folders : DirKnown(g)'
      BY <1>1 DEF AppInv, DataKnown, RowsDiffer, DirKnown, Present, Ids
    <2> QED  BY <2>1, <2>2, <2>3 DEF DataKnown
  <1>4. \A i \in Ids : Checking(i)' => Checking(i)
    BY DEF Checking, Others, Keeps
  <1>5. \A i \in Ids : StageKnown(i)'
    <2>1. \A i \in Ids : 0 # i
      BY DEF Ids
    <2> QED  BY <1>1, <1>4, <2>1, Ready DEF AppInv, StageKnown, Past, Present
  <1>6. ASSUME NEW q \in Requests \ {r}
        PROVE  RequestKnown(q)'
    <2>1. HoldsLocks(q) /\ RequestKnown(q) /\ pc'[q] = pc[q] /\ op'[q] = op[q]
      BY DEF AppInv, Others, Keeps
    <2>2. Busy(q) => op[q].folder # f /\ op[q].folder \in Folders
      BY BusyApart DEF AppInv, f, HoldsLocks, Busy, Placed, Deleting
    <2> QED
      BY <1>1, <2>1, <2>2
         DEF RequestKnown, HoldsLocks, Active, Busy, Creating, Cloning, Deleting, Placed
  <1> QED  BY <1>3, <1>5, <1>6 DEF Kept

\* Request r begins to checkpoint a stage that it has done.
AlsoChecks(r, stage) ==
  \A i \in Ids : Checking(i)' =>
    Checking(i) \/ (/\ i = op[r].id /\ intents[i] # None /\ intents[i].stage = stage
                    /\ intents[i].folder = op[r].folder)

LEMMA DirectoryGone ==
  ASSUME AppInv, NEW r \in Requests, Others(r), Busy(r),
         dirs' = [dirs EXCEPT ![op[r].folder] = None],
         \A i \in Ids : Present(i) /\ ~Active(i) => rows[i] # op[r].folder,
         AlsoChecks(r, "folder"),
         UNCHANGED <<rows, nextId, services, routes, intents, lease, caddy, timers>>
  PROVE  Kept(Requests \ {r})
  <1> DEFINE f == op[r].folder
  <1>1. f \in Folders /\ dirs'[f] = None /\ \A g \in Folders \ {f} : dirs'[g] = dirs[g]
    BY DEF AppInv, HoldsLocks, Busy, Placed, Deleting, DataTypes
  <1>2. \A i \in Ids : Present(i) /\ ~Active(i) => rows[i] # f
    BY DEF f
  <1> HIDE DEF f
  <1>3. DataKnown'
    <2>1. \A i \in Ids : RowKnown(i)'
      BY DEF AppInv, DataKnown, RowKnown, Present
    <2>2. \A i \in Ids : FolderKnown(i)'
      BY <1>1, <1>2, Ready DEF AppInv, DataKnown, FolderKnown, Present, Active
    <2>3. RowsDiffer' /\ \A g \in Folders : DirKnown(g)'
      BY <1>1, ConstantFacts DEF AppInv, DataKnown, RowsDiffer, DirKnown, Present
    <2> QED  BY <2>1, <2>2, <2>3 DEF DataKnown
  <1>5. ASSUME NEW i \in Ids
        PROVE  StageKnown(i)'
    <2>1. StageKnown(i) /\ None # i
      BY ConstantFacts DEF AppInv
    <2>2. intents[i] # None => intents[i].folder \in Folders
      BY Ready
    <2> QED  BY <1>1, <2>1, <2>2 DEF StageKnown, Past, Present, AlsoChecks, f
  <1>6. ASSUME NEW q \in Requests \ {r}
        PROVE  RequestKnown(q)'
    <2>1. HoldsLocks(q) /\ RequestKnown(q) /\ pc'[q] = pc[q] /\ op'[q] = op[q]
      BY DEF AppInv, Others, Keeps
    <2>2. Busy(q) => op[q].folder # f /\ op[q].folder \in Folders
      BY BusyApart DEF AppInv, f, HoldsLocks, Busy, Placed, Deleting
    <2> QED
      BY <1>1, <2>1, <2>2
         DEF RequestKnown, HoldsLocks, Active, Busy, Creating, Cloning, Deleting, Placed
  <1> QED  BY <1>3, <1>5, <1>6 DEF Kept

LEMMA RowInserted ==
  ASSUME AppInv, NEW r \in Requests, Others(r), pc[r] \in {"create_row", "clone_row"},
         Applications!InsertApplication(nextId, op[r].folder),
         dirs' = [dirs EXCEPT ![op[r].folder] = nextId],
         pc'[r] # "delete_checkpoint",
         UNCHANGED <<services, routes, intents, lease, caddy, timers>>
  PROVE  Kept(Requests \ {r}) /\ rows'[nextId] = op[r].folder
  <1> DEFINE f == op[r].folder
             n == nextId
  <1>1. /\ f \in Folders /\ dirs'[f] = n /\ dirs[f] = 0
        /\ \A g \in Folders \ {f} : dirs'[g] = dirs[g]
    BY DEF AppInv, HoldsLocks, RequestKnown, Creating, Cloning, Deleting, DataTypes
  <1>2. /\ n \in Ids /\ rows'[n] = f /\ nextId' = n + 1 /\ \A j \in Ids : rows[j] # f
        /\ \A j \in Ids \ {n} : rows'[j] = rows[j]
    BY ConstantFacts DEF Applications!InsertApplication, AppInv, DataTypes
  <1>3. rows[n] = None /\ intents[n] = None /\ n \notin services \cup routes
        /\ lease[n] # "backup"
    BY <1>2 DEF AppInv, DataKnown, RowKnown, Present, Ids
  <1> HIDE DEF f, n
  <1>4. \A i \in Ids : (Active(i)' <=> Active(i)) /\ (i # n => (Present(i)' <=> Present(i)))
                       /\ (i = n => Present(i)' /\ ~Active(i))
    BY <1>1, <1>2, <1>3, ConstantFacts DEF Active, Present
  <1>5. \A i \in Ids : Active(i) => intents[i].folder # f /\ intents[i].folder \in Folders
    BY <1>1, ConstantFacts, Ready DEF AppInv, DataKnown, FolderKnown, Active, Ids
  <1>6. DataKnown'
    <2>1. \A i \in Ids : RowKnown(i)'
      BY <1>2, <1>3, <1>4 DEF AppInv, DataKnown, RowKnown, Ids, n
    <2>2. \A i \in Ids : FolderKnown(i)'
      <3> TAKE i \in Ids
      <3>1. CASE i = n
        BY <1>1, <1>2, <1>4, <3>1 DEF FolderKnown
      <3>2. CASE i # n
        <4>1. Present(i) => rows[i] \in Folders \ {f}
          BY <1>2, Ready
        <4> QED
          BY <1>1, <1>2, <1>4, <1>5, <3>2, <4>1 DEF AppInv, DataKnown, FolderKnown
      <3> QED  BY <3>1, <3>2
    <2>3. RowsDiffer'
      BY <1>2, <1>4 DEF AppInv, DataKnown, RowsDiffer
    <2>4. \A g \in Folders : DirKnown(g)'
      BY <1>1, <1>2 DEF AppInv, DataKnown, DirKnown, Ids, n
    <2> QED  BY <2>1, <2>2, <2>3, <2>4 DEF DataKnown
  <1>7. \A i \in Ids : Checking(i)' => Checking(i)
    BY DEF Checking, Others, Keeps
  <1>8. \A i \in Ids : StageKnown(i)'
    BY <1>1, <1>3, <1>4, <1>7, Ready DEF AppInv, StageKnown, Past
  <1>9. ASSUME NEW q \in Requests \ {r}
        PROVE  RequestKnown(q)'
    <2>1. HoldsLocks(q) /\ RequestKnown(q) /\ pc'[q] = pc[q] /\ op'[q] = op[q]
      BY DEF AppInv, Others, Keeps
    <2>2. Busy(q) => op[q].folder # f /\ op[q].folder \in Folders
      BY BusyApart DEF AppInv, f, HoldsLocks, Busy, Creating, Cloning, Placed, Deleting
    <2>3. op[q].id = n => rows[op[q].id] = None
      BY <1>3
    <2> QED
      BY <1>1, <1>2, <1>3, <1>4, <2>1, <2>2, <2>3, ConstantFacts
         DEF RequestKnown, HoldsLocks, Busy, Creating, Cloning, Deleting, Placed
  <1> QED  BY <1>2, <1>6, <1>8, <1>9 DEF Kept, n, f

LEMMA RowDeleted ==
  ASSUME AppInv, NEW r \in Requests, Others(r), Busy(r), op[r].id \in Ids,
         Applications!DeleteRow(op[r].id),
         Present(op[r].id) => rows[op[r].id] = op[r].folder,
         \/ dirs' = dirs /\ Active(op[r].id)
         \/ dirs' = [dirs EXCEPT ![op[r].folder] = None] /\ Present(op[r].id),
         AlsoChecks(r, "metadata"),
         UNCHANGED <<nextId, intents, caddy, timers>>
  PROVE  Kept(Requests \ {r})
  <1> DEFINE f == op[r].folder
             n == op[r].id
  <1>1. f \in Folders /\ \A g \in Folders \ {f} : dirs'[g] = dirs[g]
    BY DEF AppInv, HoldsLocks, Busy, Placed, Deleting, DataTypes
  <1>2. /\ n \in Ids /\ rows'[n] = None /\ \A j \in Ids \ {n} : rows'[j] = rows[j]
        /\ services' = services \ {n} /\ routes' = routes \ {n}
        /\ lease' = [lease EXCEPT ![n] = "free"]
    BY DEF Applications!DeleteRow, AppInv, DataTypes
  <1>3. dirs'[f] = dirs[f] \/ dirs'[f] = None
    BY <1>1 DEF AppInv, DataTypes
  <1>4. Present(n) => rows[n] = f
    OBVIOUS
  <1>5. \/ dirs' = dirs /\ Active(n)
        \/ dirs'[f] = None /\ Present(n)
    BY <1>1 DEF AppInv, DataTypes
  <1> HIDE DEF f, n
  <1>6. \A i \in Ids : (Active(i)' <=> Active(i)) /\ (i # n => (Present(i)' <=> Present(i)))
                       /\ (i = n => ~Present(i)')
    BY <1>2 DEF Active, Present
  <1>7. \A i \in Ids : lease'[i] = "backup" => lease[i] = "backup" /\ i # n
    BY <1>2 DEF AppInv, DataTypes
  <1>8. DataKnown'
    <2>1. \A i \in Ids : RowKnown(i)'
      BY <1>2, <1>6, <1>7 DEF AppInv, DataKnown, RowKnown
    <2>2. \A i \in Ids : FolderKnown(i)'
      <3> TAKE i \in Ids
      <3>1. i # n /\ Present(i) => rows[i] = rows'[i] /\ rows[i] \in Folders
                                   /\ (Present(n) => rows[i] # f)
        BY <1>2, <1>4, Ready DEF AppInv, DataKnown, RowsDiffer
      <3>2. Active(i) => intents[i].folder \in Folders
        BY Ready DEF Active
      <3>3. FolderKnown(i)
        BY DEF AppInv, DataKnown
      <3> QED  BY <1>1, <1>3, <1>5, <1>6, <3>1, <3>2, <3>3 DEF FolderKnown
    <2>3. RowsDiffer'
      <3>1. \A i \in Ids : Present(i)' => i # n /\ Present(i) /\ rows'[i] = rows[i]
        BY <1>2, <1>6
      <3>2. \A j \in Ids : rows'[j] = rows[j] \/ ~Present(j)'
        BY <1>2, <1>6
      <3>3. \A i, j \in Ids : Present(i)' /\ rows'[i] = rows'[j] => Present(j)'
        BY DEF Present
      <3> QED  BY <3>1, <3>2, <3>3 DEF AppInv, DataKnown, RowsDiffer
    <2>4. ASSUME NEW g \in Folders
          PROVE  DirKnown(g)'
      <3>1. DirKnown(g)
        BY DEF AppInv, DataKnown
      <3>2. CASE dirs'[g] = dirs[g] /\ dirs[g] = n
        <4>1. intents[n] # None /\ Present(n) => rows[n] = intents[n].folder
          BY <1>2, Ready
        <4>2. Present(n) /\ dirs'[f] = None => g # f
          BY <1>2, <3>2, ConstantFacts
        <4> QED
          BY <1>2, <1>4, <1>5, <3>1, <3>2, <4>1, <4>2, ConstantFacts DEF DirKnown, Present, Active
      <3>3. CASE dirs'[g] = dirs[g] /\ dirs[g] # n
        BY <1>2, <3>1, <3>3 DEF DirKnown
      <3>4. CASE dirs'[g] = None
        BY <3>4, ConstantFacts DEF DirKnown
      <3> QED  BY <1>1, <1>3, <3>2, <3>3, <3>4
    <2> QED  BY <2>1, <2>2, <2>3, <2>4 DEF DataKnown
  <1>9. ASSUME NEW i \in Ids
        PROVE  StageKnown(i)'
    <2>1. StageKnown(i) /\ None # i /\ (intents[i] # None => intents[i].folder \in Folders)
      BY Ready, ConstantFacts DEF AppInv
    <2> QED  BY <1>1, <1>3, <1>6, <2>1 DEF StageKnown, Past, AlsoChecks, n
  <1>10. ASSUME NEW q \in Requests \ {r}
        PROVE  RequestKnown(q)'
    <2>1. HoldsLocks(q) /\ RequestKnown(q) /\ pc'[q] = pc[q] /\ op'[q] = op[q]
      BY DEF AppInv, Others, Keeps
    <2>2. Busy(q) => op[q].folder # f /\ op[q].folder \in Folders
      BY BusyApart DEF AppInv, f, HoldsLocks, Busy, Placed, Deleting
    <2>3. pc[q] \in {"clone_contents", "clone_validate"} => op[q].id # n
      BY <1>4, <2>1, <2>2, ConstantFacts DEF RequestKnown, Busy, Cloning, Present
    <2> QED
      BY <1>1, <1>2, <1>6, <1>7, <2>1, <2>2, <2>3
         DEF RequestKnown, HoldsLocks, Active, Busy, Creating, Cloning, Deleting, Placed
  <1> QED  BY <1>8, <1>9, <1>10 DEF Kept

LEMMA OutsideChanged ==
  ASSUME AppInv, NEW S \in SUBSET Requests, Keeps(S),
         UNCHANGED <<rows, nextId, intents, lease, dirs>>,
         services \subseteq services', \A i \in services' \cup routes' : Present(i),
         \A i \in Ids : StageKnown(i)'
  PROVE  Kept(S)
  <1>1. DataKnown'
    <2>1. \A i \in Ids : RowKnown(i)' /\ FolderKnown(i)'
      BY DEF AppInv, DataKnown, RowKnown, FolderKnown, Present, Active
    <2>2. RowsDiffer' /\ \A f \in Folders : DirKnown(f)'
      BY DEF AppInv, DataKnown, RowsDiffer, DirKnown, Present
    <2> QED  BY <2>1, <2>2 DEF DataKnown
  <1>2. ASSUME NEW q \in S
        PROVE  RequestKnown(q)'
    <2>1. HoldsLocks(q) /\ RequestKnown(q) /\ pc'[q] = pc[q] /\ op'[q] = op[q]
      BY DEF AppInv, Keeps
    <2> QED  BY <2>1 DEF RequestKnown, HoldsLocks, Active, Deleting
  <1> QED  BY <1>1, <1>2 DEF Kept

LEMMA BackupLeased ==
  ASSUME AppInv, NEW i \in Ids, Keeps(Requests), i \in services, ~Active(i),
         lease' = [lease EXCEPT ![i] = "backup"],
         UNCHANGED <<rows, nextId, services, routes, intents, dirs, caddy, timers>>
  PROVE  Kept(Requests)
  <1>1. DataKnown'
    <2>1. \A j \in Ids : RowKnown(j)' /\ FolderKnown(j)'
      BY DEF AppInv, DataTypes, DataKnown, RowKnown, FolderKnown, Present, Active
    <2>2. RowsDiffer' /\ \A f \in Folders : DirKnown(f)'
      BY DEF AppInv, DataKnown, RowsDiffer, DirKnown, Present
    <2> QED  BY <2>1, <2>2 DEF DataKnown
  <1>2. \A j \in Ids : StageKnown(j)'
    BY DEF AppInv, StageKnown, Past, Present, Checking, Keeps
  <1>3. ASSUME NEW q \in Requests
        PROVE  RequestKnown(q)'
    <2>1. HoldsLocks(q) /\ RequestKnown(q) /\ pc'[q] = pc[q] /\ op'[q] = op[q]
      BY DEF AppInv, Keeps
    <2>2. pc[q] \in Deleting => op[q].id \in Ids \ {i}
      BY <2>1 DEF HoldsLocks, RequestKnown
    <2>3. \A j \in Ids \ {i} : lease'[j] = lease[j]
      BY DEF AppInv, DataTypes
    <2> QED  BY <2>1, <2>2, <2>3 DEF RequestKnown, HoldsLocks, Active, Deleting
  <1> QED  BY <1>1, <1>2, <1>3 DEF Kept

LEMMA IntentBegun ==
  ASSUME AppInv, NEW r \in Requests, Others(r), pc[r] = "delete_begin", pc'[r] = "delete_folder",
         Present(op[r].id), intents[op[r].id] = None,
         intents' = [intents EXCEPT ![op[r].id] = Applications!Intent(rows[op[r].id])],
         UNCHANGED <<rows, nextId, services, routes, lease, dirs, caddy, timers>>
  PROVE  Kept(Requests \ {r})
  <1> DEFINE n == op[r].id
  <1>1. n \in Ids
    BY DEF AppInv, HoldsLocks
  <1> HIDE DEF n
  <1>2. rows[n] \in Folders /\ dirs[rows[n]] = n /\ n # None
    BY <1>1, Ready, ConstantFacts DEF AppInv, DataKnown, FolderKnown, Active, n
  <1>3. /\ \A i \in Ids \ {n} : intents'[i] = intents[i]
        /\ intents'[n] # None /\ intents'[n].folder = rows[n] /\ intents'[n].stage = "schedules"
        /\ intents'[n].state = "running"
    <2>1. Applications!Intent(rows[n]) \in Intents
      BY <1>2 DEF Applications!Intent, Intents, StageNames
    <2>2. intents'[n] = Applications!Intent(rows[n]) /\ \A i \in Ids \ {n} : intents'[i] = intents[i]
      BY <1>1 DEF AppInv, DataTypes, n
    <2> QED  BY <2>1, <2>2, ConstantFacts DEF Applications!Intent
  <1>4. \A i \in Ids : (Present(i)' <=> Present(i)) /\ (i # n => (Active(i)' <=> Active(i)))
                       /\ (i = n => Active(i)' /\ Present(i))
    BY <1>3 DEF Active, Present, n
  <1>5. DataKnown'
    <2>1. \A i \in Ids : RowKnown(i)'
      <3>1. n < nextId
        BY <1>1, <1>4, Ready
      <3> QED  BY <1>3, <1>4, <3>1 DEF AppInv, DataKnown, RowKnown, DataTypes, Ids
    <2>2. \A i \in Ids : FolderKnown(i)'
      BY <1>2, <1>3, <1>4 DEF AppInv, DataKnown, FolderKnown
    <2>3. RowsDiffer' /\ \A f \in Folders : DirKnown(f)'
      BY <1>2, <1>3 DEF AppInv, DataKnown, RowsDiffer, DirKnown, Present
    <2> QED  BY <2>1, <2>2, <2>3 DEF DataKnown
  <1>6. ASSUME NEW q \in Requests \ {r}
        PROVE  RequestKnown(q)' /\ (pc'[q] \in Deleting => op'[q].id # n)
    <2>1. HoldsLocks(q) /\ RequestKnown(q) /\ pc'[q] = pc[q] /\ op'[q] = op[q]
      BY DEF AppInv, Others, Keeps
    <2>2. pc[q] \in Deleting => op[q].id \in Ids \ {n}
      BY <2>1 DEF HoldsLocks, RequestKnown, Active, n
    <2> QED
      BY <1>2, <1>3, <1>4, <2>1, <2>2 DEF RequestKnown, HoldsLocks, Deleting
  <1>7. \A i \in Ids : Checking(i)' => Checking(i) /\ i # n
    BY <1>6 DEF Checking, Others, Keeps, Deleting
  <1>8. \A i \in Ids : StageKnown(i)'
    BY <1>3, <1>4, <1>7 DEF AppInv, StageKnown, Past
  <1> QED  BY <1>5, <1>6, <1>8 DEF Kept

LEMMA IntentWith ==
  ASSUME NEW x \in Intents, NEW stage, NEW state, NEW y,
         y = [x EXCEPT !.stage = stage, !.state = state]
  PROVE  y = [folder |-> x.folder, stage |-> stage, state |-> state]
BY DEF Intents

LEMMA CheckpointedIs ==
  ASSUME NEW i \in Ids, intents \in [Ids -> Intents \cup {None}], intents[i] \in Intents,
         NEW stage \in StageNames, NEW state \in {"running", "failed", "complete"},
         NEW new, new = Applications!Checkpointed(i, stage, state)
  PROVE  /\ new \in [Ids -> Intents \cup {None}] /\ new[i] \in Intents
         /\ new[i].folder = intents[i].folder /\ new[i].stage = stage /\ new[i].state = state
         /\ \A j \in Ids \ {i} : new[j] = intents[j]
  <1> DEFINE x == intents[i]
             y == [x EXCEPT !.stage = stage, !.state = state]
  <1>1. y = [folder |-> x.folder, stage |-> stage, state |-> state]
    BY IntentWith
  <1>2. y \in Intents /\ y.folder = x.folder /\ y.stage = stage /\ y.state = state
    BY <1>1 DEF Intents
  <1>3. new = [intents EXCEPT ![i] = y]
    BY DEF Applications!Checkpointed
  <1> HIDE DEF y
  <1> QED  BY <1>2, <1>3

\* The stage after another.
Following(stage, next) ==
  \/ stage = "schedules" /\ next = "resources"
  \/ stage = "resources" /\ next = "metadata"
  \/ stage = "metadata" /\ next = "routing"
  \/ stage = "routing" /\ next = "folder"
  \/ stage = "folder" /\ next = "complete"

LEMMA Checkpoint ==
  ASSUME AppInv, NEW r \in Requests, Others(r), pc[r] = "delete_checkpoint",
         pc'[r] # "delete_checkpoint",
         NEW next \in StageNames, Following(intents[op[r].id].stage, next),
         NEW state \in {"running", "complete"}, state = "complete" <=> next = "complete",
         intents' = Applications!Checkpointed(op[r].id, next, state),
         \A i \in Ids : lease'[i] = "backup" => lease[i] = "backup",
         UNCHANGED <<rows, nextId, services, routes, dirs, caddy, timers>>
  PROVE  Kept(Requests \ {r})
  <1> DEFINE n == op[r].id
  <1>1. n \in Ids /\ Active(n) /\ Checking(n)
    BY DEF AppInv, HoldsLocks, RequestKnown, Deleting, Checking
  <1>2. intents[n] \in Intents
    BY <1>1 DEF AppInv, DataTypes, Active
  <1> HIDE DEF n
  <1>3. /\ \A i \in Ids \ {n} : intents'[i] = intents[i]
        /\ intents'[n] # None /\ intents'[n].folder = intents[n].folder
        /\ intents'[n].stage = next /\ intents'[n].state = state
    <2>1. intents \in [Ids -> Intents \cup {None}]
      BY DEF AppInv, DataTypes
    <2>2. intents' = Applications!Checkpointed(n, next, state)
      BY DEF n
    <2> HIDE DEF n
    <2> QED  BY <1>1, <1>2, <2>1, <2>2, CheckpointedIs, ConstantFacts
  <1>4. \A i \in Ids : (Present(i)' <=> Present(i)) /\ (Active(i)' => Active(i))
                       /\ (i # n => (Active(i)' <=> Active(i)))
                       /\ (i = n /\ next # "complete" => Active(i)')
    BY <1>1, <1>3 DEF Active, Present
  <1>5. next = "complete" => ~Present(n)
    <2>1. next = "complete" => intents[n].stage = "folder"
      BY DEF Following, n
    <2> QED  BY <1>1, <2>1 DEF AppInv, StageKnown, Past, Active
  <1>6. DataKnown'
    <2>1. \A i \in Ids : RowKnown(i)'
      BY <1>1, <1>3, <1>4 DEF AppInv, DataKnown, RowKnown, Active
    <2>2. \A i \in Ids : FolderKnown(i)'
      BY <1>3, <1>4, <1>5 DEF AppInv, DataKnown, FolderKnown
    <2>3. RowsDiffer' /\ \A f \in Folders : DirKnown(f)'
      BY <1>1, <1>3 DEF AppInv, DataKnown, RowsDiffer, DirKnown, Present, Active
    <2> QED  BY <2>1, <2>2, <2>3 DEF DataKnown
  <1>7. ASSUME NEW q \in Requests \ {r}
        PROVE  RequestKnown(q)' /\ (pc'[q] \in Deleting => op'[q].id # n)
    <2>1. HoldsLocks(q) /\ RequestKnown(q) /\ pc'[q] = pc[q] /\ op'[q] = op[q]
      BY DEF AppInv, Others, Keeps
    <2>2. pc[q] \in Deleting => op[q].id \in Ids \ {n}
      BY <2>1, BusyApart DEF AppInv, HoldsLocks, Deleting, n
    <2> QED
      BY <1>1, <1>3, <1>4, <2>1, <2>2 DEF RequestKnown, HoldsLocks, Deleting, Active
  <1>8. \A i \in Ids : Checking(i)' => Checking(i) /\ i # n
    BY <1>7 DEF Checking, Others, Keeps, Deleting
  <1>9. ASSUME NEW i \in Ids
        PROVE  StageKnown(i)'
    <2>1. CASE i # n
      BY <1>3, <1>4, <1>8, <2>1 DEF AppInv, StageKnown, Past
    <2>2. CASE i = n
      <3>1. StageKnown(i) /\ intents[i] # None /\ Checking(i) /\ ~Checking(i)'
        BY <1>1, <1>8, <2>2 DEF AppInv, Active
      <3> QED  BY <1>3, <1>4, <2>2, <3>1 DEF StageKnown, Past, Following, n
    <2> QED  BY <2>1, <2>2
  <1> QED  BY <1>6, <1>7, <1>9 DEF Kept
---------------------------------------------------------------------------
(* Creating and cloning.                                                   *)

LEMMA NotChecking ==
  ASSUME NEW r \in Requests, Others(r), pc'[r] # "delete_checkpoint"
  PROVE  /\ Checked(Requests \ {r}) /\ \A i \in Ids : Checking(i)' => Checking(i)
         /\ \A stage : AlsoChecks(r, stage)
  <1>1. \A i \in Ids : Checking(i)' => Checking(i)
    BY DEF Others, Keeps, Checking
  <1> QED  BY <1>1 DEF Checked, AlsoChecks

LEMMA Concluded ==
  ASSUME AppInv, NEW r \in Requests, Others(r), DataTypes', Kept(Requests \ {r}),
         HoldsLocks(r)', RequestKnown(r)'
  PROVE  AppInv'
  <1>1. RequestTypes'
    BY DEF Others, Keeps
  <1>2. \A q \in Requests \ {r} : HoldsLocks(q)'
    BY RestHold DEF Others, AppInv
  <1>3. \A q \in Requests : HoldsLocks(q)' /\ RequestKnown(q)'
    BY <1>2 DEF Kept
  <1> QED  BY <1>1, <1>3 DEF AppInv, Kept

\* A request goes on and only leases, containers and results of steps change.
LEMMA QuietConcluded ==
  ASSUME AppInv, NEW r \in Requests, Others(r), DataTypes', HoldsLocks(r)', RequestKnown(r)',
         pc'[r] # "delete_checkpoint", IntentsSay,
         UNCHANGED <<rows, nextId, services, routes, dirs, caddy, timers>>,
         \A i \in Ids : lease'[i] = "backup" => lease[i] = "backup"
  PROVE  AppInv'
  <1>1. Kept(Requests \ {r})
    BY NotChecking, Quiet DEF Others
  <1> QED  BY <1>1, Concluded

LEMMA SameIntents == intents' = intents => IntentsSay
BY DEF IntentsSay

LEMMA BeginKeeps ==
  ASSUME AppInv, NEW r \in Requests, NEW o \in Task, NEW k \in Applications!Keys,
         NEW to \in {"create_check", "clone_reserved", "delete_begin"},
         Applications!Begin(r, o, k, to),
         to = "create_check" =>
           o.kind = "create" /\ o.folder \in Folders /\ k = FolderLock(o.folder),
         to = "clone_reserved" =>
           /\ o.kind = "clone" /\ o.folder \in Folders /\ k = FolderLock(o.folder)
           /\ o.source \in Ids /\ o.id = None,
         to = "delete_begin" => o.id \in Ids /\ k = ApplicationLock(o.id)
  PROVE  AppInv'
  <1>1. /\ locks[k] = None /\ locks' = [locks EXCEPT ![k] = r] /\ pc' = [pc EXCEPT ![r] = to]
        /\ op' = [op EXCEPT ![r] = o]
        /\ UNCHANGED <<rows, nextId, services, routes, intents, lease, dirs, containers, caddy,
                       timers>>
    BY DEF Applications!Begin, Applications!At, Applications!Go, Applications!database,
           Applications!outside
  <1>2. RequestTypes /\ to \in {"idle", "delete_begin"} \cup Creating \cup Cloning \cup Deleting
    BY DEF AppInv, Creating, Cloning
  <1>3. Others(r) /\ pc'[r] = to /\ locks'[k] = r
    BY <1>1, <1>2, TakesLock
  <1>4. op'[r] = o
    BY <1>1, <1>2 DEF RequestTypes
  <1>5. HoldsLocks(r)' /\ RequestKnown(r)'
    BY <1>3, <1>4 DEF HoldsLocks, RequestKnown, Creating, Cloning, Deleting, Placed
  <1>6. DataTypes'
    BY <1>1 DEF AppInv, DataTypes
  <1> QED  BY <1>1, <1>3, <1>5, <1>6, QuietConcluded, SameIntents

LEMMA AskedToCreate ==
  ASSUME NEW k, NEW f, NEW o, o = [Applications!Idle EXCEPT !.kind = k, !.folder = f]
  PROVE  o = [kind |-> k, id |-> None, folder |-> f, source |-> None]
BY DEF Applications!Idle

LEMMA AskedToClone ==
  ASSUME NEW k, NEW f, NEW i, NEW o,
         o = [Applications!Idle EXCEPT !.kind = k, !.folder = f, !.source = i]
  PROVE  o = [kind |-> k, id |-> None, folder |-> f, source |-> i]
BY DEF Applications!Idle

LEMMA AskedToDelete ==
  ASSUME NEW k, NEW i, NEW o, o = [Applications!Idle EXCEPT !.kind = k, !.id = i]
  PROVE  o = [kind |-> k, id |-> i, folder |-> None, source |-> None]
BY DEF Applications!Idle

LEMMA Begins ==
  ASSUME AppInv, NEW r \in Requests,
         \/ Applications!CreateApplication(r)
         \/ Applications!CloneApplication(r)
         \/ Applications!DeleteApplication(r)
  PROVE  AppInv'
  <1>1. CASE Applications!CreateApplication(r)
    <2>1. PICK f \in Folders :
            Applications!Begin(r, [Applications!Idle EXCEPT !.kind = "create", !.folder = f],
                               Applications!FolderKey(f), "create_check")
      BY <1>1 DEF Applications!CreateApplication
    <2> DEFINE o == [Applications!Idle EXCEPT !.kind = "create", !.folder = f]
    <2>2. o = [kind |-> "create", id |-> None, folder |-> f, source |-> None]
      BY AskedToCreate
    <2>3. o \in Task /\ o.kind = "create" /\ o.folder = f
      BY <2>2 DEF Task
    <2>4. Applications!Begin(r, o, FolderLock(f), "create_check")
      BY <2>1, LocksApart
    <2> HIDE DEF o
    <2> QED  BY <2>3, <2>4, BeginKeeps, LocksApart
  <1>2. CASE Applications!CloneApplication(r)
    <2>1. PICK f \in Folders, i \in Ids :
            Applications!Begin(r, [Applications!Idle EXCEPT !.kind = "clone", !.folder = f,
                                                            !.source = i],
                               Applications!FolderKey(f), "clone_reserved")
      BY <1>2, ConstantFacts DEF Applications!CloneApplication
    <2> DEFINE o == [Applications!Idle EXCEPT !.kind = "clone", !.folder = f, !.source = i]
    <2>2. o = [kind |-> "clone", id |-> None, folder |-> f, source |-> i]
      BY AskedToClone
    <2>3. o \in Task /\ o.kind = "clone" /\ o.folder = f /\ o.source = i /\ o.id = None
      BY <2>2 DEF Task
    <2>4. Applications!Begin(r, o, FolderLock(f), "clone_reserved")
      BY <2>1, LocksApart
    <2> HIDE DEF o
    <2> QED  BY <2>3, <2>4, BeginKeeps, LocksApart
  <1>3. CASE Applications!DeleteApplication(r)
    <2>1. PICK i \in Ids :
            Applications!Begin(r, [Applications!Idle EXCEPT !.kind = "delete", !.id = i],
                               Applications!AppKey(i), "delete_begin")
      BY <1>3, ConstantFacts DEF Applications!DeleteApplication
    <2> DEFINE o == [Applications!Idle EXCEPT !.kind = "delete", !.id = i]
    <2>2. o = [kind |-> "delete", id |-> i, folder |-> None, source |-> None]
      BY AskedToDelete
    <2>3. o \in Task /\ o.id = i
      BY <2>2 DEF Task
    <2>4. Applications!Begin(r, o, ApplicationLock(i), "delete_begin")
      BY <2>1, LocksApart
    <2> HIDE DEF o
    <2> QED  BY <2>3, <2>4, BeginKeeps, LocksApart
  <1> QED  BY <1>1, <1>2, <1>3

\* A request returns and nothing but leases and results of steps changed.
LEMMA ReturnConcluded ==
  ASSUME AppInv, NEW r \in Requests, Applications!Return(r), DataTypes', IntentsSay,
         UNCHANGED <<rows, nextId, services, routes, dirs, caddy, timers>>,
         \A i \in Ids : lease'[i] = "backup" => lease[i] = "backup"
  PROVE  AppInv'
  <1>1. Others(r) /\ pc'[r] = "idle" /\ HoldsLocks(r)' /\ RequestKnown(r)'
    BY Returns DEF AppInv
  <1> QED  BY <1>1, QuietConcluded

\* A request takes its second lock.
LEMMA SecondLock ==
  ASSUME AppInv, NEW r \in Requests, NEW k \in Applications!Keys, NEW from,
         NEW to \in {"clone_check", "delete_leases"},
         Applications!TakeLock(r, k, from, to)
  PROVE  /\ Others(r) /\ pc[r] = from /\ pc'[r] = to /\ op'[r] = op[r] /\ locks'[k] = r
         /\ \A l \in Applications!Keys : locks[l] = r => locks'[l] = r
         /\ DataTypes' /\ op' = op
         /\ UNCHANGED <<rows, nextId, services, routes, intents, lease, dirs, caddy, timers>>
  <1>1. /\ pc[r] = from /\ locks[k] = None /\ locks' = [locks EXCEPT ![k] = r]
        /\ pc' = [pc EXCEPT ![r] = to] /\ op' = op
        /\ UNCHANGED <<rows, nextId, services, routes, intents, lease, dirs, containers, caddy,
                       timers>>
    BY DEF Applications!TakeLock, Applications!At, Applications!Go, Applications!database,
           Applications!outside
  <1>2. RequestTypes /\ to \in {"idle", "delete_begin"} \cup Creating \cup Cloning \cup Deleting
    BY DEF AppInv, Cloning, Deleting
  <1>3. DataTypes'
    BY <1>1 DEF AppInv, DataTypes
  <1> QED  BY <1>1, <1>2, <1>3, TakesLock

LEMMA DirectoryTypes ==
  ASSUME AppInv, NEW f \in Folders, NEW d \in Ids \cup {0, None}, dirs' = [dirs EXCEPT ![f] = d],
         UNCHANGED <<rows, nextId, services, routes, intents, lease, containers, caddy, timers>>
  PROVE  DataTypes'
BY DEF AppInv, DataTypes

LEMMA InsertTypes ==
  ASSUME AppInv, NEW f \in Folders, Applications!InsertApplication(nextId, f),
         dirs' = [dirs EXCEPT ![f] = nextId],
         UNCHANGED <<services, routes, intents, lease, containers, caddy, timers>>
  PROVE  DataTypes' /\ nextId \in Ids
  <1>1. nextId \in Ids /\ rows' = [rows EXCEPT ![nextId] = f] /\ nextId' = nextId + 1
    BY ConstantFacts DEF Applications!InsertApplication
  <1>2. nextId' \in 1 .. MaxId + 1
    BY <1>1, ConstantFacts DEF Ids
  <1> QED  BY <1>1, <1>2 DEF AppInv, DataTypes

LEMMA CreateSteps ==
  ASSUME AppInv, NEW r \in Requests, Applications!CreateStep(r)
  PROVE  AppInv'
  <1> DEFINE f == op[r].folder
  <1>1. pc[r] \in Creating /\ f \in Folders /\ Busy(r)
    BY DEF Applications!CreateStep, Applications!CreateCheck, Applications!CreateRow,
           Applications!CreateUndo, Applications!At, Creating, AppInv, HoldsLocks, Busy
  <1>2. CASE Applications!CreateCheck(r)
    <2>1. /\ pc[r] = "create_check"
          /\ UNCHANGED <<rows, nextId, services, routes, intents, lease, containers, caddy, timers>>
      BY <1>2 DEF Applications!CreateCheck, Applications!At, Applications!database
    <2>2. CASE Applications!Return(r) /\ UNCHANGED dirs
      <3>1. DataTypes'
        BY <2>1, <2>2 DEF AppInv, DataTypes
      <3> QED  BY <2>1, <2>2, <3>1, ReturnConcluded, SameIntents
    <2>3. CASE ~(Applications!FolderReserved(f) \/ dirs[f] # None)
      <3>1. /\ dirs' = [dirs EXCEPT ![f] = 0] /\ pc' = [pc EXCEPT ![r] = "create_row"]
            /\ locks' = locks /\ op' = op
        BY <1>2, <2>3 DEF Applications!CreateCheck, Applications!Go, Applications!Pending
      <3>2. dirs[f] = None /\ \A i \in Ids : Active(i) => intents[i].folder # f
        BY <2>3, ConstantFacts DEF Applications!FolderReserved, Active
      <3>3. Others(r) /\ pc'[r] = "create_row" /\ op'[r] = op[r]
        BY <3>1, GoesOn DEF AppInv, Creating
      <3>4. HoldsLocks(r)' /\ RequestKnown(r)'
        <4>1. dirs'[f] = 0
          BY <1>1, <3>1 DEF AppInv, DataTypes
        <4> QED
          BY <1>1, <3>1, <3>3, <4>1
             DEF AppInv, HoldsLocks, RequestKnown, Creating, Cloning, Deleting, Placed
      <3>5. DataTypes'
        BY <1>1, <2>1, <3>1, DirectoryTypes
      <3> QED  BY <1>1, <2>1, <3>1, <3>2, <3>3, <3>4, <3>5, DirectoryMade, Concluded
    <2> QED  BY <1>2, <2>2, <2>3 DEF Applications!CreateCheck
  <1>3. CASE Applications!CreateRow(r)
    <2>1. /\ pc[r] = "create_row" /\ Applications!InsertApplication(nextId, f)
          /\ dirs' = [dirs EXCEPT ![f] = nextId] /\ Applications!Return(r)
          /\ UNCHANGED <<services, routes, intents, lease, containers, caddy, timers>>
      BY <1>3 DEF Applications!CreateRow, Applications!At
    <2>2. Others(r) /\ pc'[r] = "idle" /\ HoldsLocks(r)' /\ RequestKnown(r)'
      BY <2>1, Returns DEF AppInv
    <2>3. DataTypes' /\ Kept(Requests \ {r})
      BY <1>1, <2>1, <2>2, InsertTypes, RowInserted
    <2> QED  BY <2>2, <2>3, Concluded
  <1>4. CASE Applications!CreateUndo(r)
    <2>1. /\ pc[r] = "create_row" /\ dirs' = [dirs EXCEPT ![f] = None] /\ Applications!Return(r)
          /\ UNCHANGED <<rows, nextId, services, routes, intents, lease, containers, caddy, timers>>
      BY <1>4 DEF Applications!CreateUndo, Applications!At, Applications!database
    <2>2. Others(r) /\ pc'[r] = "idle" /\ HoldsLocks(r)' /\ RequestKnown(r)'
      BY <2>1, Returns DEF AppInv
    <2>3. \A i \in Ids : Present(i) /\ ~Active(i) => rows[i] # f
      BY <2>1 DEF AppInv, RequestKnown, DataKnown, FolderKnown, Ids
    <2>4. DataTypes'
      BY <1>1, <2>1, DirectoryTypes
    <2>5. Kept(Requests \ {r})
      <3>1. AlsoChecks(r, "folder")
        BY <2>2, NotChecking
      <3> QED  BY <1>1, <2>1, <2>2, <2>3, <3>1, DirectoryGone
    <2> QED  BY <2>2, <2>4, <2>5, Concluded
  <1> QED  BY <1>2, <1>3, <1>4 DEF Applications!CreateStep

LEMMA CloneQuiet ==
  ASSUME AppInv, NEW r \in Requests,
         \/ Applications!CloneReserved(r)
         \/ Applications!CloneSource(r)
         \/ Applications!CloneCommit(r)
         \/ Applications!CloneCancelled(r)
  PROVE  AppInv'
  <1>1. ASSUME Applications!Return(r), UNCHANGED Applications!database,
               UNCHANGED Applications!outside
        PROVE  AppInv'
    <2>1. UNCHANGED <<rows, nextId, services, routes, intents, lease, dirs, containers, caddy,
                      timers>>
      BY <1>1 DEF Applications!database, Applications!outside
    <2>2. DataTypes'
      BY <2>1 DEF AppInv, DataTypes
    <2> QED  BY <1>1, <2>1, <2>2, ReturnConcluded, SameIntents
  <1>2. CASE Applications!CloneReserved(r)
    <2>1. pc[r] = "clone_reserved" /\ UNCHANGED Applications!database
          /\ UNCHANGED Applications!outside
      BY <1>2 DEF Applications!CloneReserved, Applications!At
    <2>2. CASE ~Applications!FolderReserved(op[r].folder)
      <3>1. /\ pc' = [pc EXCEPT ![r] = "clone_source"] /\ locks' = locks /\ op' = op
            /\ UNCHANGED <<rows, nextId, services, routes, intents, lease, dirs, containers,
                           caddy, timers>>
        BY <1>2, <2>2
           DEF Applications!CloneReserved, Applications!Go, Applications!database,
               Applications!outside
      <3>2. \A i \in Ids : Active(i) => intents[i].folder # op[r].folder
        BY <2>2, ConstantFacts DEF Applications!FolderReserved, Active
      <3>3. Others(r) /\ pc'[r] = "clone_source" /\ op'[r] = op[r]
        BY <3>1, GoesOn DEF AppInv, Cloning
      <3>4. HoldsLocks(r)' /\ RequestKnown(r)'
        BY <2>1, <3>1, <3>2, <3>3
           DEF AppInv, HoldsLocks, RequestKnown, Active, Creating, Cloning, Deleting, Placed
      <3>5. DataTypes'
        BY <3>1 DEF AppInv, DataTypes
      <3> QED  BY <3>1, <3>3, <3>4, <3>5, QuietConcluded, SameIntents
    <2> QED  BY <1>1, <1>2, <2>1, <2>2 DEF Applications!CloneReserved
  <1>3. CASE Applications!CloneSource(r)
    <2>1. pc[r] = "clone_source" /\ op[r].source \in Ids
      BY <1>3
         DEF Applications!CloneSource, Applications!TakeLock, Applications!At, AppInv, HoldsLocks,
             Cloning
    <2>2. Applications!TakeLock(r, ApplicationLock(op[r].source), "clone_source", "clone_check")
          /\ ApplicationLock(op[r].source) \in Applications!Keys
      BY <1>3, <2>1, LocksApart DEF Applications!CloneSource
    <2>3. /\ Others(r) /\ pc'[r] = "clone_check" /\ op'[r] = op[r]
          /\ \A l \in Applications!Keys : locks[l] = r => locks'[l] = r
          /\ DataTypes' /\ op' = op
          /\ UNCHANGED <<rows, nextId, services, routes, intents, lease, dirs, caddy, timers>>
      BY <2>2, SecondLock
    <2>4. HoldsLocks(r)' /\ RequestKnown(r)'
      BY <2>1, <2>3, LocksApart
         DEF AppInv, HoldsLocks, RequestKnown, Active, Creating, Cloning, Deleting, Placed
    <2> QED  BY <2>3, <2>4, QuietConcluded, SameIntents
  <1>4. CASE Applications!CloneCommit(r)
    BY <1>1, <1>4 DEF Applications!CloneCommit
  <1>5. CASE Applications!CloneCancelled(r)
    BY <1>1, <1>5 DEF Applications!CloneCancelled
  <1> QED  BY <1>2, <1>3, <1>4, <1>5

LEMMA ClonePlaces ==
  ASSUME AppInv, NEW r \in Requests,
         Applications!CloneCheck(r) \/ Applications!CloneRow(r) \/ Applications!CloneContents(r)
  PROVE  AppInv'
  <1> DEFINE f == op[r].folder
  <1>1. /\ pc[r] \in Cloning /\ f \in Folders /\ Busy(r) /\ op[r].source \in Ids
        /\ op[r].kind = "clone" /\ locks[FolderLock(f)] = r
    BY DEF Applications!CloneCheck, Applications!CloneRow, Applications!CloneContents,
           Applications!At, Cloning, AppInv, HoldsLocks, Busy
  <1>2. CASE Applications!CloneCheck(r)
    <2>1. /\ pc[r] = "clone_check"
          /\ UNCHANGED <<rows, nextId, services, routes, intents, lease, containers, caddy, timers>>
      BY <1>2 DEF Applications!CloneCheck, Applications!At, Applications!database
    <2>2. CASE Applications!Return(r) /\ UNCHANGED dirs
      <3>1. DataTypes'
        BY <2>1, <2>2 DEF AppInv, DataTypes
      <3> QED  BY <2>1, <2>2, <3>1, ReturnConcluded, SameIntents
    <2>3. CASE dirs[f] = None /\ ~(Applications!Return(r) /\ UNCHANGED dirs)
      <3>1. /\ dirs' = [dirs EXCEPT ![f] = 0] /\ pc' = [pc EXCEPT ![r] = "clone_row"]
            /\ locks' = locks /\ op' = op
        BY <1>2, <2>3 DEF Applications!CloneCheck, Applications!Go, Applications!Pending
      <3>2. \A i \in Ids : Active(i) => intents[i].folder # f
        BY <2>1, <2>3 DEF AppInv, RequestKnown
      <3>3. Others(r) /\ pc'[r] = "clone_row" /\ op'[r] = op[r]
        BY <3>1, GoesOn DEF AppInv, Cloning
      <3>4. HoldsLocks(r)' /\ RequestKnown(r)'
        <4>1. dirs'[f] = 0
          BY <1>1, <3>1 DEF AppInv, DataTypes
        <4> QED
          BY <1>1, <2>1, <3>1, <3>3, <4>1
             DEF AppInv, HoldsLocks, RequestKnown, Creating, Cloning, Deleting, Placed
      <3>5. DataTypes'
        BY <1>1, <2>1, <3>1, DirectoryTypes
      <3> QED  BY <1>1, <2>1, <2>3, <3>1, <3>2, <3>3, <3>4, <3>5, DirectoryMade, Concluded
    <2> QED  BY <1>2, <2>2, <2>3 DEF Applications!CloneCheck
  <1>3. CASE Applications!CloneRow(r)
    <2>1. /\ pc[r] = "clone_row" /\ Applications!InsertApplication(nextId, f)
          /\ dirs' = [dirs EXCEPT ![f] = nextId] /\ op' = [op EXCEPT ![r].id = nextId]
          /\ pc' = [pc EXCEPT ![r] = "clone_contents"] /\ locks' = locks
          /\ UNCHANGED <<services, routes, intents, lease, containers, caddy, timers>>
      BY <1>3 DEF Applications!CloneRow, Applications!At, Applications!Go
    <2>2. DataTypes' /\ nextId \in Ids
      BY <1>1, <2>1, InsertTypes
    <2> DEFINE o == [op[r] EXCEPT !.id = nextId]
    <2>3. /\ o \in Task /\ o.folder = f /\ o.id = nextId /\ o.kind = op[r].kind
          /\ o.source = op[r].source
      BY <2>2 DEF AppInv, RequestTypes, Task
    <2>4. op' = [op EXCEPT ![r] = o]
      BY <2>1
    <2> HIDE DEF o
    <2>5. Others(r) /\ pc'[r] = "clone_contents" /\ op'[r] = o
      BY <2>1, <2>3, <2>4 DEF AppInv, Others, Keeps, RequestTypes, Cloning
    <2>6. Kept(Requests \ {r}) /\ rows'[nextId] = f
      BY <2>1, <2>5, RowInserted
    <2>7. HoldsLocks(r)' /\ RequestKnown(r)'
      <3>1. dirs'[f] = nextId
        BY <1>1, <2>1 DEF AppInv, DataTypes
      <3> QED
        BY <1>1, <2>1, <2>2, <2>3, <2>5, <2>6, <3>1
           DEF HoldsLocks, RequestKnown, Creating, Cloning, Deleting, Placed
    <2> QED  BY <2>2, <2>5, <2>6, <2>7, Concluded
  <1>4. CASE Applications!CloneContents(r)
    <2>1. /\ pc[r] = "clone_contents" /\ pc' = [pc EXCEPT ![r] = "clone_validate"]
          /\ locks' = locks /\ op' = op
          /\ services' = services \/ services' = services \cup {op[r].id}
          /\ UNCHANGED <<rows, nextId, routes, intents, lease, dirs, containers, caddy, timers>>
      BY <1>4
         DEF Applications!CloneContents, Applications!At, Applications!Go, Applications!outside
    <2>2. Others(r) /\ pc'[r] = "clone_validate" /\ op'[r] = op[r]
      BY <2>1, GoesOn DEF AppInv, Cloning
    <2>3. op[r].id \in Ids /\ Present(op[r].id)
      BY <1>1, <2>1, ConstantFacts DEF AppInv, RequestKnown, Present
    <2>4. DataTypes'
      BY <2>1, <2>3 DEF AppInv, DataTypes
    <2>5. HoldsLocks(r)' /\ RequestKnown(r)'
      BY <1>1, <2>1, <2>2
         DEF AppInv, HoldsLocks, RequestKnown, Creating, Cloning, Deleting, Placed
    <2>6. \A i \in Ids : StageKnown(i)'
      <3>1. \A i \in Ids : Checking(i)' => Checking(i)
        BY <2>2, NotChecking
      <3> QED  BY <2>1, <3>1 DEF AppInv, StageKnown, Past, Present
    <2>7. \A i \in services' \cup routes' : Present(i)
      BY <2>1, <2>3 DEF AppInv, DataTypes, DataKnown, RowKnown
    <2>8. Kept(Requests \ {r})
      BY <2>1, <2>2, <2>6, <2>7, OutsideChanged DEF Others
    <2> QED  BY <2>2, <2>4, <2>5, <2>8, Concluded
  <1> QED  BY <1>2, <1>3, <1>4

LEMMA CloneUndoKeeps ==
  ASSUME AppInv, NEW r \in Requests, Applications!CloneUndo(r)
  PROVE  AppInv'
  <1> DEFINE f == op[r].folder
  <1>1. /\ pc[r] \in {"clone_row", "clone_contents", "clone_validate"}
        /\ dirs' = [dirs EXCEPT ![f] = None] /\ Applications!Return(r)
        /\ UNCHANGED <<containers, caddy, timers>>
    BY DEF Applications!CloneUndo
  <1>2. f \in Folders /\ Busy(r)
    BY <1>1 DEF AppInv, HoldsLocks, Busy, Cloning
  <1>3. Others(r) /\ pc'[r] = "idle" /\ HoldsLocks(r)' /\ RequestKnown(r)'
    BY <1>1, Returns DEF AppInv
  <1>4. AlsoChecks(r, "folder") /\ AlsoChecks(r, "metadata")
    BY <1>3, NotChecking
  <1>5. CASE op[r].id = None
    <2>1. UNCHANGED <<rows, nextId, services, routes, intents, lease>>
      BY <1>5 DEF Applications!CloneUndo, Applications!database
    <2>2. pc[r] = "clone_row"
      BY <1>1, <1>5, ConstantFacts DEF AppInv, RequestKnown
    <2>3. \A i \in Ids : Present(i) /\ ~Active(i) => rows[i] # f
      BY <2>2 DEF AppInv, RequestKnown, DataKnown, FolderKnown, Ids
    <2>4. DataTypes'
      BY <1>1, <1>2, <2>1, DirectoryTypes
    <2>5. Kept(Requests \ {r})
      BY <1>1, <1>2, <1>3, <1>4, <2>1, <2>3, DirectoryGone
    <2> QED  BY <1>3, <2>4, <2>5, Concluded
  <1>6. CASE op[r].id # None
    <2>1. Applications!DeleteRow(op[r].id) /\ UNCHANGED <<nextId, intents>>
      BY <1>6 DEF Applications!CloneUndo
    <2>2. op[r].id \in Ids /\ rows[op[r].id] = f /\ Present(op[r].id)
      BY <1>1, <1>2, <1>6, ConstantFacts DEF AppInv, RequestKnown, Present, Cloning
    <2>3. DataTypes'
      BY <1>1, <1>2, <2>1, <2>2 DEF AppInv, DataTypes, Applications!DeleteRow
    <2>4. Kept(Requests \ {r})
      BY <1>1, <1>2, <1>3, <1>4, <2>1, <2>2, RowDeleted
    <2> QED  BY <1>3, <2>3, <2>4, Concluded
  <1> QED  BY <1>5, <1>6
---------------------------------------------------------------------------
(* Deleting.                                                               *)

LEMMA Placing ==
  ASSUME AppInv, NEW r \in Requests, pc[r] \in Placed
  PROVE  /\ op[r].id \in Ids /\ op[r].folder \in Folders /\ Busy(r) /\ Active(op[r].id)
         /\ intents[op[r].id] \in Intents /\ intents[op[r].id].folder = op[r].folder
         /\ intents[op[r].id].stage \in StageNames \ {"complete"}
         /\ Present(op[r].id) => rows[op[r].id] = op[r].folder
  <1>1. /\ op[r].id \in Ids /\ op[r].folder \in Folders /\ Busy(r) /\ Active(op[r].id)
        /\ intents[op[r].id].folder = op[r].folder
    BY DEF AppInv, HoldsLocks, RequestKnown, Busy, Placed, Deleting
  <1>2. intents[op[r].id] \in Intents
    BY <1>1 DEF AppInv, DataTypes, Active
  <1> QED  BY <1>1, <1>2, Ready DEF Active, Intents

LEMMA DeleteBegins ==
  ASSUME AppInv, NEW r \in Requests, Applications!DeleteBegin(r)
  PROVE  AppInv'
  <1> DEFINE n == op[r].id
  <1>1. /\ pc[r] = "delete_begin" /\ n \in Ids /\ locks[ApplicationLock(n)] = r
        /\ UNCHANGED <<rows, nextId, services, routes, lease, dirs, containers, caddy, timers>>
    BY DEF Applications!DeleteBegin, Applications!At, Applications!outside, AppInv, HoldsLocks
  <1>2. CASE Applications!Return(r) /\ UNCHANGED intents
    <2>1. DataTypes'
      BY <1>1, <1>2 DEF AppInv, DataTypes
    <2> QED  BY <1>1, <1>2, <2>1, ReturnConcluded, SameIntents
  <1>3. CASE ~(Applications!Return(r) /\ UNCHANGED intents)
    <2>1. /\ Present(n) \/ intents[n] # None
          /\ intents[n] # None => intents[n].state # "complete"
          /\ intents' = IF intents[n] = None
                          THEN [intents EXCEPT ![n] = Applications!Intent(rows[n])] ELSE intents
          /\ op' = [op EXCEPT ![r].folder = intents'[n].folder]
          /\ pc' = [pc EXCEPT ![r] = "delete_folder"] /\ locks' = locks
      BY <1>3
         DEF Applications!DeleteBegin, Applications!Go, Applications!Registered, Present
    <2>2. /\ intents' \in [Ids -> Intents \cup {None}] /\ intents'[n] # None
          /\ intents'[n].folder \in Folders /\ intents'[n].state # "complete"
      <3>1. CASE intents[n] = None
        <4>1. rows[n] \in Folders
          BY <1>1, <2>1, <3>1, Ready
        <4>2. Applications!Intent(rows[n]) \in Intents
          BY <4>1 DEF Applications!Intent, Intents, StageNames
        <4>3. intents'[n] = Applications!Intent(rows[n])
          BY <1>1, <2>1, <3>1 DEF AppInv, DataTypes
        <4>4. intents' \in [Ids -> Intents \cup {None}]
          BY <1>1, <2>1, <3>1, <4>2 DEF AppInv, DataTypes
        <4> QED  BY <4>1, <4>2, <4>3, <4>4, ConstantFacts DEF Applications!Intent
      <3>2. CASE intents[n] # None
        BY <1>1, <2>1, <3>2, Ready DEF AppInv, DataTypes
      <3> QED  BY <3>1, <3>2
    <2> DEFINE o == [op[r] EXCEPT !.folder = intents'[n].folder]
    <2>3. o \in Task /\ o.folder = intents'[n].folder /\ o.id = n
      BY <1>1, <2>2 DEF AppInv, RequestTypes, Task
    <2>4. op' = [op EXCEPT ![r] = o]
      BY <2>1
    <2> HIDE DEF o
    <2>5. Others(r) /\ pc'[r] = "delete_folder" /\ op'[r] = o
      BY <2>1, <2>3, <2>4 DEF AppInv, Others, Keeps, RequestTypes, Deleting
    <2>6. HoldsLocks(r)' /\ RequestKnown(r)'
      BY <1>1, <2>1, <2>2, <2>3, <2>5
         DEF HoldsLocks, RequestKnown, Active, Creating, Cloning, Deleting, Placed
    <2>7. DataTypes'
      BY <1>1, <2>2 DEF AppInv, DataTypes
    <2>8. CASE intents[n] = None
      <3>1. Kept(Requests \ {r})
        BY <1>1, <2>1, <2>5, <2>8, IntentBegun
      <3> QED  BY <2>5, <2>6, <2>7, <3>1, Concluded
    <2>9. CASE intents[n] # None
      BY <1>1, <2>1, <2>5, <2>6, <2>7, <2>9, QuietConcluded, SameIntents
    <2> QED  BY <2>8, <2>9
  <1> QED  BY <1>2, <1>3

LEMMA DeleteFolderLocks ==
  ASSUME AppInv, NEW r \in Requests, Applications!DeleteFolderLock(r)
  PROVE  AppInv'
  <1>1. pc[r] = "delete_folder" /\ op[r].folder \in Folders /\ op[r].id \in Ids
    BY DEF Applications!DeleteFolderLock, Applications!TakeLock, Applications!At, AppInv,
           HoldsLocks, Deleting
  <1>2. Applications!TakeLock(r, FolderLock(op[r].folder), "delete_folder", "delete_leases")
        /\ FolderLock(op[r].folder) \in Applications!Keys
    BY <1>1, LocksApart DEF Applications!DeleteFolderLock
  <1>3. /\ Others(r) /\ pc'[r] = "delete_leases" /\ op'[r] = op[r]
        /\ locks'[FolderLock(op[r].folder)] = r
        /\ \A l \in Applications!Keys : locks[l] = r => locks'[l] = r
        /\ DataTypes' /\ op' = op
        /\ UNCHANGED <<rows, nextId, services, routes, intents, lease, dirs, caddy, timers>>
    BY <1>2, SecondLock
  <1>4. HoldsLocks(r)' /\ RequestKnown(r)'
    BY <1>1, <1>3, LocksApart
       DEF AppInv, HoldsLocks, RequestKnown, Active, Creating, Cloning, Deleting, Placed
  <1> QED  BY <1>3, <1>4, QuietConcluded, SameIntents

\* An intent that says failed instead of running says the same otherwise.
LEMMA Failing ==
  ASSUME AppInv, NEW r \in Requests, pc[r] \in Placed, intents' = Applications!FailedAt(r)
  PROVE  IntentsSay /\ intents' \in [Ids -> Intents \cup {None}]
  <1> DEFINE n == op[r].id
             stage == intents[n].stage
  <1>1. /\ n \in Ids /\ Active(n) /\ intents[n] \in Intents /\ stage \in StageNames
        /\ intents \in [Ids -> Intents \cup {None}]
    BY Placing DEF AppInv, DataTypes
  <1>2. intents' = Applications!Checkpointed(n, stage, "failed")
    BY DEF Applications!FailedAt, Applications!Stage
  <1> HIDE DEF n
  <1>3. /\ intents' \in [Ids -> Intents \cup {None}] /\ intents'[n] \in Intents
        /\ intents'[n].folder = intents[n].folder /\ intents'[n].stage = intents[n].stage
        /\ intents'[n].state = "failed" /\ \A j \in Ids \ {n} : intents'[j] = intents[j]
    BY <1>1, <1>2, CheckpointedIs
  <1>4. intents'[n] # None /\ intents[n] # None /\ intents[n].state # "complete"
    BY <1>1, <1>3, ConstantFacts DEF Active
  <1>5. ASSUME NEW i \in Ids
        PROVE  /\ intents'[i] = None <=> intents[i] = None
               /\ intents[i] # None =>
                    /\ intents'[i].folder = intents[i].folder
                    /\ intents'[i].stage = intents[i].stage
                    /\ intents'[i].state = "complete" <=> intents[i].state = "complete"
    BY <1>3, <1>4
  <1> QED  BY <1>3, <1>5 DEF IntentsSay

LEMMA DeleteReturns ==
  ASSUME AppInv, NEW r \in Requests, Applications!DeleteReturn(r)
  PROVE  /\ Applications!Return(r) /\ \A i \in Ids : lease'[i] = "backup" => lease[i] = "backup"
         /\ lease' \in [Ids -> {"free", "backup", "deletion", "dead"}]
BY ConstantFacts DEF AppInv, DataTypes, Applications!DeleteReturn

LEMMA DeleteQuiet ==
  ASSUME AppInv, NEW r \in Requests,
         \/ Applications!DeleteDeadline(r)
         \/ Applications!DeleteLeases(r)
         \/ Applications!DeleteFail(r)
         \/ Applications!DeleteCheckpointFails(r)
  PROVE  AppInv'
  <1>1. CASE Applications!DeleteDeadline(r)
    <2>1. /\ Applications!Return(r)
          /\ UNCHANGED <<rows, nextId, services, routes, intents, lease, dirs, containers, caddy,
                         timers>>
      BY <1>1 DEF Applications!DeleteDeadline, Applications!database, Applications!outside
    <2>2. DataTypes'
      BY <2>1 DEF AppInv, DataTypes
    <2> QED  BY <2>1, <2>2, ReturnConcluded, SameIntents
  <1>2. CASE Applications!DeleteLeases(r)
    <2> DEFINE n == op[r].id
    <2>1. /\ pc[r] = "delete_leases" /\ pc[r] \in Placed
          /\ UNCHANGED <<rows, nextId, services, routes, dirs, containers, caddy, timers>>
      BY <1>2 DEF Applications!DeleteLeases, Applications!At, Applications!outside, Placed
    <2>2. CASE Applications!LeaseAvailable(n)
      <3>1. /\ lease' = IF n \in services THEN [lease EXCEPT ![n] = "deletion"] ELSE lease
            /\ pc' = [pc EXCEPT ![r] = "delete_stage"] /\ locks' = locks /\ op' = op
            /\ intents' = intents
        BY <1>2, <2>2 DEF Applications!DeleteLeases, Applications!Go
      <3>2. Others(r) /\ pc'[r] = "delete_stage" /\ op'[r] = op[r]
        BY <3>1, GoesOn DEF AppInv, Deleting
      <3>3. n \in Ids /\ (n \in services \/ lease[n] # "backup")
        BY <2>1, Placing DEF AppInv, DataKnown, RowKnown
      <3>4. /\ lease' \in [Ids -> {"free", "backup", "deletion", "dead"}] /\ lease'[n] # "backup"
            /\ \A i \in Ids : lease'[i] = "backup" => lease[i] = "backup"
        BY <3>1, <3>3 DEF AppInv, DataTypes
      <3>5. DataTypes'
        BY <2>1, <3>1, <3>4 DEF AppInv, DataTypes
      <3>6. HoldsLocks(r)' /\ RequestKnown(r)'
        BY <2>1, <3>1, <3>2, <3>4
           DEF AppInv, HoldsLocks, RequestKnown, Active, Creating, Cloning, Deleting, Placed
      <3> QED  BY <2>1, <3>1, <3>2, <3>4, <3>5, <3>6, QuietConcluded, SameIntents
    <2>3. CASE ~Applications!LeaseAvailable(n)
      <3>1. intents' = Applications!FailedAt(r) /\ Applications!Return(r) /\ UNCHANGED lease
        BY <1>2, <2>3 DEF Applications!DeleteLeases
      <3>2. IntentsSay /\ intents' \in [Ids -> Intents \cup {None}]
        BY <2>1, <3>1, Failing
      <3>3. DataTypes'
        BY <2>1, <3>1, <3>2 DEF AppInv, DataTypes
      <3> QED  BY <2>1, <3>1, <3>2, <3>3, ReturnConcluded
    <2> QED  BY <2>2, <2>3
  <1>3. CASE Applications!DeleteFail(r)
    <2>1. /\ pc[r] \in Placed /\ intents' = Applications!FailedAt(r)
          /\ Applications!DeleteReturn(r)
          /\ UNCHANGED <<rows, nextId, services, routes, dirs, containers, caddy, timers>>
      BY <1>3 DEF Applications!DeleteFail, Applications!At, Applications!outside, Placed
    <2>2. IntentsSay /\ intents' \in [Ids -> Intents \cup {None}]
      BY <2>1, Failing
    <2>3. DataTypes'
      BY <2>1, <2>2, DeleteReturns DEF AppInv, DataTypes
    <2> QED  BY <2>1, <2>2, <2>3, DeleteReturns, ReturnConcluded
  <1>4. CASE Applications!DeleteCheckpointFails(r)
    <2>1. /\ Applications!DeleteReturn(r)
          /\ UNCHANGED <<rows, nextId, services, routes, intents, dirs, containers, caddy, timers>>
      BY <1>4 DEF Applications!DeleteCheckpointFails, Applications!outside
    <2>2. DataTypes'
      BY <2>1, DeleteReturns DEF AppInv, DataTypes
    <2> QED  BY <2>1, <2>2, DeleteReturns, ReturnConcluded, SameIntents
  <1> QED  BY <1>1, <1>2, <1>3, <1>4

\* A stage's work: the request goes on to checkpoint it.
LEMMA Works ==
  ASSUME AppInv, NEW r \in Requests, NEW stage, Applications!Work(r, stage),
         locks' = locks, op' = op
  PROVE  /\ pc[r] = "delete_stage" /\ intents[op[r].id].stage = stage /\ Others(r)
         /\ pc'[r] = "delete_checkpoint" /\ op'[r] = op[r] /\ HoldsLocks(r)'
         /\ AlsoChecks(r, stage) /\ (stage = "resources" => Checked(Requests \ {r}))
         /\ intents' = intents /\ (lease'[op[r].id] = "backup" => lease[op[r].id] = "backup")
              => RequestKnown(r)'
  <1>1. /\ pc[r] = "delete_stage" /\ intents[op[r].id].stage = stage
        /\ pc' = [pc EXCEPT ![r] = "delete_checkpoint"]
    BY DEF Applications!Work, Applications!At, Applications!Go, Applications!Stage
  <1>2. Others(r) /\ pc'[r] = "delete_checkpoint" /\ op'[r] = op[r]
    BY <1>1, GoesOn DEF AppInv, Deleting
  <1>3. HoldsLocks(r)'
    BY <1>1, <1>2 DEF AppInv, HoldsLocks, Creating, Cloning, Deleting, Placed
  <1>4. intents[op[r].id] # None /\ intents[op[r].id].folder = op[r].folder
    BY <1>1, Placing DEF Placed, Active
  <1>5. \A i \in Ids : Checking(i)' => Checking(i) \/ i = op[r].id
    BY <1>2 DEF Checking, Others, Keeps
  <1>6. AlsoChecks(r, stage)
    BY <1>1, <1>4, <1>5 DEF AlsoChecks
  <1>7. stage = "resources" => Checked(Requests \ {r})
    BY <1>1, <1>4, <1>5 DEF Checked
  <1>8. ASSUME intents' = intents, lease'[op[r].id] = "backup" => lease[op[r].id] = "backup"
        PROVE  RequestKnown(r)'
    BY <1>1, <1>2, <1>8 DEF AppInv, RequestKnown, Active, Creating, Cloning, Deleting
  <1> QED  BY <1>1, <1>2, <1>3, <1>6, <1>7, <1>8

LEMMA DeleteWorks ==
  ASSUME AppInv, NEW r \in Requests,
         \/ Applications!DeleteSchedules(r)
         \/ Applications!DeleteResources(r)
         \/ Applications!DeleteMetadata(r)
         \/ Applications!DeleteRouting(r)
         \/ Applications!DeleteFolder(r)
  PROVE  AppInv'
  <1> DEFINE n == op[r].id
  <1>1. /\ pc[r] = "delete_stage" /\ pc[r] \in Placed /\ locks' = locks /\ op' = op
        /\ UNCHANGED <<nextId, intents>>
    BY DEF Applications!DeleteSchedules, Applications!DeleteResources,
           Applications!DeleteMetadata, Applications!DeleteRouting, Applications!DeleteFolder,
           Applications!Work, Applications!At, Applications!database, Applications!outside, Placed
  <1>2. n \in Ids /\ op[r].folder \in Folders /\ Busy(r) /\ Active(n) /\ StageKnown(n)
        /\ intents[n] # None
    BY <1>1, Placing DEF AppInv, Active
  <1>3. CASE Applications!DeleteSchedules(r)
    <2>1. /\ timers' = timers \ {n}
          /\ UNCHANGED <<rows, services, routes, lease, dirs, containers, caddy>>
      BY <1>3 DEF Applications!DeleteSchedules, Applications!database
    <2>2. Others(r) /\ HoldsLocks(r)' /\ RequestKnown(r)' /\ AlsoChecks(r, "schedules")
      BY <1>1, <1>3, <2>1, Works DEF Applications!DeleteSchedules
    <2>3. DataTypes'
      BY <1>1, <2>1 DEF AppInv, DataTypes
    <2>4. \A i \in Ids : StageKnown(i)'
      BY <1>1, <2>1, <2>2 DEF AppInv, StageKnown, Past, Present, AlsoChecks
    <2>5. \A i \in services' \cup routes' : Present(i)
      BY <2>1 DEF AppInv, DataTypes, DataKnown, RowKnown
    <2>6. Kept(Requests \ {r})
      BY <1>1, <2>1, <2>2, <2>4, <2>5, OutsideChanged DEF Others
    <2> QED  BY <2>2, <2>3, <2>6, Concluded
  <1>4. CASE Applications!DeleteResources(r)
    <2>1. /\ containers' \in SUBSET Ids
          /\ UNCHANGED <<rows, services, routes, lease, dirs, caddy, timers>>
      BY <1>4 DEF Applications!DeleteResources, Applications!database, AppInv, DataTypes
    <2>2. Others(r) /\ HoldsLocks(r)' /\ RequestKnown(r)' /\ Checked(Requests \ {r})
      BY <1>1, <1>4, <2>1, Works DEF Applications!DeleteResources
    <2>3. DataTypes'
      BY <1>1, <2>1 DEF AppInv, DataTypes
    <2>4. Kept(Requests \ {r})
      BY <1>1, <2>1, <2>2, Quiet, SameIntents DEF Others
    <2> QED  BY <2>2, <2>3, <2>4, Concluded
  <1>5. CASE Applications!DeleteMetadata(r)
    <2>1. /\ Applications!DeleteRow(n)
          /\ UNCHANGED <<dirs, containers, caddy, timers>>
      BY <1>5 DEF Applications!DeleteMetadata, Applications!outside
    <2>2. DataTypes' /\ (lease'[n] = "backup" => lease[n] = "backup")
      BY <1>1, <1>2, <2>1 DEF AppInv, DataTypes, Applications!DeleteRow
    <2>3. Others(r) /\ HoldsLocks(r)' /\ RequestKnown(r)' /\ AlsoChecks(r, "metadata")
      BY <1>1, <1>5, <2>2, Works DEF Applications!DeleteMetadata
    <2>4. Kept(Requests \ {r})
      BY <1>1, <1>2, <2>1, <2>3, Placing, RowDeleted
    <2> QED  BY <2>2, <2>3, <2>4, Concluded
  <1>6. CASE Applications!DeleteRouting(r)
    <2>1. /\ caddy' = routes
          /\ UNCHANGED <<rows, services, routes, lease, dirs, containers, timers>>
      BY <1>6 DEF Applications!DeleteRouting, Applications!ProxyAfterDeletion,
                  Applications!database
    <2>2. Others(r) /\ HoldsLocks(r)' /\ RequestKnown(r)' /\ AlsoChecks(r, "routing")
          /\ intents[n].stage = "routing"
      BY <1>1, <1>6, <2>1, Works DEF Applications!DeleteRouting
    <2>3. DataTypes'
      BY <1>1, <2>1 DEF AppInv, DataTypes
    <2>4. \A i \in services' \cup routes' : Present(i)
      BY <2>1 DEF AppInv, DataTypes, DataKnown, RowKnown
    <2>5. ASSUME NEW i \in Ids
          PROVE  StageKnown(i)'
      <3>1. StageKnown(i) /\ (i \in routes => Present(i))
        BY <2>1, <2>4 DEF AppInv
      <3>2. Checking(i)' => Checking(i) \/ (intents[i] # None /\ intents[i].stage = "routing")
        BY <2>2 DEF AlsoChecks
      <3> QED  BY <1>1, <2>1, <3>1, <3>2 DEF StageKnown, Past, Present
    <2>6. Kept(Requests \ {r})
      BY <1>1, <2>1, <2>2, <2>4, <2>5, OutsideChanged DEF Others
    <2> QED  BY <2>2, <2>3, <2>6, Concluded
  <1>7. CASE Applications!DeleteFolder(r)
    <2>1. /\ dirs' = [dirs EXCEPT ![op[r].folder] = None] /\ ~Applications!FolderClaimed(r)
          /\ UNCHANGED <<rows, services, routes, lease, containers, caddy, timers>>
      BY <1>7 DEF Applications!DeleteFolder, Applications!database
    <2>2. Others(r) /\ HoldsLocks(r)' /\ RequestKnown(r)' /\ AlsoChecks(r, "folder")
      BY <1>1, <1>7, <2>1, Works DEF Applications!DeleteFolder
    <2>3. DataTypes'
      BY <1>1, <1>2, <2>1, DirectoryTypes
    <2>4. \A i \in Ids : Present(i) /\ ~Active(i) => rows[i] # op[r].folder
      BY <1>2, <2>1, ConstantFacts DEF Applications!FolderClaimed
    <2>5. Kept(Requests \ {r})
      BY <1>1, <1>2, <2>1, <2>2, <2>4, DirectoryGone
    <2> QED  BY <2>2, <2>3, <2>5, Concluded
  <1> QED  BY <1>3, <1>4, <1>5, <1>6, <1>7

LEMMA NextStage ==
  ASSUME NEW stage \in StageNames \ {"complete"}
  PROVE  /\ Applications!Stages[Applications!Rank(stage) + 1] \in StageNames
         /\ Following(stage, Applications!Stages[Applications!Rank(stage) + 1])
  <1>1. Applications!Stages = <<"schedules", "resources", "metadata", "routing", "folder",
                                "complete">>
    BY DEF Applications!Stages
  <1>2. /\ Applications!Stages[1 + 1] = "resources" /\ Applications!Stages[2 + 1] = "metadata"
        /\ Applications!Stages[3 + 1] = "routing" /\ Applications!Stages[4 + 1] = "folder"
        /\ Applications!Stages[5 + 1] = "complete"
    BY <1>1
  <1> QED  BY <1>2, Ranks DEF StageNames, Following

LEMMA DeleteCheckpoints ==
  ASSUME AppInv, NEW r \in Requests, Applications!DeleteCheckpoint(r)
  PROVE  AppInv'
  <1> DEFINE n == op[r].id
             next == Applications!Stages[Applications!Rank(intents[n].stage) + 1]
  <1>1. /\ pc[r] = "delete_checkpoint" /\ pc[r] \in Placed
        /\ UNCHANGED <<rows, nextId, services, routes, dirs, containers, caddy, timers>>
    BY DEF Applications!DeleteCheckpoint, Applications!At, Applications!outside, Placed
  <1>2. /\ n \in Ids /\ intents[n] \in Intents /\ Active(n)
        /\ intents \in [Ids -> Intents \cup {None}] /\ intents[n].folder = op[r].folder
        /\ next \in StageNames /\ Following(intents[n].stage, next)
    BY <1>1, Placing, NextStage DEF AppInv, DataTypes
  <1>3. CASE next = "complete"
    <2>1. /\ intents' = Applications!Checkpointed(n, next, "complete")
          /\ Applications!DeleteReturn(r)
      BY <1>3 DEF Applications!DeleteCheckpoint, Applications!Stage
    <2> HIDE DEF n, next
    <2>2. Others(r) /\ pc'[r] = "idle" /\ HoldsLocks(r)' /\ RequestKnown(r)'
      BY <2>1, DeleteReturns, Returns DEF AppInv
    <2>3. DataTypes'
      <3>1. intents' \in [Ids -> Intents \cup {None}]
        BY <1>2, <2>1, CheckpointedIs
      <3> QED  BY <1>1, <2>1, <3>1, DeleteReturns DEF AppInv, DataTypes
    <2>4. Kept(Requests \ {r})
      <3>1. \A i \in Ids : lease'[i] = "backup" => lease[i] = "backup"
        BY <2>1, DeleteReturns
      <3>2. "complete" \in {"running", "complete"}
        OBVIOUS
      <3> QED  BY <1>1, <1>2, <1>3, <2>1, <2>2, <3>1, <3>2, Checkpoint DEF n
    <2> QED  BY <2>2, <2>3, <2>4, Concluded
  <1>4. CASE next # "complete"
    <2>1. /\ intents' = Applications!Checkpointed(n, next, "running")
          /\ pc' = [pc EXCEPT ![r] = "delete_stage"] /\ UNCHANGED <<locks, op, lease>>
      BY <1>4 DEF Applications!DeleteCheckpoint, Applications!Stage, Applications!Go
    <2>2. Others(r) /\ pc'[r] = "delete_stage" /\ op'[r] = op[r]
      BY <2>1, GoesOn DEF AppInv, Deleting
    <2> HIDE DEF next
    <2>3. /\ intents' \in [Ids -> Intents \cup {None}] /\ intents'[n] # None
          /\ intents'[n].folder = op[r].folder /\ intents'[n].state = "running"
      <3> HIDE DEF n
      <3>1. intents'[n] \in Intents
        BY <1>2, <2>1, CheckpointedIs
      <3> QED  BY <1>2, <2>1, <3>1, CheckpointedIs, ConstantFacts
    <2>4. DataTypes'
      BY <1>1, <2>1, <2>3 DEF AppInv, DataTypes
    <2>5. HoldsLocks(r)' /\ RequestKnown(r)'
      BY <1>1, <2>1, <2>2, <2>3
         DEF AppInv, HoldsLocks, RequestKnown, Active, Creating, Cloning, Deleting, Placed
    <2>6. Kept(Requests \ {r})
      <3>1. "running" \in {"running", "complete"}
        OBVIOUS
      <3> QED  BY <1>1, <1>2, <1>4, <2>1, <2>2, <3>1, Checkpoint
    <2> QED  BY <2>2, <2>4, <2>5, <2>6, Concluded
  <1> QED  BY <1>3, <1>4

---------------------------------------------------------------------------
(* What goes on beside the requests.                                       *)

\* No request takes a step.
LEMMA StillConcluded ==
  ASSUME AppInv, UNCHANGED <<locks, pc, op>>, DataTypes', Kept(Requests)
  PROVE  AppInv'
  <1>1. RequestTypes' /\ \A q \in Requests : HoldsLocks(q)'
    BY DEF AppInv, RequestTypes, HoldsLocks
  <1> QED  BY <1>1 DEF AppInv, Kept

LEMMA Still ==
  ASSUME AppInv, UNCHANGED <<locks, pc, op>>
  PROVE  Keeps(Requests) /\ Checked(Requests) /\ \A i \in Ids : Checking(i)' <=> Checking(i)
BY DEF AppInv, Keeps, RequestTypes, Checked, Checking

LEMMA Beside ==
  ASSUME AppInv, NEW i \in Ids,
         \/ Applications!StartService(i)
         \/ Applications!CreateRouting(i)
         \/ Applications!SaveSchedule(i)
         \/ Applications!BackupBegin(i)
         \/ Applications!BackupEnd(i)
         \/ Applications!LeaseExpires(i)
  PROVE  AppInv'
  <1>1. UNCHANGED <<rows, nextId, services, intents, dirs, locks, pc, op>>
    BY DEF Applications!StartService, Applications!CreateRouting, Applications!SaveSchedule,
           Applications!BackupBegin, Applications!BackupEnd, Applications!LeaseExpires,
           Applications!database, Applications!outside
  <1>2. CASE Applications!StartService(i)
    <2>1. containers' = containers \cup {i} /\ UNCHANGED <<routes, lease, caddy, timers>>
      BY <1>2 DEF Applications!StartService, Applications!database
    <2>2. DataTypes'
      BY <1>1, <2>1 DEF AppInv, DataTypes
    <2>3. Kept(Requests)
      BY <1>1, <2>1, Still, SameIntents, Quiet
    <2> QED  BY <1>1, <2>2, <2>3, StillConcluded
  <1>3. CASE Applications!CreateRouting(i)
    <2>1. /\ Present(i) /\ routes' = routes \cup {i} /\ caddy' = routes'
          /\ UNCHANGED <<lease, containers, timers>>
      BY <1>3 DEF Applications!CreateRouting, Applications!Usable, Applications!Registered, Present
    <2>2. DataTypes'
      BY <1>1, <2>1 DEF AppInv, DataTypes
    <2>3. \A j \in services' \cup routes' : Present(j)
      BY <1>1, <2>1 DEF AppInv, DataTypes, DataKnown, RowKnown
    <2>4. \A j \in Ids : StageKnown(j)'
      BY <1>1, <2>1, <2>3, Still DEF AppInv, StageKnown, Past, Present
    <2>5. Kept(Requests)
      BY <1>1, <2>1, <2>3, <2>4, Still, OutsideChanged
    <2> QED  BY <1>1, <2>2, <2>5, StillConcluded
  <1>4. CASE Applications!SaveSchedule(i)
    <2>1. /\ Present(i) /\ ~Active(i) /\ timers' = timers \cup {i}
          /\ UNCHANGED <<routes, lease, containers, caddy>>
      BY <1>4 DEF Applications!SaveSchedule, Applications!DeletionActive, Applications!database,
                  Applications!Registered, Present, Active
    <2>2. DataTypes'
      BY <1>1, <2>1 DEF AppInv, DataTypes
    <2>3. \A j \in services' \cup routes' : Present(j)
      BY <1>1, <2>1 DEF AppInv, DataTypes, DataKnown, RowKnown
    <2>4. \A j \in Ids : StageKnown(j)'
      BY <1>1, <2>1, Ready, Still DEF AppInv, StageKnown, Past, Present
    <2>5. Kept(Requests)
      BY <1>1, <2>1, <2>3, <2>4, Still, OutsideChanged
    <2> QED  BY <1>1, <2>2, <2>5, StillConcluded
  <1>5. CASE Applications!BackupBegin(i)
    <2>1. /\ i \in services /\ ~Active(i) /\ lease' = [lease EXCEPT ![i] = "backup"]
          /\ UNCHANGED <<routes, containers, caddy, timers>>
      BY <1>5 DEF Applications!BackupBegin, Applications!DeletionActive, Applications!outside,
                  Active
    <2>2. DataTypes'
      BY <1>1, <2>1 DEF AppInv, DataTypes
    <2>3. Kept(Requests)
      BY <1>1, <2>1, Still, BackupLeased
    <2> QED  BY <1>1, <2>2, <2>3, StillConcluded
  <1>6. CASE Applications!BackupEnd(i) \/ Applications!LeaseExpires(i)
    <2>1. /\ lease' = [lease EXCEPT ![i] = "free"]
          /\ UNCHANGED <<routes, containers, caddy, timers>>
      BY <1>6 DEF Applications!BackupEnd, Applications!LeaseExpires, Applications!outside
    <2>2. DataTypes' /\ \A j \in Ids : lease'[j] = "backup" => lease[j] = "backup"
      BY <1>1, <2>1 DEF AppInv, DataTypes
    <2>3. Kept(Requests)
      BY <1>1, <2>1, <2>2, Still, SameIntents, Quiet
    <2> QED  BY <1>1, <2>2, <2>3, StillConcluded
  <1> QED  BY <1>2, <1>3, <1>4, <1>5, <1>6

LEMMA CrashKeeps ==
  ASSUME AppInv, Applications!Crash
  PROVE  AppInv'
  <1>1. /\ locks' = [k \in Applications!Keys |-> None]
        /\ pc' = [r \in Requests |-> "idle"] /\ op' = [r \in Requests |-> Applications!Idle]
        /\ lease' = [i \in Ids |-> IF lease[i] = "deletion" THEN "dead" ELSE lease[i]]
        /\ UNCHANGED <<rows, nextId, services, routes, intents, dirs, containers, caddy, timers>>
    BY ConstantFacts DEF Applications!Crash, Applications!outside
  <1>2. RequestTypes'
    BY <1>1, Idles DEF RequestTypes
  <1>3. DataTypes' /\ \A i \in Ids : lease'[i] = "backup" => lease[i] = "backup"
    BY <1>1 DEF AppInv, DataTypes
  <1>4. \A q \in Requests : pc'[q] = "idle"
    BY <1>1
  <1>5. \A q \in Requests : HoldsLocks(q)' /\ RequestKnown(q)'
    BY <1>4 DEF HoldsLocks, RequestKnown, Creating, Cloning, Deleting, Placed
  <1>6. Keeps({}) /\ Checked({})
    BY <1>2, <1>4 DEF Keeps, Checked, Checking
  <1>7. Kept({})
    BY <1>1, <1>3, <1>6, SameIntents, Quiet
  <1> QED  BY <1>2, <1>3, <1>5, <1>7 DEF AppInv, Kept

LEMMA AppStep ==
  ASSUME AppInv, Applications!Next
  PROVE  AppInv'
  <1>1. CASE \E r \in Requests : Applications!CreateStep(r)
    BY <1>1, CreateSteps
  <1>2. CASE \E r \in Requests :
               Applications!CreateApplication(r) \/ Applications!CloneApplication(r)
               \/ Applications!DeleteApplication(r)
    BY <1>2, Begins
  <1>3. CASE \E r \in Requests : Applications!CloneStep(r) \/ Applications!CloneCancelled(r)
    BY <1>3, CloneQuiet, ClonePlaces, CloneUndoKeeps DEF Applications!CloneStep
  <1>4. CASE \E r \in Requests : Applications!DeleteStep(r) \/ Applications!DeleteDeadline(r)
    BY <1>4, DeleteBegins, DeleteFolderLocks, DeleteQuiet, DeleteWorks, DeleteCheckpoints
       DEF Applications!DeleteStep
  <1>5. CASE \E i \in Ids :
               \/ Applications!StartService(i) \/ Applications!CreateRouting(i)
               \/ Applications!SaveSchedule(i) \/ Applications!BackupBegin(i)
               \/ Applications!BackupEnd(i) \/ Applications!LeaseExpires(i)
    BY <1>5, Beside
  <1>6. CASE Applications!Crash
    BY <1>6, CrashKeeps
  <1> QED  BY <1>1, <1>2, <1>3, <1>4, <1>5, <1>6, ConstantFacts DEF Applications!Next

LEMMA AppInit == Applications!Init => AppInv
  <1> SUFFICES ASSUME Applications!Init
               PROVE  AppInv
    OBVIOUS
  <1> DEFINE first == CHOOSE f \in Folders : TRUE
  <1>1. first \in Folders
    BY ConstantFacts
  <1> HIDE DEF first
  <1>2. /\ rows = [i \in Ids |-> IF i = 1 THEN first ELSE None] /\ nextId = 2
        /\ services = {1} /\ routes = {1} /\ intents = [i \in Ids |-> None]
        /\ lease = [i \in Ids |-> "free"]
        /\ dirs = [f \in Folders |-> IF f = rows[1] THEN 1 ELSE None]
        /\ containers = {1} /\ caddy = {1} /\ timers = {1}
        /\ locks = [k \in Applications!Keys |-> None]
        /\ pc = [r \in Requests |-> "idle"] /\ op = [r \in Requests |-> Applications!Idle]
    BY ConstantFacts DEF Applications!Init, first
  <1>3. 1 \in Ids /\ rows[1] = first /\ \A i \in Ids : i # 1 => rows[i] = None
    BY <1>2, ConstantFacts DEF Ids
  <1>4. DataTypes
    <2>1. nextId \in 1 .. MaxId + 1
      BY <1>2, ConstantFacts
    <2>2. dirs \in [Folders -> Ids \cup {0, None}] /\ rows \in [Ids -> Folders \cup {None}]
      BY <1>1, <1>2, <1>3
    <2> QED  BY <1>2, <1>3, <2>1, <2>2 DEF DataTypes
  <1>5. RequestTypes
    BY <1>2, Idles DEF RequestTypes
  <1>6. \A i \in Ids : intents[i] = None /\ ~Active(i) /\ (Present(i) <=> i = 1)
    BY <1>1, <1>2, <1>3, ConstantFacts DEF Active, Present
  <1>7. DataKnown
    <2>1. \A i \in Ids : RowKnown(i)
      BY <1>2, <1>3, <1>6 DEF RowKnown, Ids
    <2>2. \A i \in Ids : FolderKnown(i)
      BY <1>1, <1>2, <1>3, <1>6 DEF FolderKnown
    <2>3. RowsDiffer
      BY <1>3, <1>6 DEF RowsDiffer, Present
    <2>4. \A f \in Folders : DirKnown(f)
      BY <1>2, <1>3, ConstantFacts DEF DirKnown
    <2> QED  BY <2>1, <2>2, <2>3, <2>4 DEF DataKnown
  <1>8. \A r \in Requests : HoldsLocks(r) /\ RequestKnown(r)
    BY <1>2 DEF HoldsLocks, RequestKnown, Creating, Cloning, Deleting, Placed
  <1>9. \A i \in Ids : StageKnown(i)
    BY <1>6 DEF StageKnown
  <1> QED  BY <1>4, <1>5, <1>7, <1>8, <1>9 DEF AppInv
---------------------------------------------------------------------------
(* What the invariant says, and what no step does.                         *)

LEMMA AppSound ==
  ASSUME AppInv
  PROVE  /\ Applications!TypeOK /\ Applications!RegisteredHasFolder
         /\ Applications!CompleteIsClean /\ Applications!DeletionExcludesBackup
  <1>1. Applications!TypeOK
    BY ConstantFacts
       DEF AppInv, DataTypes, RequestTypes, Intents, Applications!TypeOK, Applications!Pending
  <1>2. Applications!RegisteredHasFolder
    BY ConstantFacts
       DEF AppInv, DataKnown, FolderKnown, Present, Active, Applications!RegisteredHasFolder,
           Applications!Registered, Applications!DeletionActive
  <1>3. Applications!CompleteIsClean
    <2> SUFFICES ASSUME NEW i \in Ids, intents[i] # None, intents[i].state = "complete"
                 PROVE  /\ rows[i] = None /\ i \notin timers /\ i \notin caddy
                        /\ \A f \in Folders : dirs[f] # i
      BY ConstantFacts DEF Applications!CompleteIsClean, Applications!Registered
    <2>1. intents[i].stage = "complete" /\ StageKnown(i)
      BY DEF AppInv, DataKnown, RowKnown
    <2>2. rows[i] = None /\ i \notin timers /\ i \notin caddy /\ dirs[intents[i].folder] # i
      BY <2>1 DEF StageKnown, Past, Present
    <2>3. ASSUME NEW f \in Folders
          PROVE  dirs[f] # i
      BY <2>2, ConstantFacts DEF AppInv, DataKnown, DirKnown
    <2> QED  BY <2>2, <2>3
  <1>4. Applications!DeletionExcludesBackup
    BY DEF AppInv, RequestKnown, Applications!DeletionExcludesBackup
  <1> QED  BY <1>1, <1>2, <1>3, <1>4

LEMMA IntentSteps ==
  ASSUME Applications!Next
  PROVE  \/ intents' = intents
         \/ \E r \in Requests : \/ Applications!DeleteBegin(r)
                                \/ Applications!DeleteLeases(r)
                                \/ Applications!DeleteFail(r)
                                \/ Applications!DeleteCheckpoint(r)
  <1>1. ASSUME NEW r \in Requests,
               \/ Applications!CreateApplication(r) \/ Applications!CloneApplication(r)
               \/ Applications!DeleteApplication(r) \/ Applications!CreateStep(r)
               \/ Applications!CloneCancelled(r) \/ Applications!DeleteDeadline(r)
        PROVE  intents' = intents
    BY <1>1
       DEF Applications!CreateApplication, Applications!CloneApplication,
           Applications!DeleteApplication, Applications!Begin, Applications!CreateStep,
           Applications!CreateCheck, Applications!CreateRow, Applications!CreateUndo,
           Applications!CloneCancelled, Applications!DeleteDeadline, Applications!database
  <1>2. ASSUME NEW r \in Requests, Applications!CloneStep(r)
        PROVE  intents' = intents
    BY <1>2
       DEF Applications!CloneStep, Applications!CloneReserved, Applications!CloneSource,
           Applications!TakeLock, Applications!CloneCheck, Applications!CloneRow,
           Applications!CloneContents, Applications!CloneCommit, Applications!CloneUndo,
           Applications!database
  <1>3. ASSUME NEW r \in Requests, Applications!DeleteStep(r)
        PROVE  \/ intents' = intents
               \/ Applications!DeleteBegin(r) \/ Applications!DeleteLeases(r)
               \/ Applications!DeleteFail(r) \/ Applications!DeleteCheckpoint(r)
    BY <1>3
       DEF Applications!DeleteStep, Applications!DeleteFolderLock, Applications!TakeLock,
           Applications!DeleteSchedules, Applications!DeleteResources,
           Applications!DeleteMetadata, Applications!DeleteRouting, Applications!DeleteFolder,
           Applications!DeleteCheckpointFails, Applications!database
  <1>4. ASSUME NEW i \in Ids,
               \/ Applications!StartService(i) \/ Applications!CreateRouting(i)
               \/ Applications!SaveSchedule(i) \/ Applications!BackupBegin(i)
               \/ Applications!BackupEnd(i) \/ Applications!LeaseExpires(i)
        PROVE  intents' = intents
    BY <1>4
       DEF Applications!StartService, Applications!CreateRouting, Applications!SaveSchedule,
           Applications!BackupBegin, Applications!BackupEnd, Applications!LeaseExpires,
           Applications!database
  <1>5. CASE Applications!Crash
    BY <1>5 DEF Applications!Crash
  <1> QED  BY <1>1, <1>2, <1>3, <1>4, <1>5, ConstantFacts DEF Applications!Next

LEMMA DirectorySteps ==
  ASSUME Applications!Next
  PROVE  \/ dirs' = dirs
         \/ \E r \in Requests : \/ Applications!CreateStep(r)
                                \/ Applications!CloneCheck(r) \/ Applications!CloneRow(r)
                                \/ Applications!CloneUndo(r) \/ Applications!DeleteFolder(r)
  <1>1. ASSUME NEW r \in Requests,
               \/ Applications!CreateApplication(r) \/ Applications!CloneApplication(r)
               \/ Applications!DeleteApplication(r)
               \/ Applications!CloneCancelled(r) \/ Applications!DeleteDeadline(r)
        PROVE  dirs' = dirs
    BY <1>1
       DEF Applications!CreateApplication, Applications!CloneApplication,
           Applications!DeleteApplication, Applications!Begin,
           Applications!CloneCancelled, Applications!DeleteDeadline, Applications!outside
  <1>2. ASSUME NEW r \in Requests, Applications!CloneStep(r)
        PROVE  \/ dirs' = dirs
               \/ Applications!CloneCheck(r) \/ Applications!CloneRow(r)
               \/ Applications!CloneUndo(r)
    BY <1>2
       DEF Applications!CloneStep, Applications!CloneReserved, Applications!CloneSource,
           Applications!TakeLock, Applications!CloneContents, Applications!CloneCommit,
           Applications!outside
  <1>3. ASSUME NEW r \in Requests, Applications!DeleteStep(r)
        PROVE  dirs' = dirs \/ Applications!DeleteFolder(r)
    BY <1>3
       DEF Applications!DeleteStep, Applications!DeleteFolderLock, Applications!TakeLock,
           Applications!DeleteBegin, Applications!DeleteLeases, Applications!DeleteFail,
           Applications!DeleteCheckpoint, Applications!DeleteSchedules,
           Applications!DeleteResources, Applications!DeleteMetadata,
           Applications!DeleteRouting, Applications!DeleteCheckpointFails, Applications!outside
  <1>4. ASSUME NEW i \in Ids,
               \/ Applications!StartService(i) \/ Applications!CreateRouting(i)
               \/ Applications!SaveSchedule(i) \/ Applications!BackupBegin(i)
               \/ Applications!BackupEnd(i) \/ Applications!LeaseExpires(i)
        PROVE  dirs' = dirs
    BY <1>4
       DEF Applications!StartService, Applications!CreateRouting, Applications!SaveSchedule,
           Applications!BackupBegin, Applications!BackupEnd, Applications!LeaseExpires,
           Applications!outside
  <1>5. CASE Applications!Crash
    BY <1>5 DEF Applications!Crash, Applications!outside
  <1> QED  BY <1>1, <1>2, <1>3, <1>4, <1>5, ConstantFacts DEF Applications!Next

StageAdvances ==
  \A i \in Ids : intents[i] # None =>
    /\ intents'[i] # None
    /\ Applications!Rank(intents'[i].stage) >= Applications!Rank(intents[i].stage)
    /\ intents[i].state = "complete" => intents'[i] = intents[i]

OwnDirectoryRemoved ==
  \A f \in Folders : dirs[f] # None /\ dirs'[f] # dirs[f] =>
    \/ dirs[f] # 0 /\ intents[dirs[f]] # None /\ intents[dirs[f]].stage = "folder"
    \/ \E r \in Requests : op[r].folder = f /\ op[r].kind \in {"create", "clone"}

LEMMA RanksAreNumbers == \A s \in StageNames : Applications!Rank(s) \in 1 .. 6
BY Ranks DEF StageNames

LEMMA Advances ==
  ASSUME AppInv, Applications!Next
  PROVE  StageAdvances
  <1>1. \A i \in Ids : intents[i] # None => intents[i].stage \in StageNames
    BY Ready
  <1>2. CASE intents' = intents
    BY <1>1, <1>2, RanksAreNumbers DEF StageAdvances
  <1>3. ASSUME NEW r \in Requests, pc[r] \in Placed, intents' = Applications!FailedAt(r)
        PROVE  StageAdvances
    <2> DEFINE n == op[r].id
               stage == intents[n].stage
    <2>1. /\ n \in Ids /\ Active(n) /\ intents[n] \in Intents /\ stage \in StageNames
          /\ intents \in [Ids -> Intents \cup {None}]
      BY <1>3, Placing DEF AppInv, DataTypes
    <2>2. intents' = Applications!Checkpointed(n, stage, "failed")
      BY <1>3 DEF Applications!FailedAt, Applications!Stage
    <2> HIDE DEF n
    <2>3. /\ intents'[n] \in Intents /\ intents'[n].stage = stage
          /\ \A j \in Ids \ {n} : intents'[j] = intents[j]
      BY <2>1, <2>2, CheckpointedIs
    <2>4. intents'[n] # None /\ intents[n].state # "complete"
      BY <2>1, <2>3, ConstantFacts DEF Active
    <2> QED  BY <1>1, <2>3, <2>4, RanksAreNumbers DEF StageAdvances
  <1>4. ASSUME NEW r \in Requests, Applications!DeleteBegin(r)
        PROVE  StageAdvances
    <2>1. op[r].id \in Ids
      BY <1>4 DEF Applications!DeleteBegin, Applications!At, AppInv, HoldsLocks
    <2>2. \/ intents' = intents
          \/ /\ intents[op[r].id] = None
             /\ intents' = [intents EXCEPT ![op[r].id] = Applications!Intent(rows[op[r].id])]
      BY <1>4 DEF Applications!DeleteBegin
    <2>3. \A i \in Ids : intents[i] # None => intents'[i] = intents[i]
      BY <2>1, <2>2 DEF AppInv, DataTypes
    <2> QED  BY <1>1, <2>3, RanksAreNumbers DEF StageAdvances
  <1>5. ASSUME NEW r \in Requests, Applications!DeleteCheckpoint(r)
        PROVE  StageAdvances
    <2> DEFINE n == op[r].id
               next == Applications!Stages[Applications!Rank(intents[n].stage) + 1]
    <2>1. pc[r] \in Placed
      BY <1>5 DEF Applications!DeleteCheckpoint, Applications!At, Placed
    <2>2. /\ n \in Ids /\ intents[n] \in Intents /\ Active(n)
          /\ intents \in [Ids -> Intents \cup {None}]
          /\ next \in StageNames /\ Following(intents[n].stage, next)
      BY <2>1, Placing, NextStage DEF AppInv, DataTypes
    <2>3. PICK state \in {"running", "failed", "complete"} :
            intents' = Applications!Checkpointed(n, next, state)
      BY <1>5 DEF Applications!DeleteCheckpoint, Applications!Stage
    <2> HIDE DEF n, next
    <2>4. /\ intents'[n] \in Intents /\ intents'[n].stage = next
          /\ \A j \in Ids \ {n} : intents'[j] = intents[j]
      BY <2>2, <2>3, CheckpointedIs
    <2>5. intents'[n] # None /\ intents[n].state # "complete"
      BY <2>2, <2>4, ConstantFacts DEF Active
    <2>6. Applications!Rank(next) >= Applications!Rank(intents[n].stage)
      BY <2>2, Ranks DEF Following
    <2> QED  BY <1>1, <2>4, <2>5, <2>6, RanksAreNumbers DEF StageAdvances
  <1>6. ASSUME NEW r \in Requests, Applications!DeleteLeases(r) \/ Applications!DeleteFail(r)
        PROVE  StageAdvances
    <2>1. /\ pc[r] \in Placed
          /\ intents' = intents \/ intents' = Applications!FailedAt(r)
      BY <1>6
         DEF Applications!DeleteLeases, Applications!DeleteFail, Applications!At, Placed
    <2> QED  BY <1>2, <1>3, <2>1
  <1> QED  BY <1>2, <1>4, <1>5, <1>6, IntentSteps

LEMMA OwnRemoved ==
  ASSUME AppInv, Applications!Next
  PROVE  OwnDirectoryRemoved
  <1>1. CASE dirs' = dirs
    BY <1>1 DEF OwnDirectoryRemoved
  <1>2. ASSUME NEW r \in Requests, op[r].folder \in Folders, op[r].kind \in {"create", "clone"},
               NEW d, dirs' = [dirs EXCEPT ![op[r].folder] = d]
        PROVE  OwnDirectoryRemoved
    BY <1>2 DEF OwnDirectoryRemoved, AppInv, DataTypes
  <1>3. ASSUME NEW r \in Requests, Applications!CreateStep(r)
        PROVE  OwnDirectoryRemoved
    <2>1. pc[r] \in Creating
      BY <1>3
         DEF Applications!CreateStep, Applications!CreateCheck, Applications!CreateRow,
             Applications!CreateUndo, Applications!At, Creating
    <2>2. dirs' = dirs \/ \E d : dirs' = [dirs EXCEPT ![op[r].folder] = d]
      BY <1>3
         DEF Applications!CreateStep, Applications!CreateCheck, Applications!CreateRow,
             Applications!CreateUndo
    <2>3. op[r].folder \in Folders /\ op[r].kind \in {"create", "clone"}
      BY <2>1 DEF AppInv, HoldsLocks
    <2> QED  BY <1>1, <1>2, <2>2, <2>3
  <1>4. ASSUME NEW r \in Requests,
               \/ Applications!CloneCheck(r) \/ Applications!CloneRow(r)
               \/ Applications!CloneUndo(r)
        PROVE  OwnDirectoryRemoved
    <2>1. pc[r] \in Cloning
      BY <1>4
         DEF Applications!CloneCheck, Applications!CloneRow, Applications!CloneUndo,
             Applications!At, Cloning
    <2>2. dirs' = dirs \/ \E d : dirs' = [dirs EXCEPT ![op[r].folder] = d]
      BY <1>4
         DEF Applications!CloneCheck, Applications!CloneRow, Applications!CloneUndo
    <2>3. op[r].folder \in Folders /\ op[r].kind \in {"create", "clone"}
      BY <2>1 DEF AppInv, HoldsLocks
    <2> QED  BY <1>1, <1>2, <2>2, <2>3
  <1>5. ASSUME NEW r \in Requests, Applications!DeleteFolder(r)
        PROVE  OwnDirectoryRemoved
    <2> DEFINE n == op[r].id
               f == op[r].folder
    <2>1. /\ pc[r] \in Placed /\ intents[n].stage = "folder"
          /\ dirs' = [dirs EXCEPT ![f] = None]
      BY <1>5
         DEF Applications!DeleteFolder, Applications!Work, Applications!At,
             Applications!Stage, Placed
    <2>2. n \in Ids /\ f \in Folders /\ dirs[f] \in {n, None} /\ n # 0 /\ intents[n] # None
      BY <2>1, Placing DEF AppInv, DataKnown, FolderKnown, Ids, Active
    <2>3. \A g \in Folders : dirs'[g] # dirs[g] => g = f
      BY <2>1, <2>2 DEF AppInv, DataTypes
    <2> QED  BY <2>1, <2>2, <2>3 DEF OwnDirectoryRemoved
  <1> QED  BY <1>1, <1>3, <1>4, <1>5, DirectorySteps
---------------------------------------------------------------------------
(* The services of an application, with volumes and without.  The project  *)
(* lock leaves one operation at a time, which knows the file it staged and *)
(* the one it puts back.                                                   *)

Definitions == [deps : SUBSET Names, vols : SUBSET Volumes]
Files == [Names -> Definitions \cup {None}]
Steps == {"schedules", "stop", "remove", "volumes", "compose", "routing", "metadata", "complete"}
Deletions == [stage : Steps, state : {"running", "failed", "complete"},
              vols : {None} \cup SUBSET Volumes]
Writing == {"create_validate", "update_validate"}
Staging == {"delete_stage", "delete_validate"}
Prepared == Staging \cup {"delete_work", "delete_reload", "delete_checkpoint"}
Leased == Prepared \cup {"delete_repair"}
Removing == Leased \cup {"delete_select", "delete_lease"}
Operation == [name : Names \cup {None}, reg : BOOLEAN, sel : SUBSET Volumes,
              snap : Files \cup {None}, staged : Files \cup {None}]

SvcTypes ==
  /\ names \in SUBSET Names /\ running \in SUBSET Names
  /\ routed \in SUBSET Names /\ served \in SUBSET Names
  /\ timed \in SUBSET Databases /\ volumes \in SUBSET Volumes
  /\ compose \in Files
  /\ deletions \in [Names -> Deletions \cup {None}]
  /\ leases \in [Databases -> {"free", "backup", "deletion", "dead"}]
  /\ at \in {"idle", "start"} \cup Writing \cup Removing
  /\ work \in Operation
  /\ deaths \in Nat /\ errors \in Nat

Defined(c) == {n \in Names : c[n] # None}
Parses(c) == \A n \in Defined(c) : c[n].deps \subseteq Defined(c)
Without(c, n) ==
  [m \in Names |-> IF m = n \/ c[m] = None THEN None ELSE [c[m] EXCEPT !.deps = @ \ {n}]]
Unfinished(n) == deletions[n] # None /\ deletions[n].state # "complete"
Stage == deletions[work.name].stage

(* What an operation has written and would put back.                       *)
WorkKnown ==
  /\ at = "idle" => work.name = None
  /\ at # "idle" => work.name \in Names
  /\ at \in Writing => work.snap \in Files
  /\ at \in Writing \cup {"start"} => compose[work.name] # None
  /\ at \in Removing \ Leased => work.snap = None
  /\ at = "delete_repair" => Stage # "schedules"
  /\ at \in Removing => Unfinished(work.name)
  /\ \A n \in Names : Unfinished(n) => deletions[n].stage # "complete"
  /\ at \in Staging => Stage \in {"stop", "remove", "compose"}
  /\ at \in Prepared /\ Stage # "schedules" =>
       work.snap \in Files /\ work.staged = Without(work.snap, work.name)
  /\ at \in Prepared /\ Stage = "schedules" => work.snap = None
  /\ at = "delete_reload" => Stage = "routing"

(* Docker can parse the file a deletion stops and removes from, also after *)
(* a crash; without crashes any file but one just written.                 *)
ParsesKnown ==
  /\ at \in Prepared /\ Stage \in {"stop", "remove", "volumes", "compose"} =>
       /\ Parses(work.snap)
       /\ compose = IF at = "delete_validate" \/ (at = "delete_checkpoint" /\ Stage = "compose")
                      THEN work.staged ELSE work.snap
  /\ deaths = 0 =>
       /\ at \notin Writing => Parses(compose)
       /\ at \in Writing => Parses(work.snap)
       /\ at \in Prepared /\ Stage # "schedules" => Parses(work.snap)

LeaseKnown ==
  at \in Leased /\ work.reg /\ work.name \in Databases =>
    leases[work.name] = "deletion" \/ (work.name \notin names /\ leases[work.name] # "backup")

(* Without failures and crashes: the file defines what is registered, the  *)
(* proxy serves the rows, and a deletion without volumes does everything   *)
(* in one operation, of which nothing comes back.                          *)
Done(stage, later) ==
  at \in Leased /\ (Stage \in later \/ (Stage = stage /\ at = "delete_checkpoint"))
Whole(n) == deletions[n].vols \in {None, {}}
\* Where a deletion stops that neither fails nor dies.
Interruptible(n) ==
  deletions[n].stage = "schedules" \/ (deletions[n].stage \in {"stop", "volumes"} /\ ~Whole(n))

CleanKnown ==
  deaths = 0 /\ errors = 0 =>
    /\ \A n \in names :
         \/ compose[n] # None
         \/ n = work.name /\ (at = "delete_validate" \/ Done("compose", {"routing", "metadata"}))
    /\ at \in Writing \cup Staging => \A n \in names : work.snap[n] # None
    /\ at # "delete_reload" => served = routed
    /\ \A n \in Names : Unfinished(n) /\ ~(at \in Removing /\ n = work.name) =>
         n \in names /\ Interruptible(n)
    /\ at \in Removing => work.reg
    /\ at \in Removing \ Leased => work.name \in names /\ Interruptible(work.name)
    /\ at = "delete_repair" => Stage \in {"stop", "volumes"}
    /\ at \in Leased /\ ~Done("metadata", {}) => work.name \in names
    /\ at \in Leased /\ Whole(work.name) =>
         /\ Done("schedules", {"stop", "remove", "volumes", "compose", "routing", "metadata"}) =>
              work.name \notin timed
         /\ Done("remove", {"volumes", "compose", "routing", "metadata"}) => work.name \notin running
    /\ Done("compose", {"routing", "metadata"}) => compose[work.name] = None
    /\ at = "delete_reload" => work.name \notin routed
    /\ Done("routing", {"metadata"}) => work.name \notin routed \cup served
    /\ Done("metadata", {}) => work.name \notin names

SvcInv == SvcTypes /\ WorkKnown /\ ParsesKnown /\ LeaseKnown /\ CleanKnown
---------------------------------------------------------------------------
(* Compose files and the records of an operation.                          *)

LEMMA SvcConstants ==
  /\ None \notin Names /\ Databases \subseteq Names
  /\ None \notin Definitions /\ None \notin Files /\ None \notin Deletions
  /\ \A s \in SUBSET Volumes : s # None
  /\ Services!Definitions = Definitions /\ Interrupted!Definitions \subseteq Definitions
  /\ Services!StageNames = Steps /\ Interrupted!StageNames = Steps
  <1>1. Services!StageNames = Steps /\ Interrupted!StageNames = Steps
    <2>1. Services!Stages = <<"schedules", "stop", "remove", "volumes", "compose", "routing",
                              "metadata", "complete">>
          /\ Interrupted!Stages = Services!Stages
      BY DEF Services!Stages, Interrupted!Stages
    <2>2. Len(Services!Stages) = 8
      BY <2>1
    <2>3. /\ Services!StageNames = {Services!Stages[n] : n \in 1 .. 8}
          /\ Interrupted!StageNames = {Services!Stages[n] : n \in 1 .. 8}
      BY <2>1, <2>2 DEF Services!StageNames, Interrupted!StageNames
    <2> QED  BY <2>1, <2>3 DEF Steps
  <1>2. Services!Definitions = Definitions /\ Interrupted!Definitions \subseteq Definitions
    BY DEF Services!Definitions, Interrupted!Definitions, Definitions
  <1>3. None \notin Files /\ None \notin Deletions
    BY <1>1, <1>2, Constants DEF Constants, Services!ConstantsOK, Files, Deletions
  <1> QED
    BY <1>1, <1>2, <1>3, Constants
       DEF Constants, Services!ConstantsOK, Services!NamesAssumption

LEMMA SvcRanks ==
  /\ Services!Rank("schedules") = 1 /\ Services!Rank("stop") = 2
  /\ Services!Rank("remove") = 3 /\ Services!Rank("volumes") = 4
  /\ Services!Rank("compose") = 5 /\ Services!Rank("routing") = 6
  /\ Services!Rank("metadata") = 7
  /\ \A s : Interrupted!Rank(s) = Services!Rank(s)
  <1>1. Services!Stages = <<"schedules", "stop", "remove", "volumes", "compose", "routing",
                            "metadata", "complete">>
        /\ Interrupted!Stages = Services!Stages
    BY DEF Services!Stages, Interrupted!Stages
  <1>2. Len(Services!Stages) = 8
    BY <1>1
  <1>3. \A s : /\ Services!Rank(s) = CHOOSE n \in 1 .. 8 : Services!Stages[n] = s
               /\ Interrupted!Rank(s) = CHOOSE n \in 1 .. 8 : Services!Stages[n] = s
    BY <1>1, <1>2 DEF Services!Rank, Interrupted!Rank
  <1>4. ASSUME NEW k \in 1 .. 8
        PROVE  Services!Rank(Services!Stages[k]) = k
    <2>1. \A n \in 1 .. 8 : Services!Stages[n] = Services!Stages[k] <=> n = k
      BY <1>1
    <2> QED  BY <1>3, <2>1
  <1>5. \A s : Interrupted!Rank(s) = Services!Rank(s)
    BY DEF Services!Rank, Interrupted!Rank, Services!Stages, Interrupted!Stages
  <1>6. /\ Services!Rank("schedules") = 1 /\ Services!Rank("stop") = 2
        /\ Services!Rank("remove") = 3 /\ Services!Rank("volumes") = 4
    BY <1>1, <1>4
  <1>7. /\ Services!Rank("compose") = 5 /\ Services!Rank("routing") = 6
        /\ Services!Rank("metadata") = 7
    BY <1>1, <1>4
  <1> QED  BY <1>5, <1>6, <1>7

LEMMA DefinitionWith ==
  ASSUME NEW d \in Definitions, NEW S, NEW e, e = [d EXCEPT !.deps = @ \ S]
  PROVE  e = [deps |-> d.deps \ S, vols |-> d.vols]
BY DEF Definitions

\* filterComposeDependsOn.
Filtered(c, S) == [m \in Names |-> IF c[m] = None THEN None ELSE [c[m] EXCEPT !.deps = @ \ S]]

LEMMA FilterKeeps ==
  ASSUME NEW c \in Files, NEW S, NEW f, f = Filtered(c, S)
  PROVE  /\ f \in Files /\ Defined(f) = Defined(c)
         /\ \A m \in Names : f[m] = None <=> c[m] = None
         /\ \A m \in Defined(c) : f[m].deps = c[m].deps \ S
  <1>1. ASSUME NEW m \in Names, c[m] # None
        PROVE  f[m] \in Definitions /\ f[m].deps = c[m].deps \ S
    <2>1. c[m] \in Definitions
      BY <1>1 DEF Files
    <2>2. f[m] = [c[m] EXCEPT !.deps = @ \ S]
      BY <1>1 DEF Filtered
    <2>3. f[m] = [deps |-> c[m].deps \ S, vols |-> c[m].vols]
      BY <2>1, <2>2, DefinitionWith
    <2> QED  BY <2>1, <2>3 DEF Definitions
  <1>2. \A m \in Names : c[m] = None => f[m] = None
    BY DEF Filtered
  <1>3. \A m \in Names : f[m] = None <=> c[m] = None
    BY <1>1, <1>2, SvcConstants
  <1>4. f = [m \in Names |-> f[m]]
    BY DEF Filtered
  <1>5. f \in Files
    BY <1>1, <1>2, <1>4 DEF Files
  <1> QED  BY <1>1, <1>3, <1>5 DEF Defined

LEMMA PruneParses ==
  ASSUME NEW c \in Files, NEW f, f = Services!PruneDanglingDependsOn(c)
  PROVE  /\ f \in Files /\ Parses(f) /\ \A m \in Names : f[m] = None <=> c[m] = None
         /\ Interrupted!PruneDanglingDependsOn(c) = f
  <1>1. /\ f = Filtered(c, Names \ Defined(c))
        /\ Interrupted!PruneDanglingDependsOn(c) = f
    BY DEF Services!PruneDanglingDependsOn, Services!FilterDependsOn, Services!Defined,
           Interrupted!PruneDanglingDependsOn, Interrupted!FilterDependsOn,
           Interrupted!Defined, Filtered, Defined
  <1>2. \A m \in Defined(c) : c[m].deps \subseteq Names
    BY DEF Files, Defined, Definitions
  <1> QED  BY <1>1, <1>2, FilterKeeps DEF Parses

LEMMA WithoutIs ==
  ASSUME NEW c \in Files, NEW n \in Names, NEW f, f = Without(c, n)
  PROVE  /\ f \in Files /\ f[n] = None /\ \A m \in Names \ {n} : f[m] = None <=> c[m] = None
         /\ Parses(c) => Parses(f)
         /\ Services!RemoveServiceFromCompose(c, n) = f
         /\ Interrupted!RemoveServiceFromCompose(c, n) = f
  <1> DEFINE e == [c EXCEPT ![n] = None]
  <1>1. e \in Files /\ e[n] = None /\ \A m \in Names \ {n} : e[m] = c[m]
    BY DEF Files
  <1>2. f = Filtered(e, {n})
    BY <1>1 DEF Without, Filtered
  <1>3. /\ Services!RemoveServiceFromCompose(c, n) = f
        /\ Interrupted!RemoveServiceFromCompose(c, n) = f
    BY <1>2
       DEF Services!RemoveServiceFromCompose, Services!FilterDependsOn,
           Interrupted!RemoveServiceFromCompose, Interrupted!FilterDependsOn, Filtered
  <1> HIDE DEF e
  <1>4. /\ f \in Files /\ Defined(f) = Defined(e)
        /\ \A m \in Names : f[m] = None <=> e[m] = None
        /\ \A m \in Defined(e) : f[m].deps = e[m].deps \ {n}
    BY <1>1, <1>2, FilterKeeps
  <1>5. Defined(e) = Defined(c) \ {n}
    BY <1>1 DEF Defined
  <1>6. Parses(c) => Parses(f)
    BY <1>1, <1>4, <1>5 DEF Parses, Defined
  <1> QED  BY <1>1, <1>3, <1>4, <1>6

LEMMA WritingFor ==
  ASSUME NEW n, NEW c, NEW o, o = [Services!NoOp EXCEPT !.name = n, !.snap = c]
  PROVE  o = [name |-> n, reg |-> FALSE, sel |-> {}, snap |-> c, staged |-> None]
BY DEF Services!NoOp

LEMMA DeletionOf ==
  ASSUME NEW n, NEW b, NEW s, NEW o,
         o = [Services!NoOp EXCEPT !.name = n, !.reg = b, !.sel = s]
  PROVE  o = [name |-> n, reg |-> b, sel |-> s, snap |-> None, staged |-> None]
BY DEF Services!NoOp

LEMMA PreparedWith ==
  ASSUME NEW w \in Operation, NEW c, NEW e, NEW o, o = [w EXCEPT !.snap = c, !.staged = e]
  PROVE  o = [name |-> w.name, reg |-> w.reg, sel |-> w.sel, snap |-> c, staged |-> e]
BY DEF Operation

LEMMA DeletionWith ==
  ASSUME NEW x \in Deletions, NEW stage, NEW state, NEW y,
         y = [x EXCEPT !.stage = stage, !.state = state]
  PROVE  y = [stage |-> stage, state |-> state, vols |-> x.vols]
BY DEF Deletions

LEMMA SelectionWith ==
  ASSUME NEW x \in Deletions, NEW vols, NEW y, y = [x EXCEPT !.vols = vols]
  PROVE  y = [stage |-> x.stage, state |-> x.state, vols |-> vols]
BY DEF Deletions

LEMMA SvcCheckpointedIs ==
  ASSUME NEW n \in Names, deletions \in [Names -> Deletions \cup {None}],
         deletions[n] \in Deletions, NEW stage \in Steps,
         NEW state \in {"running", "failed", "complete"},
         NEW new, new = Services!Checkpointed(n, stage, state)
  PROVE  /\ new \in [Names -> Deletions \cup {None}] /\ new[n] \in Deletions /\ new[n] # None
         /\ new[n].vols = deletions[n].vols /\ new[n].stage = stage /\ new[n].state = state
         /\ \A m \in Names \ {n} : new[m] = deletions[m]
         /\ Interrupted!Checkpointed(n, stage, state) = new
  <1> DEFINE x == deletions[n]
             y == [x EXCEPT !.stage = stage, !.state = state]
  <1>1. y = [stage |-> stage, state |-> state, vols |-> x.vols]
    BY DeletionWith
  <1>2. y \in Deletions /\ y.vols = x.vols /\ y.stage = stage /\ y.state = state
    BY <1>1 DEF Deletions
  <1>3. new = [deletions EXCEPT ![n] = y] /\ Interrupted!Checkpointed(n, stage, state) = new
    BY DEF Services!Checkpointed, Interrupted!Checkpointed
  <1> HIDE DEF y
  <1> QED  BY <1>2, <1>3, SvcConstants
---------------------------------------------------------------------------
(* Writing, starting, routing and backing up.                              *)

\* Names, deletions, leases and what runs and is served stay.
Registries == <<names, routed, deletions, leases, running, volumes, served, timed, deaths, errors>>

LEMMA OperationIs ==
  ASSUME NEW n \in Names, NEW reg \in BOOLEAN, NEW sel \in SUBSET Volumes,
         NEW c \in Files \cup {None}, NEW e \in Files \cup {None}, NEW o,
         o = [name |-> n, reg |-> reg, sel |-> sel, snap |-> c, staged |-> e]
  PROVE  o \in Operation
BY DEF Operation

LEMMA WorkTypes ==
  /\ Services!NoOp \in Operation /\ Services!NoOp.name = None /\ Interrupted!NoOp = Services!NoOp
  <1>1. Services!NoOp = [name |-> None, reg |-> FALSE, sel |-> {}, snap |-> None, staged |-> None]
    BY DEF Services!NoOp
  <1> QED  BY <1>1 DEF Interrupted!NoOp, Operation

\* An operation has returned.
LEMMA Returned ==
  ASSUME SvcInv, SvcTypes', at' = "idle", work' = Services!NoOp,
         \A n \in Names : Unfinished(n)' => deletions'[n].stage # "complete",
         deaths' = 0 => Parses(compose'),
         deaths' = 0 /\ errors' = 0 =>
           /\ \A n \in names' : compose'[n] # None
           /\ served' = routed'
           /\ \A n \in Names : Unfinished(n)' => n \in names' /\ Interruptible(n)'
  PROVE  SvcInv'
  <1>1. work'.name = None /\ at' \notin Removing \cup Writing \cup {"start"}
    BY WorkTypes DEF Removing, Leased, Prepared, Staging, Writing
  <1>2. WorkKnown'
    BY <1>1 DEF WorkKnown, Removing, Leased, Prepared, Staging
  <1>3. ParsesKnown'
    BY <1>1 DEF ParsesKnown, Removing, Leased, Prepared, Staging
  <1>4. LeaseKnown'
    BY <1>1 DEF LeaseKnown, Removing
  <1>5. CleanKnown'
    BY <1>1 DEF CleanKnown, Done, Removing, Leased, Prepared, Staging
  <1> QED  BY <1>2, <1>3, <1>4, <1>5 DEF SvcInv

LEMMA Writes ==
  ASSUME SvcInv, at = "idle", NEW n \in Names, NEW d \in Definitions,
         compose' = [compose EXCEPT ![n] = d],
         work' = [Services!NoOp EXCEPT !.name = n, !.snap = compose],
         at' \in Writing, UNCHANGED Registries
  PROVE  SvcInv'
  <1>1. /\ UNCHANGED <<names, routed, deletions, leases, running, volumes, served, timed>>
        /\ UNCHANGED <<deaths, errors>>
    BY DEF Registries
  <1>2. work' = [name |-> n, reg |-> FALSE, sel |-> {}, snap |-> compose, staged |-> None]
    BY WritingFor
  <1>3. compose \in Files
    BY DEF SvcInv, SvcTypes
  <1>4. work'.name = n /\ work'.snap = compose /\ work' \in Operation
    <2>1. work'.name = n /\ work'.snap = compose
      BY <1>2
    <2>3. work' \in Operation
      BY <1>2, <1>3, OperationIs
    <2> QED  BY <2>1, <2>3
  <1>5. compose' \in Files /\ compose'[n] # None /\ \A m \in Names \ {n} : compose'[m] = compose[m]
    BY <1>3, SvcConstants DEF Files
  <1>6. at' \notin Removing \cup {"idle", "start"}
    BY DEF Writing, Removing, Leased, Prepared, Staging
  <1>7. SvcTypes'
    BY <1>1, <1>4, <1>5 DEF SvcInv, SvcTypes
  <1>8. WorkKnown'
    BY <1>1, <1>3, <1>4, <1>5, <1>6
       DEF SvcInv, WorkKnown, Unfinished, Removing, Leased, Prepared, Staging
  <1>9. ParsesKnown'
    BY <1>1, <1>4, <1>6
       DEF SvcInv, ParsesKnown, Removing, Leased, Prepared, Staging, Writing
  <1>10. LeaseKnown'
    BY <1>6 DEF LeaseKnown, Removing
  <1>11. CleanKnown'
    <2>1. at \notin Removing
      BY DEF Removing, Leased, Prepared, Staging
    <2> QED
      BY <1>1, <1>4, <1>5, <1>6, <2>1
         DEF SvcInv, SvcTypes, CleanKnown, Done, Unfinished, Interruptible, Whole, Removing, Leased,
             Prepared, Staging
  <1> QED  BY <1>7, <1>8, <1>9, <1>10, <1>11 DEF SvcInv

LEMMA WriteSteps ==
  ASSUME SvcInv, NEW n \in Names,
         \/ Services!CreateService(n) \/ Interrupted!CreateService(n)
         \/ Services!UpdateApplicationService(n) \/ Interrupted!UpdateApplicationService(n)
  PROVE  SvcInv'
  <1>1. PICK d \in Definitions :
          /\ at = "idle" /\ compose' = [compose EXCEPT ![n] = d] /\ at' \in Writing
          /\ work' = [Services!NoOp EXCEPT !.name = n, !.snap = compose]
          /\ UNCHANGED Registries
    <2>1. CASE Services!CreateService(n) \/ Services!UpdateApplicationService(n)
      BY <2>1, SvcConstants
         DEF Services!CreateService, Services!UpdateApplicationService, Services!Write,
             Services!At, Services!Go, Services!tables, Services!docker, Writing, Registries
    <2>2. CASE Interrupted!CreateService(n) \/ Interrupted!UpdateApplicationService(n)
      BY <2>2, SvcConstants, WorkTypes
         DEF Interrupted!CreateService, Interrupted!UpdateApplicationService,
             Interrupted!Write, Interrupted!At, Interrupted!Go, Interrupted!tables,
             Interrupted!docker, Writing, Registries
    <2> QED  BY <2>1, <2>2
  <1> QED  BY <1>1, Writes

LEMMA WriteUndone ==
  ASSUME SvcInv, Services!WriteUndo \/ Interrupted!WriteUndo
  PROVE  SvcInv'
  <1>1. /\ at \in Writing /\ compose' = work.snap /\ at' = "idle" /\ work' = Services!NoOp
        /\ errors' \in {errors, errors + 1}
        /\ UNCHANGED <<names, routed, deletions, leases, running, volumes, served, timed, deaths>>
    BY WorkTypes
       DEF Services!WriteUndo, Services!Fails, Services!Restore, Services!Return,
           Services!tables, Services!docker, Interrupted!WriteUndo, Interrupted!Fails,
           Interrupted!Restore, Interrupted!Return, Interrupted!tables, Interrupted!docker,
           Writing
  <1>2. at \notin Removing \cup {"idle"}
    BY <1>1 DEF Writing, Removing, Leased, Prepared, Staging
  <1>3. SvcTypes'
    <2>1. errors \in Nat /\ errors' \in Nat
      BY <1>1 DEF SvcInv, SvcTypes
    <2>2. compose' \in Files /\ work' \in Operation
      BY <1>1, WorkTypes DEF SvcInv, WorkKnown
    <2> QED  BY <1>1, <2>1, <2>2 DEF SvcInv, SvcTypes
  <1>4. \A n \in Names : Unfinished(n)' => deletions'[n].stage # "complete"
    BY <1>1 DEF SvcInv, WorkKnown, Unfinished
  <1>5. deaths' = 0 => Parses(compose')
    BY <1>1 DEF SvcInv, ParsesKnown
  <1>6. deaths' = 0 /\ errors' = 0 => deaths = 0 /\ errors = 0
    BY <1>1 DEF SvcInv, SvcTypes
  <1>7. deaths' = 0 /\ errors' = 0 =>
           /\ \A n \in names' : compose'[n] # None
           /\ served' = routed'
           /\ \A n \in Names : Unfinished(n)' => n \in names' /\ Interruptible(n)'
    BY <1>1, <1>2, <1>6
       DEF SvcInv, SvcTypes, CleanKnown, Unfinished, Interruptible, Whole, Removing, Leased,
           Prepared, Staging
  <1> QED  BY <1>1, <1>3, <1>4, <1>5, <1>7, Returned

LEMMA RowSaved ==
  ASSUME SvcInv, Services!SaveRow \/ Interrupted!SaveRow
  PROVE  SvcInv'
  <1>1. /\ at \in Writing /\ names' = names \cup {work.name} /\ at' = "start"
        /\ Parses(compose)
        /\ UNCHANGED <<compose, work, routed, deletions, leases, running, volumes, served, timed,
                       deaths, errors>>
    BY DEF Services!SaveRow, Services!StagedValid, Services!ComposeValid, Services!Defined,
           Services!Go, Services!docker, Interrupted!SaveRow, Interrupted!StagedValid,
           Interrupted!ComposeValid, Interrupted!Defined, Interrupted!Go, Interrupted!docker,
           Writing, Parses, Defined
  <1>2. at \notin Removing \cup {"idle"} /\ at' \notin Removing \cup Writing \cup {"idle"}
    BY <1>1 DEF Writing, Removing, Leased, Prepared, Staging
  <1>3. work.name \in Names /\ compose[work.name] # None
    BY <1>1, <1>2 DEF SvcInv, WorkKnown
  <1>4. SvcTypes'
    BY <1>1, <1>3 DEF SvcInv, SvcTypes
  <1>5. WorkKnown'
    BY <1>1, <1>2, <1>3
       DEF SvcInv, WorkKnown, Unfinished, Removing, Leased, Prepared, Staging
  <1>6. ParsesKnown'
    BY <1>1, <1>2
       DEF SvcInv, ParsesKnown, Removing, Leased, Prepared, Staging
  <1>7. LeaseKnown'
    BY <1>2 DEF LeaseKnown, Removing
  <1>8. CleanKnown'
    BY <1>1, <1>2, <1>3
       DEF SvcInv, SvcTypes, CleanKnown, Done, Unfinished, Interruptible, Whole, Removing, Leased,
           Prepared, Staging
  <1> QED  BY <1>4, <1>5, <1>6, <1>7, <1>8 DEF SvcInv

LEMMA UpTypes ==
  ASSUME SvcInv, NEW n \in Names, compose[n] # None, Services!Up(n) \/ Interrupted!Up(n)
  PROVE  running' \in SUBSET Names /\ volumes' \in SUBSET Volumes /\ volumes \subseteq volumes'
  <1> DEFINE started == {n} \cup compose[n].deps
  <1>1. /\ running' = running \cup started
        /\ volumes' = volumes \cup UNION {compose[m].vols : m \in started \cap Defined(compose)}
    BY DEF Services!Up, Services!Defined, Interrupted!Up, Interrupted!Defined, Defined
  <1>2. \A m \in Names : compose[m] # None =>
          compose[m].deps \in SUBSET Names /\ compose[m].vols \in SUBSET Volumes
    BY DEF SvcInv, SvcTypes, Files, Definitions
  <1>3. started \in SUBSET Names
    BY <1>2
  <1>4. \A m \in started \cap Defined(compose) : compose[m].vols \subseteq Volumes
    BY <1>2, <1>3 DEF Defined
  <1> QED  BY <1>1, <1>3, <1>4 DEF SvcInv, SvcTypes

LEMMA StartSteps ==
  ASSUME SvcInv,
         \/ Services!Start \/ Interrupted!Start
         \/ Services!StartLeft \/ Interrupted!StartLeft
  PROVE  SvcInv' /\ volumes \subseteq volumes'
  <1>1. /\ at = "start" /\ at' = "idle" /\ work' = Services!NoOp
        /\ UNCHANGED <<names, compose, routed, deletions, leases, served, timed, deaths, errors>>
        /\ \/ Services!Up(work.name) \/ Interrupted!Up(work.name)
           \/ UNCHANGED <<running, volumes>>
    BY WorkTypes
       DEF Services!Start, Services!StartLeft, Services!At, Services!Return, Services!tables,
           Services!docker, Interrupted!Start, Interrupted!StartLeft, Interrupted!At,
           Interrupted!Return, Interrupted!tables, Interrupted!docker
  <1>2. work.name \in Names /\ compose[work.name] # None
    BY <1>1 DEF SvcInv, WorkKnown
  <1>3. running' \in SUBSET Names /\ volumes' \in SUBSET Volumes /\ volumes \subseteq volumes'
    <2>1. UNCHANGED <<running, volumes>> =>
            running' \in SUBSET Names /\ volumes' \in SUBSET Volumes /\ volumes \subseteq volumes'
      BY DEF SvcInv, SvcTypes
    <2> QED  BY <1>1, <1>2, <2>1, UpTypes
  <1>4. SvcTypes'
    BY <1>1, <1>3, WorkTypes DEF SvcInv, SvcTypes
  <1>5. \A n \in Names : Unfinished(n)' => deletions'[n].stage # "complete"
    BY <1>1 DEF SvcInv, WorkKnown, Unfinished
  <1>6. deaths' = 0 => Parses(compose')
    BY <1>1 DEF SvcInv, ParsesKnown, Writing
  <1>7. at \notin Removing
    BY <1>1 DEF Removing, Leased, Prepared, Staging
  <1>8. deaths' = 0 /\ errors' = 0 =>
           /\ \A n \in names' : compose'[n] # None
           /\ served' = routed'
           /\ \A n \in Names : Unfinished(n)' => n \in names' /\ Interruptible(n)'
    BY <1>1, <1>7
       DEF SvcInv, SvcTypes, CleanKnown, Done, Unfinished, Interruptible, Whole, Removing, Leased,
           Prepared, Staging
  <1> QED  BY <1>1, <1>3, <1>4, <1>5, <1>6, <1>8, Returned

\* The operation under way is where it was.
LEMMA BesideConcluded ==
  ASSUME SvcInv, SvcTypes', LeaseKnown', CleanKnown',
         UNCHANGED <<names, compose, deletions, at, work, deaths, errors>>
  PROVE  SvcInv'
  <1>1. WorkKnown'
    BY DEF SvcInv, WorkKnown, Unfinished, Stage
  <1>2. ParsesKnown'
    BY DEF SvcInv, ParsesKnown, Stage
  <1> QED  BY <1>1, <1>2 DEF SvcInv

LEMMA IdleSteps ==
  ASSUME SvcInv, NEW n \in Names,
         \/ Services!StartService(n) \/ Interrupted!StartService(n)
         \/ Services!CreateRouting(n) \/ Interrupted!CreateRouting(n)
  PROVE  SvcInv' /\ volumes \subseteq volumes'
  <1>1. /\ at = "idle" /\ UNCHANGED <<names, compose, deletions, leases, timed, at, work, deaths,
                                      errors>>
        /\ \/ UNCHANGED <<running, volumes>>
           \/ compose[n] # None /\ (Services!Up(n) \/ Interrupted!Up(n))
        /\ \/ UNCHANGED <<routed, served>>
           \/ routed' = routed \cup {n} /\ served' = routed'
    BY DEF Services!StartService, Services!CreateRouting, Services!At, Services!tables,
           Services!docker, Interrupted!StartService, Interrupted!CreateRouting,
           Interrupted!At, Interrupted!tables, Interrupted!docker
  <1>2. running' \in SUBSET Names /\ volumes' \in SUBSET Volumes /\ volumes \subseteq volumes'
    <2>1. UNCHANGED <<running, volumes>> =>
            running' \in SUBSET Names /\ volumes' \in SUBSET Volumes /\ volumes \subseteq volumes'
      BY DEF SvcInv, SvcTypes
    <2> QED  BY <1>1, <2>1, UpTypes
  <1>3. SvcTypes'
    BY <1>1, <1>2 DEF SvcInv, SvcTypes
  <1>4. at \notin Removing
    BY <1>1 DEF Removing, Leased, Prepared, Staging
  <1>5. LeaseKnown'
    BY <1>1, <1>4 DEF LeaseKnown, Removing
  <1>6. CleanKnown'
    BY <1>1, <1>4
       DEF SvcInv, CleanKnown, Done, Unfinished, Interruptible, Whole, Removing, Leased, Prepared,
           Staging, Writing
  <1> QED  BY <1>1, <1>2, <1>3, <1>5, <1>6, BesideConcluded

LEMMA BackupSteps ==
  ASSUME SvcInv, NEW d \in Databases,
         \/ Services!SaveSchedule(d) \/ Interrupted!SaveSchedule(d)
         \/ Services!BackupBegin(d) \/ Interrupted!BackupBegin(d)
         \/ Services!LeaseEnds(d) \/ Interrupted!LeaseEnds(d)
  PROVE  SvcInv'
  <1>1. /\ UNCHANGED <<names, compose, deletions, routed, served, running, volumes, at, work, deaths,
                       errors>>
        /\ \/ /\ timed' = timed \cup {d} /\ UNCHANGED leases
              /\ d \in names /\ leases[d] = "free"
           \/ /\ UNCHANGED timed /\ leases' = [leases EXCEPT ![d] = "backup"]
              /\ d \in names /\ leases[d] = "free"
           \/ /\ UNCHANGED timed /\ leases' = [leases EXCEPT ![d] = "free"]
              /\ leases[d] \in {"backup", "dead"}
    BY DEF Services!SaveSchedule, Services!BackupBegin, Services!LeaseEnds, Services!tables,
           Services!docker, Interrupted!SaveSchedule, Interrupted!BackupBegin,
           Interrupted!LeaseEnds, Interrupted!tables, Interrupted!docker
  <1>2. SvcTypes'
    BY <1>1 DEF SvcInv, SvcTypes
  <1>3. LeaseKnown'
    BY <1>1 DEF SvcInv, SvcTypes, LeaseKnown
  <1>4. ASSUME at \in Leased, work.reg, d = work.name
        PROVE  timed' = timed
    BY <1>1, <1>4 DEF SvcInv, LeaseKnown
  <1>5. CleanKnown'
    <2>1. deaths = 0 /\ errors = 0 /\ at \in Leased => work.reg
      BY DEF SvcInv, CleanKnown, Removing
    <2>2. deaths = 0 /\ errors = 0 /\ at \in Leased => (work.name \in timed' => work.name \in timed)
      BY <1>1, <1>4, <2>1
    <2> QED
      BY <1>1, <2>2 DEF SvcInv, CleanKnown, Done, Unfinished, Interruptible, Whole, Stage
  <1> QED  BY <1>1, <1>2, <1>3, <1>5, BesideConcluded

---------------------------------------------------------------------------
(* Deleting a service.                                                     *)

LEMMA DeletionTypes ==
  ASSUME SvcInv, NEW n \in Names, deletions[n] # None
  PROVE  deletions[n] \in Deletions /\ deletions[n].stage \in Steps
BY DEF SvcInv, SvcTypes, Deletions

LEMMA DeletionIs ==
  ASSUME NEW stage \in Steps, NEW state \in {"running", "failed", "complete"},
         NEW vols \in {None} \cup SUBSET Volumes, NEW y,
         y = [stage |-> stage, state |-> state, vols |-> vols]
  PROVE  y \in Deletions
BY DEF Deletions

LEMMA SvcDeleteBegins ==
  ASSUME SvcInv, NEW n \in Names, Services!DeleteBegin(n) \/ Interrupted!DeleteBegin(n)
  PROVE  /\ SvcInv'
         /\ \A m \in Names : Unfinished(m) => deletions'[m] = deletions[m]
         /\ \A m \in Names : deletions'[m] # deletions[m] => deletions'[m].state = "running"
  <1> DEFINE new == [stage |-> "schedules", state |-> "running", vols |-> None]
  <1>1. /\ at = "idle" /\ at' = "delete_select"
        /\ n \in names \/ Unfinished(n)
        /\ deletions' = IF Unfinished(n) THEN deletions ELSE [deletions EXCEPT ![n] = new]
        /\ UNCHANGED <<names, routed, leases, compose, running, volumes, served, timed, deaths,
                       errors>>
    BY DEF Services!DeleteBegin, Services!Incomplete, Services!NewIntent, Services!At,
           Services!Go, Services!docker, Interrupted!DeleteBegin, Interrupted!Incomplete,
           Interrupted!NewIntent, Interrupted!At, Interrupted!Go, Interrupted!docker, Unfinished
  <1>2. PICK sel \in SUBSET Volumes :
          work' = [Services!NoOp EXCEPT !.name = n, !.reg = n \in names, !.sel = sel]
    <2>1. CASE Services!DeleteBegin(n)
      BY <2>1 DEF Services!DeleteBegin
    <2>2. CASE Interrupted!DeleteBegin(n)
      BY <2>2, WorkTypes DEF Interrupted!DeleteBegin
    <2> QED  BY <2>1, <2>2
  <1>16. work' = [name |-> n, reg |-> n \in names, sel |-> sel, snap |-> None, staged |-> None]
    BY <1>2, DeletionOf
  <1>3. work' \in Operation
    <2>1. (n \in names) \in BOOLEAN
      OBVIOUS
    <2> QED  BY <1>16, <2>1, OperationIs
  <1>4. work'.name = n /\ work'.snap = None /\ (n \in names => work'.reg)
    BY <1>16
  <1>5. new \in Deletions /\ new # None
    <2>1. /\ "schedules" \in Steps /\ "running" \in {"running", "failed", "complete"}
          /\ None \in {None} \cup SUBSET Volumes
      BY DEF Steps
    <2>2. new \in Deletions
      BY <2>1, DeletionIs
    <2> QED  BY <2>2, SvcConstants
  <1>6. /\ deletions' \in [Names -> Deletions \cup {None}]
        /\ \A m \in Names \ {n} : deletions'[m] = deletions[m]
        /\ \/ Unfinished(n) /\ deletions'[n] = deletions[n]
           \/ ~Unfinished(n) /\ deletions'[n] = new
    BY <1>1, <1>5 DEF SvcInv, SvcTypes
  <1>7. new.stage = "schedules" /\ new.state = "running" /\ new.vols = None
    OBVIOUS
  <1> HIDE DEF new
  <1>8. /\ Unfinished(n)' /\ \A m \in Names \ {n} : Unfinished(m)' <=> Unfinished(m)
        /\ \A m \in Names : Unfinished(m) => deletions'[m] = deletions[m]
    BY <1>5, <1>6, <1>7 DEF Unfinished
  <1>9. at' \in Removing \ Leased /\ at' \notin Writing \cup {"idle", "start"}
        /\ at' # "delete_repair"
    BY <1>1 DEF Writing, Removing, Leased, Prepared, Staging
  <1>10. at \notin Removing
    BY <1>1 DEF Removing, Leased, Prepared, Staging
  <1>11. SvcTypes'
    BY <1>1, <1>3, <1>6 DEF SvcInv, SvcTypes, Removing
  <1>12. WorkKnown'
    BY <1>1, <1>4, <1>6, <1>7, <1>8, <1>9
       DEF SvcInv, WorkKnown, Leased, Prepared, Staging
  <1>13. ParsesKnown' /\ LeaseKnown'
    BY <1>1, <1>9 DEF SvcInv, ParsesKnown, LeaseKnown, Leased, Prepared, Writing
  <1>14. CleanKnown'
    <2>1. ASSUME deaths = 0, errors = 0
          PROVE  n \in names /\ Interruptible(n)'
      BY <1>1, <1>6, <1>7, <1>10, <2>1 DEF SvcInv, CleanKnown, Interruptible, Whole
    <2> QED
      BY <1>1, <1>4, <1>6, <1>8, <1>9, <1>10, <2>1
         DEF SvcInv, SvcTypes, CleanKnown, Done, Interruptible, Whole, Leased, Prepared,
             Staging, Writing
  <1>15. \A m \in Names : deletions'[m] # deletions[m] => deletions'[m].state = "running"
    BY <1>6, <1>7
  <1> QED  BY <1>8, <1>11, <1>12, <1>13, <1>14, <1>15 DEF SvcInv

LEMMA DeleteSelects ==
  ASSUME SvcInv, Services!DeleteSelect \/ Interrupted!DeleteSelect
  PROVE  /\ SvcInv'
         /\ \A m \in Names : Unfinished(m) /\ deletions[m].vols # None => deletions'[m] = deletions[m]
         /\ \A m \in Names : deletions'[m] # deletions[m] => deletions'[m].state # "complete"
  <1> DEFINE n == work.name
             new == [deletions EXCEPT ![n].vols = work.sel]
  <1>1. /\ at = "delete_select" /\ at' = "delete_lease"
        /\ \/ deletions' = deletions
           \/ deletions[n].vols = None /\ deletions[n].stage = "schedules" /\ deletions' = new
        /\ UNCHANGED <<names, routed, leases, compose, running, volumes, served, timed, work, deaths,
                       errors>>
    BY DEF Services!DeleteSelect, Services!SelectionSaved, Services!At, Services!Go,
           Services!docker, Interrupted!DeleteSelect, Interrupted!SelectionSaved,
           Interrupted!At, Interrupted!Go, Interrupted!docker
  <1>2. n \in Names /\ Unfinished(n) /\ work.sel \subseteq Volumes /\ deletions[n] \in Deletions
    BY <1>1, DeletionTypes DEF SvcInv, SvcTypes, WorkKnown, Operation, Removing, Unfinished
  <1> HIDE DEF n
  <1> DEFINE y == [deletions[n] EXCEPT !.vols = work.sel]
  <1>3. y = [stage |-> deletions[n].stage, state |-> deletions[n].state, vols |-> work.sel]
    BY <1>2, SelectionWith
  <1>4. /\ y \in Deletions /\ y # None /\ y.stage = deletions[n].stage
        /\ y.state = deletions[n].state /\ y.vols = work.sel
    BY <1>2, <1>3, SvcConstants DEF Deletions
  <1>5. new = [deletions EXCEPT ![n] = y]
    OBVIOUS
  <1> HIDE DEF y, new
  <1>6. /\ deletions' \in [Names -> Deletions \cup {None}]
        /\ \A m \in Names \ {n} : deletions'[m] = deletions[m]
        /\ deletions'[n] # None /\ deletions'[n].stage = deletions[n].stage
        /\ deletions'[n].state = deletions[n].state
        /\ \/ deletions'[n] = deletions[n]
           \/ deletions[n].vols = None
    BY <1>1, <1>2, <1>4, <1>5 DEF SvcInv, SvcTypes, Unfinished
  <1>7. \A m \in Names : Unfinished(m)' <=> Unfinished(m)
    BY <1>2, <1>6 DEF Unfinished
  <1>8. \A m \in Names : Interruptible(m) => Interruptible(m)'
    BY <1>6, <1>1 DEF Interruptible, Whole
  <1>9. /\ at \in Removing \ Leased /\ at' \in Removing \ Leased
        /\ at' \notin Writing \cup {"idle", "start", "delete_repair"}
    BY <1>1 DEF Writing, Removing, Leased, Prepared, Staging
  <1>10. SvcTypes'
    BY <1>1, <1>6, <1>9 DEF SvcInv, SvcTypes
  <1>11. WorkKnown'
    BY <1>1, <1>2, <1>6, <1>7, <1>9
       DEF SvcInv, WorkKnown, Leased, Prepared, Staging, n
  <1>12. ParsesKnown' /\ LeaseKnown'
    BY <1>1, <1>9 DEF SvcInv, ParsesKnown, LeaseKnown, Leased, Prepared, Writing
  <1>13. CleanKnown'
    BY <1>1, <1>2, <1>7, <1>8, <1>9
       DEF SvcInv, CleanKnown, Done, Leased, Prepared, Staging, Writing, n
  <1>14. /\ \A m \in Names : Unfinished(m) /\ deletions[m].vols # None => deletions'[m] = deletions[m]
         /\ \A m \in Names : deletions'[m] # deletions[m] => deletions'[m].state # "complete"
    BY <1>2, <1>6 DEF Unfinished
  <1> QED  BY <1>10, <1>11, <1>12, <1>13, <1>14 DEF SvcInv

VolumesFrozen ==
  \A m \in Names : Unfinished(m) /\ deletions[m].vols # None =>
    deletions'[m].vols = deletions[m].vols
NoneCompletes ==
  \A m \in Names : deletions'[m] # deletions[m] => deletions'[m].state # "complete"

LEMMA SameDeletions == deletions' = deletions => VolumesFrozen /\ NoneCompletes
BY DEF VolumesFrozen, NoneCompletes

LEMMA WorkingOn ==
  ASSUME SvcInv, at \in Removing
  PROVE  /\ work.name \in Names /\ Unfinished(work.name) /\ deletions[work.name] # None
         /\ deletions[work.name] \in Deletions /\ Stage \in Steps \ {"complete"}
         /\ deletions \in [Names -> Deletions \cup {None}] /\ work \in Operation
         /\ work.name # None
  <1>1. at # "idle"
    BY DEF Removing, Leased, Prepared, Staging
  <1>2. work.name \in Names /\ Unfinished(work.name)
    BY <1>1 DEF SvcInv, WorkKnown
  <1> QED  BY <1>2, DeletionTypes, SvcConstants DEF SvcInv, SvcTypes, WorkKnown, Unfinished, Stage

\* A deletion that fails or goes on is unfinished and keeps its volumes.
LEMMA SvcCheckpoints ==
  ASSUME SvcInv, at \in Removing, NEW stage \in Steps \ {"complete"},
         NEW state \in {"running", "failed"},
         deletions' = Services!Checkpointed(work.name, stage, state)
  PROVE  /\ deletions' \in [Names -> Deletions \cup {None}]
         /\ \A m \in Names : Unfinished(m)' <=> Unfinished(m)
         /\ \A m \in Names \ {work.name} : deletions'[m] = deletions[m]
         /\ deletions'[work.name].stage = stage
         /\ \A m \in Names : Whole(m)' <=> Whole(m)
         /\ VolumesFrozen /\ NoneCompletes
  <1> DEFINE n == work.name
  <1>1. n \in Names /\ Unfinished(n) /\ deletions[n] \in Deletions
        /\ deletions \in [Names -> Deletions \cup {None}]
    BY WorkingOn
  <1>2. deletions' = Services!Checkpointed(n, stage, state)
    OBVIOUS
  <1> HIDE DEF n
  <1>3. /\ deletions' \in [Names -> Deletions \cup {None}] /\ deletions'[n] # None
        /\ deletions'[n].vols = deletions[n].vols /\ deletions'[n].stage = stage
        /\ deletions'[n].state = state /\ \A m \in Names \ {n} : deletions'[m] = deletions[m]
    BY <1>1, <1>2, SvcCheckpointedIs
  <1>4. \A m \in Names : Unfinished(m)' <=> Unfinished(m)
    BY <1>1, <1>3 DEF Unfinished
  <1>5. \A m \in Names : deletions'[m].vols = deletions[m].vols
    BY <1>3
  <1>6. VolumesFrozen /\ NoneCompletes
    BY <1>3, <1>5 DEF VolumesFrozen, NoneCompletes
  <1>7. \A m \in Names : Whole(m)' <=> Whole(m)
    BY <1>5 DEF Whole
  <1> QED  BY <1>3, <1>4, <1>6, <1>7 DEF n

LEMMA LeaseSteps ==
  ASSUME SvcInv, Services!DeleteLease \/ Interrupted!DeleteLease
  PROVE  SvcInv' /\ VolumesFrozen /\ NoneCompletes
  <1>1. /\ at = "delete_lease"
        /\ UNCHANGED <<names, routed, compose, running, volumes, served, timed, deaths, errors>>
        /\ \/ /\ deletions' = Services!Checkpointed(work.name, "schedules", "failed")
              /\ at' = "idle" /\ work' = Services!NoOp /\ leases' = leases
           \/ /\ leases' = IF work.reg /\ work.name \in Databases
                             THEN [leases EXCEPT ![work.name] = "deletion"] ELSE leases
              /\ at' = IF Stage = "schedules" THEN "delete_work" ELSE "delete_repair"
              /\ deletions' = deletions /\ work' = work
    <2>1. CASE Services!DeleteLease
      BY <2>1
         DEF Services!DeleteLease, Services!NeedsLease, Services!Work, Services!At, Services!Go,
             Services!Return, Services!docker, Stage
    <2>2. CASE Interrupted!DeleteLease
      <3>1. work.name \in Names /\ deletions[work.name] \in Deletions
            /\ deletions \in [Names -> Deletions \cup {None}]
        BY <2>2, WorkingOn DEF Interrupted!DeleteLease, Interrupted!At, Removing
      <3>2. "schedules" \in Steps /\ "failed" \in {"running", "failed", "complete"}
        BY DEF Steps
      <3>3. Interrupted!Checkpointed(work.name, "schedules", "failed")
              = Services!Checkpointed(work.name, "schedules", "failed")
        BY DEF Interrupted!Checkpointed, Services!Checkpointed
      <3> QED
        BY <2>2, <3>3, WorkTypes
           DEF Interrupted!DeleteLease, Interrupted!NeedsLease, Interrupted!Work,
               Interrupted!At, Interrupted!Go, Interrupted!Return, Interrupted!docker, Stage
    <2> QED  BY <2>1, <2>2
  <1>2. /\ at \in Removing /\ at \in Removing \ Leased
        /\ at \notin Writing \cup {"idle", "start", "delete_repair", "delete_reload"}
    BY <1>1 DEF Writing, Removing, Leased, Prepared, Staging
  <1>3. /\ work.name \in Names /\ Unfinished(work.name) /\ Stage \in Steps \ {"complete"}
        /\ work \in Operation /\ work.name # None
    BY <1>2, WorkingOn
  <1>4. deaths = 0 => Parses(compose)
    BY <1>2 DEF SvcInv, ParsesKnown
  <1>5. deaths = 0 /\ errors = 0 =>
          /\ \A n \in names : compose[n] # None
          /\ served = routed
          /\ \A n \in Names : Unfinished(n) => n \in names /\ Interruptible(n)
          /\ work.reg /\ work.name \in names
    BY <1>2, <1>3
       DEF SvcInv, CleanKnown, Done, Leased, Prepared, Staging, Removing, Writing
  <1>6. CASE deletions' = Services!Checkpointed(work.name, "schedules", "failed") /\ at' = "idle"
             /\ work' = Services!NoOp /\ leases' = leases
    <2>1. "schedules" \in Steps \ {"complete"}
      BY DEF Steps
    <2>2. /\ deletions' \in [Names -> Deletions \cup {None}]
          /\ \A m \in Names : Unfinished(m)' <=> Unfinished(m)
          /\ \A m \in Names \ {work.name} : deletions'[m] = deletions[m]
          /\ deletions'[work.name].stage = "schedules"
          /\ VolumesFrozen /\ NoneCompletes
      BY <1>2, <1>6, <2>1, SvcCheckpoints
    <2>3. SvcTypes'
      BY <1>1, <1>6, <2>2, WorkTypes DEF SvcInv, SvcTypes
    <2>4. \A n \in Names : Unfinished(n)' => deletions'[n].stage # "complete"
      BY <2>2 DEF SvcInv, WorkKnown
    <2>5. \A n \in Names : Interruptible(n) => Interruptible(n)'
      BY <2>2 DEF Interruptible, Whole
    <2>6. SvcInv'
      BY <1>1, <1>4, <1>5, <1>6, <2>2, <2>3, <2>4, <2>5, Returned
    <2> QED  BY <2>2, <2>6
  <1>7. CASE /\ leases' = IF work.reg /\ work.name \in Databases
                             THEN [leases EXCEPT ![work.name] = "deletion"] ELSE leases
             /\ at' = IF Stage = "schedules" THEN "delete_work" ELSE "delete_repair"
             /\ deletions' = deletions /\ work' = work
    <2>1. /\ at' \in Leased /\ at' \in Removing /\ at' \notin Removing \ Leased
          /\ at' \notin Writing \cup Staging \cup {"idle", "start", "delete_reload"}
          /\ at' \notin {"delete_validate", "delete_checkpoint"}
          /\ at' \in Prepared => Stage = "schedules"
          /\ at' = "delete_repair" => Stage # "schedules"
      BY <1>7 DEF Writing, Removing, Leased, Prepared, Staging
    <2>2. Stage' = Stage /\ \A n \in Names : /\ Unfinished(n)' <=> Unfinished(n)
                                             /\ Interruptible(n)' <=> Interruptible(n)
                                             /\ Whole(n)' <=> Whole(n)
      BY <1>7 DEF Stage, Unfinished, Interruptible, Whole
    <2>3. leases' \in [Databases -> {"free", "backup", "deletion", "dead"}]
          /\ (work.reg /\ work.name \in Databases => leases'[work.name] = "deletion")
      BY <1>7 DEF SvcInv, SvcTypes
    <2>4. SvcTypes'
      BY <1>1, <1>7, <2>1, <2>3 DEF SvcInv, SvcTypes
    <2>5. WorkKnown'
      BY <1>1, <1>2, <1>3, <1>7, <2>1, <2>2 DEF SvcInv, WorkKnown
    <2>6. ParsesKnown'
      BY <1>1, <1>4, <2>1, <2>2 DEF ParsesKnown
    <2>7. LeaseKnown'
      BY <1>7, <2>3 DEF LeaseKnown
    <2>8. CleanKnown'
      <3>1. deaths = 0 /\ errors = 0 =>
              Stage = "schedules" \/ (Stage \in {"stop", "volumes"} /\ ~Whole(work.name))
        BY <1>3, <1>5 DEF Interruptible, Stage
      <3> QED
        BY <1>1, <1>3, <1>5, <1>7, <2>1, <2>2, <3>1 DEF CleanKnown, Done
    <2> QED  BY <1>7, <2>4, <2>5, <2>6, <2>7, <2>8, SameDeletions DEF SvcInv
  <1> QED  BY <1>1, <1>6, <1>7

LEMMA RepairSteps ==
  ASSUME SvcInv, Services!DeleteRepair \/ Interrupted!DeleteRepair
  PROVE  SvcInv'
  <1>1. at = "delete_repair" /\ at \in Removing /\ at \in Leased
        /\ at \notin Writing \cup Prepared \cup {"idle", "start"}
    BY DEF Services!DeleteRepair, Services!At, Interrupted!DeleteRepair, Interrupted!At, Writing,
           Removing, Leased, Prepared, Staging
  <1>2. /\ work.name \in Names /\ Unfinished(work.name) /\ Stage \in Steps \ {"complete"}
        /\ work \in Operation /\ work.name # None
    BY <1>1, WorkingOn
  <1>3. Stage # "schedules" /\ compose \in Files
    BY <1>1 DEF SvcInv, SvcTypes, WorkKnown
  <1> DEFINE repaired == IF Stage \in {"stop", "remove", "volumes", "compose"}
                           THEN Services!PruneDanglingDependsOn(compose) ELSE compose
             staged == Without(repaired, work.name)
  <1>4. /\ repaired \in Files /\ \A m \in Names : repaired[m] = None <=> compose[m] = None
        /\ Stage \in {"stop", "remove", "volumes", "compose"} => Parses(repaired)
        /\ Parses(compose) => Parses(repaired)
        /\ repaired = IF Stage \in {"stop", "remove", "volumes", "compose"}
                        THEN Interrupted!PruneDanglingDependsOn(compose) ELSE compose
    BY <1>3, PruneParses
  <1> HIDE DEF repaired
  <1>5. /\ staged \in Files
        /\ Services!RemoveServiceFromCompose(repaired, work.name) = staged
        /\ Interrupted!RemoveServiceFromCompose(repaired, work.name) = staged
    BY <1>2, <1>4, WithoutIs
  <1> HIDE DEF staged
  <1>6. /\ compose' = repaired /\ work' = [work EXCEPT !.snap = repaired, !.staged = staged]
        /\ \/ at' = "delete_work"
           \/ at' = "delete_stage" /\ Stage \in {"stop", "remove", "compose"}
        /\ UNCHANGED <<names, routed, deletions, leases, running, volumes, served, timed, deaths,
                       errors>>
    <2>1. CASE Services!DeleteRepair
      BY <1>5, <2>1
         DEF Services!DeleteRepair, Services!Stage, Services!Go, Services!tables,
             Services!docker, Stage, repaired
    <2>2. CASE Interrupted!DeleteRepair
      BY <1>4, <1>5, <2>2
         DEF Interrupted!DeleteRepair, Interrupted!Stage, Interrupted!Go, Interrupted!tables,
             Interrupted!docker, Stage
    <2> QED  BY <2>1, <2>2
  <1> DEFINE o == [work EXCEPT !.snap = repaired, !.staged = staged]
  <1>7. /\ o \in Operation /\ o.name = work.name /\ o.reg = work.reg
        /\ o.snap = repaired /\ o.staged = staged
    <2>1. o = [name |-> work.name, reg |-> work.reg, sel |-> work.sel, snap |-> repaired,
               staged |-> staged]
      BY <1>2, PreparedWith
    <2>2. work.reg \in BOOLEAN /\ work.sel \in SUBSET Volumes
      BY <1>2 DEF Operation
    <2>3. o \in Operation
      BY <1>2, <1>4, <1>5, <2>1, <2>2, OperationIs
    <2> QED  BY <2>1, <2>3
  <1>8. work' = o
    BY <1>6
  <1>9. /\ compose' = repaired
        /\ at' \in {"delete_work", "delete_stage"}
        /\ at' = "delete_stage" => Stage \in {"stop", "remove", "compose"}
        /\ UNCHANGED <<names, routed, deletions, leases, running, volumes, served, timed, deaths,
                       errors>>
    BY <1>6
  <1> HIDE DEF o
  <1>10. Stage' = Stage /\ \A n \in Names : /\ Unfinished(n)' <=> Unfinished(n)
                                            /\ Interruptible(n)' <=> Interruptible(n)
                                            /\ Whole(n)' <=> Whole(n)
    BY <1>7, <1>8, <1>9 DEF Stage, Unfinished, Interruptible, Whole
  <1>11. /\ at' \in Leased /\ at' \in Removing /\ at' \in Prepared
         /\ at' \notin Writing \cup {"idle", "start", "delete_repair", "delete_reload"}
         /\ at' \notin {"delete_validate", "delete_checkpoint"}
         /\ at' \in Staging => Stage \in {"stop", "remove", "compose"}
    BY <1>9 DEF Writing, Removing, Leased, Prepared, Staging
  <1>12. SvcTypes'
    BY <1>4, <1>7, <1>8, <1>9, <1>11 DEF SvcInv, SvcTypes
  <1>13. WorkKnown'
    BY <1>2, <1>3, <1>4, <1>7, <1>8, <1>9, <1>10, <1>11 DEF SvcInv, WorkKnown, staged
  <1>14. ParsesKnown'
    BY <1>1, <1>4, <1>7, <1>8, <1>9, <1>10, <1>11 DEF SvcInv, ParsesKnown
  <1>15. LeaseKnown'
    BY <1>1, <1>7, <1>8, <1>9 DEF SvcInv, LeaseKnown
  <1>16. CleanKnown'
    <2>1. deaths = 0 /\ errors = 0 =>
            /\ Stage \in {"stop", "volumes"} /\ work.reg /\ work.name \in names
            /\ \A n \in names : compose[n] # None
            /\ served = routed
            /\ \A n \in Names : Unfinished(n) /\ n # work.name => n \in names /\ Interruptible(n)
            /\ Whole(work.name) => work.name \notin timed
            /\ Whole(work.name) /\ Stage = "volumes" => work.name \notin running
      BY <1>1 DEF SvcInv, CleanKnown, Done
    <2>2. names \subseteq Names
      BY DEF SvcInv, SvcTypes
    <2>3. deaths = 0 /\ errors = 0 => \A n \in names : repaired[n] # None
      BY <1>4, <2>1, <2>2
    <2>4. /\ work'.name = work.name /\ work'.reg = work.reg /\ work'.snap = repaired
          /\ compose' = repaired /\ names' = names /\ timed' = timed /\ running' = running
          /\ served' = served /\ routed' = routed /\ deaths' = deaths /\ errors' = errors
      BY <1>7, <1>8, <1>9
    <2>5. Stage \in {"stop", "volumes"} =>
            /\ ~Done("compose", {"routing", "metadata"})' /\ ~Done("routing", {"metadata"})'
            /\ ~Done("metadata", {})'
            /\ Done("remove", {"volumes", "compose", "routing", "metadata"})' => Stage = "volumes"
      BY <1>10, <1>11 DEF Done
    <2>6. Whole(work.name)' <=> Whole(work.name)
      BY <1>9, <2>4 DEF Whole
    <2> QED
      BY <1>10, <1>11, <2>1, <2>3, <2>4, <2>5, <2>6 DEF CleanKnown
  <1> QED  BY <1>12, <1>13, <1>14, <1>15, <1>16 DEF SvcInv

LEMMA StageSteps ==
  ASSUME SvcInv,
         \/ Services!DeleteStage \/ Interrupted!DeleteStage
         \/ Services!DeleteRestage \/ Interrupted!DeleteRestage
  PROVE  SvcInv'
  <1>1. /\ \/ at = "delete_stage" /\ at' = "delete_validate" /\ compose' = work.staged
           \/ at = "delete_validate" /\ at' = "delete_work" /\ compose' = work.snap
        /\ UNCHANGED <<names, routed, deletions, leases, running, volumes, served, timed, work, deaths,
                       errors>>
    BY DEF Services!DeleteStage, Services!DeleteRestage, Services!At, Services!Go,
           Services!tables, Services!docker, Interrupted!DeleteStage, Interrupted!DeleteRestage,
           Interrupted!At, Interrupted!Go, Interrupted!tables, Interrupted!docker
  <1>2. /\ at \in Staging /\ at \in Prepared /\ at \in Leased /\ at \in Removing
        /\ at \notin Writing \cup {"idle", "start", "delete_checkpoint", "delete_reload"}
        /\ at' \in Prepared /\ at' \in Leased /\ at' \in Removing
        /\ at' \notin Writing \cup {"idle", "start", "delete_checkpoint", "delete_reload"}
        /\ at' \notin {"delete_repair", "delete_stage"}
        /\ at' \in Staging <=> at' = "delete_validate"
    BY <1>1 DEF Writing, Removing, Leased, Prepared, Staging
  <1>3. /\ work.name \in Names /\ Unfinished(work.name) /\ Stage \in Steps \ {"complete"}
        /\ work \in Operation /\ work.name # None
    BY <1>2, WorkingOn
  <1>4. Stage' = Stage /\ \A n \in Names : /\ Unfinished(n)' <=> Unfinished(n)
                                           /\ Interruptible(n)' <=> Interruptible(n)
                                           /\ Whole(n)' <=> Whole(n)
    BY <1>1 DEF Stage, Unfinished, Interruptible, Whole
  <1>5. /\ Stage \in {"stop", "remove", "compose"} /\ work.snap \in Files
        /\ work.staged = Without(work.snap, work.name)
    BY <1>2 DEF SvcInv, WorkKnown
  <1>6. /\ work.staged \in Files /\ work.staged[work.name] = None
        /\ \A m \in Names \ {work.name} : work.staged[m] = None <=> work.snap[m] = None
        /\ Parses(work.snap) => Parses(work.staged)
    BY <1>3, <1>5, WithoutIs
  <1>7. compose' \in Files
    BY <1>1, <1>5, <1>6
  <1>8. SvcTypes'
    BY <1>1, <1>2, <1>7 DEF SvcInv, SvcTypes
  <1>9. WorkKnown'
    BY <1>1, <1>2, <1>3, <1>4, <1>5 DEF SvcInv, WorkKnown
  <1>10. ParsesKnown'
    BY <1>1, <1>2, <1>4, <1>5, <1>6 DEF SvcInv, ParsesKnown
  <1>11. LeaseKnown'
    BY <1>1, <1>2 DEF SvcInv, LeaseKnown
  <1>12. CleanKnown'
    <2>1. deaths = 0 /\ errors = 0 => \A m \in names : work.snap[m] # None
      BY <1>2 DEF SvcInv, CleanKnown
    <2>2. \A m \in names : m \in Names
      BY DEF SvcInv, SvcTypes
    <2> QED
      BY <1>1, <1>2, <1>3, <1>4, <1>5, <1>6, <2>1, <2>2 DEF SvcInv, CleanKnown, Done
  <1> QED  BY <1>8, <1>9, <1>10, <1>11, <1>12 DEF SvcInv

LEMMA LeasesReturned ==
  ASSUME SvcInv, leases' = [d \in Databases |-> IF d = work.name /\ leases[d] = "deletion"
                                                  THEN "free" ELSE leases[d]]
  PROVE  leases' \in [Databases -> {"free", "backup", "deletion", "dead"}]
BY DEF SvcInv, SvcTypes

LEMMA FailSteps ==
  ASSUME SvcInv, Services!DeleteFail \/ Interrupted!DeleteFail
  PROVE  SvcInv' /\ VolumesFrozen /\ NoneCompletes
  <1> DEFINE refused == /\ at = "delete_work" /\ Stage \in {"stop", "volumes"}
                        /\ ~Whole(work.name)
  <1>1. /\ at \in {"delete_work", "delete_validate", "delete_reload"}
        /\ \/ errors' = errors + 1
           \/ refused /\ errors' = errors
        /\ \/ compose' = compose
           \/ /\ compose' = work.snap /\ work.snap # None
              /\ at = "delete_validate" \/ Stage = "metadata"
        /\ deletions' = Services!Checkpointed(work.name, Stage, "failed")
        /\ at' = "idle" /\ work' = Services!NoOp
        /\ leases' = [d \in Databases |-> IF d = work.name /\ leases[d] = "deletion"
                                            THEN "free" ELSE leases[d]]
        /\ UNCHANGED <<names, routed, running, volumes, served, timed, deaths>>
    <2>1. Services!SelectionRefused => Stage \in {"stop", "volumes"} /\ ~Whole(work.name)
      BY DEF Services!SelectionRefused, Services!Vols, Services!Stage, Whole, Stage
    <2>2. Interrupted!SelectionRefused => Stage \in {"stop", "volumes"} /\ ~Whole(work.name)
      BY DEF Interrupted!SelectionRefused, Interrupted!Vols, Interrupted!Stage, Whole, Stage
    <2>3. CASE Services!DeleteFail
      BY <2>1, <2>3
         DEF Services!DeleteFail, Services!Fails, Services!At, Services!Stage,
             Services!DeleteReturn, Services!Return, Services!docker, Stage
    <2>4. CASE Interrupted!DeleteFail
      <3>1. Interrupted!Checkpointed(work.name, Stage, "failed")
              = Services!Checkpointed(work.name, Stage, "failed")
        BY DEF Interrupted!Checkpointed, Services!Checkpointed
      <3> QED
        BY <2>2, <2>4, <3>1, WorkTypes
           DEF Interrupted!DeleteFail, Interrupted!Fails, Interrupted!At, Interrupted!Stage,
               Interrupted!DeleteReturn, Interrupted!Return, Interrupted!docker, Stage
    <2> QED  BY <2>3, <2>4
  <1>2. /\ at \in Prepared /\ at \in Leased /\ at \in Removing
        /\ at \notin Writing
        /\ at = "delete_validate" => at \in Staging
    BY <1>1 DEF Writing, Removing, Leased, Prepared, Staging
  <1>3. /\ work.name \in Names /\ Unfinished(work.name) /\ Stage \in Steps \ {"complete"}
    BY <1>2, WorkingOn
  <1>4. /\ deletions' \in [Names -> Deletions \cup {None}]
        /\ \A m \in Names : Unfinished(m)' <=> Unfinished(m)
        /\ \A m \in Names \ {work.name} : deletions'[m] = deletions[m]
        /\ deletions'[work.name].stage = Stage
        /\ \A m \in Names : Whole(m)' <=> Whole(m)
        /\ VolumesFrozen /\ NoneCompletes
    BY <1>1, <1>2, <1>3, SvcCheckpoints
  <1>5. \A m \in Names : deletions'[m].stage = deletions[m].stage
    BY <1>3, <1>4 DEF Stage
  <1>6. compose' \in Files /\ (deaths = 0 => Parses(compose'))
    <2>1. compose \in Files /\ (deaths = 0 => Parses(compose))
      BY <1>2 DEF SvcInv, SvcTypes, ParsesKnown
    <2>2. at = "delete_validate" \/ Stage = "metadata" =>
            work.snap \in Files /\ (deaths = 0 => Parses(work.snap))
      BY <1>2 DEF SvcInv, WorkKnown, ParsesKnown
    <2> QED  BY <1>1, <2>1, <2>2
  <1>7. errors \in Nat /\ errors' \in Nat
    BY <1>1 DEF SvcInv, SvcTypes
  <1>8. SvcTypes'
    BY <1>1, <1>4, <1>6, <1>7, WorkTypes, LeasesReturned DEF SvcInv, SvcTypes
  <1>9. \A n \in Names : Unfinished(n)' => deletions'[n].stage # "complete"
    BY <1>4, <1>5 DEF SvcInv, WorkKnown
  <1>10. deaths' = 0 /\ errors' = 0 =>
           /\ \A n \in names' : compose'[n] # None
           /\ served' = routed'
           /\ \A n \in Names : Unfinished(n)' => n \in names' /\ Interruptible(n)'
    <2>1. errors' = 0 => refused /\ errors = 0 /\ compose' = compose
      BY <1>1, <1>7
    <2>2. deaths = 0 /\ errors = 0 /\ refused =>
            /\ \A n \in names : compose[n] # None
            /\ served = routed /\ work.name \in names
            /\ \A n \in Names : Unfinished(n) /\ n # work.name => n \in names /\ Interruptible(n)
      BY <1>2 DEF SvcInv, CleanKnown, Done
    <2>3. refused => Interruptible(work.name)
      BY DEF Interruptible, Stage
    <2>4. \A n \in Names : Interruptible(n)' <=> Interruptible(n)
      BY <1>4, <1>5 DEF Interruptible
    <2> QED  BY <1>1, <1>4, <2>1, <2>2, <2>3, <2>4
  <1>11. SvcInv'
    BY <1>1, <1>6, <1>8, <1>9, <1>10, Returned
  <1> QED  BY <1>4, <1>11

---------------------------------------------------------------------------
(* The stages of a deletion.                                               *)

Through == {"compose", "routing", "metadata"}

\* What a deletion without failures and crashes has done at its checkpoint.
CleanThere ==
  deaths = 0 /\ errors = 0 =>
    /\ \A n \in names' : compose'[n] # None \/ (n = work.name /\ Stage \in Through)
    /\ served' = routed'
    /\ \A n \in Names : Unfinished(n) /\ n # work.name => n \in names' /\ Interruptible(n)
    /\ work.reg
    /\ Stage # "metadata" => work.name \in names'
    /\ Stage = "metadata" => work.name \notin names'
    /\ Whole(work.name) =>
         /\ work.name \notin timed'
         /\ Stage \in {"remove", "volumes"} \cup Through => work.name \notin running'
    /\ Stage \in Through => compose'[work.name] = None
    /\ Stage \in {"routing", "metadata"} => work.name \notin routed' \cup served'

\* ... and before its next stage.
LEMMA WorkingClean ==
  ASSUME SvcInv, at \in {"delete_work", "delete_reload"}, deaths = 0, errors = 0
  PROVE  /\ \A n \in names : compose[n] # None \/ (n = work.name /\ Stage \in {"routing", "metadata"})
         /\ at = "delete_work" => served = routed
         /\ \A n \in Names : Unfinished(n) /\ n # work.name => n \in names /\ Interruptible(n)
         /\ work.reg /\ work.name \in names
         /\ Whole(work.name) =>
              /\ Stage \in {"stop", "remove", "volumes"} \cup Through => work.name \notin timed
              /\ Stage \in {"volumes"} \cup Through => work.name \notin running
         /\ Stage \in {"routing", "metadata"} => compose[work.name] = None
         /\ at = "delete_reload" => work.name \notin routed
         /\ Stage = "metadata" => work.name \notin routed \cup served
  <1>1. at \in Leased /\ at \in Removing /\ at \notin {"delete_validate", "delete_checkpoint"}
    BY DEF Leased, Removing, Prepared, Staging
  <1> QED  BY <1>1 DEF SvcInv, CleanKnown, Done, Through

LEMMA Reaches ==
  ASSUME SvcInv, at \in {"delete_work", "delete_reload"}, at' \in {"delete_checkpoint", "delete_reload"},
         at' = "delete_reload" => Stage = "routing",
         UNCHANGED <<work, deletions, deaths, errors>>,
         compose' = IF at = "delete_work" /\ Stage = "compose" THEN work.staged ELSE compose,
         SvcTypes', LeaseKnown', CleanKnown'
  PROVE  SvcInv'
  <1>1. /\ at \in Prepared /\ at \in Leased /\ at \in Removing /\ at \notin Writing
        /\ at \notin {"delete_validate", "delete_checkpoint"}
        /\ at' \in Prepared /\ at' \in Removing /\ at' \notin Writing \cup Staging
        /\ at' \notin Removing \ Leased
        /\ at' \notin {"idle", "start", "delete_repair", "delete_validate"}
    BY DEF Writing, Leased, Removing, Prepared, Staging
  <1>2. /\ work.name \in Names /\ Unfinished(work.name) /\ Stage \in Steps \ {"complete"}
        /\ work.name # None
    BY <1>1, WorkingOn
  <1>3. Stage' = Stage /\ \A n \in Names : Unfinished(n)' <=> Unfinished(n)
    BY DEF Stage, Unfinished
  <1>4. at = "delete_reload" => Stage = "routing"
    BY DEF SvcInv, WorkKnown
  <1>5. WorkKnown'
    BY <1>1, <1>2, <1>3 DEF SvcInv, WorkKnown
  <1>6. Stage = "compose" => /\ at = "delete_work" /\ compose' = work.staged
                             /\ Parses(work.snap) => Parses(work.staged)
    <2>1. Stage = "compose" => work.snap \in Files /\ work.staged = Without(work.snap, work.name)
      BY <1>1 DEF SvcInv, WorkKnown
    <2> QED  BY <1>2, <1>4, <2>1, WithoutIs
  <1>7. Stage # "compose" => compose' = compose
    OBVIOUS
  <1>8. ParsesKnown'
    BY <1>1, <1>3, <1>4, <1>6, <1>7 DEF SvcInv, ParsesKnown
  <1> QED  BY <1>5, <1>8 DEF SvcInv

LEMMA ReachesCheckpoint ==
  ASSUME SvcInv, at \in {"delete_work", "delete_reload"}, at' = "delete_checkpoint",
         UNCHANGED <<work, deletions, deaths, errors>>,
         compose' = IF at = "delete_work" /\ Stage = "compose" THEN work.staged ELSE compose,
         SvcTypes', LeaseKnown', CleanThere
  PROVE  SvcInv'
  <1>1. at' \in Leased /\ at' \in Removing /\ at' \notin Writing \cup Staging
        /\ at' \notin Removing \ Leased
    BY DEF Writing, Leased, Removing, Prepared, Staging
  <1>2. Stage' = Stage
    BY DEF Stage
  <1>7. /\ Whole(work.name)' <=> Whole(work.name)
        /\ \A n \in Names : /\ Unfinished(n)' <=> Unfinished(n)
                            /\ Interruptible(n)' <=> Interruptible(n)
    BY DEF Unfinished, Interruptible, Whole
  <1>3. /\ Done("compose", {"routing", "metadata"})' <=> Stage \in Through
        /\ Done("routing", {"metadata"})' => Stage \in {"routing", "metadata"}
    BY <1>1, <1>2 DEF Done, Through
  <1>5. Done("metadata", {})' <=> Stage = "metadata"
    BY <1>1, <1>2 DEF Done
  <1>6. Done("remove", {"volumes", "compose", "routing", "metadata"})' =>
             Stage \in {"remove", "volumes"} \cup Through
    BY <1>1, <1>2 DEF Done, Through
  <1>4. CleanKnown'
    BY <1>1, <1>2, <1>3, <1>5, <1>6, <1>7 DEF CleanKnown, CleanThere
  <1> QED  BY <1>4, Reaches

\* The lease of a deletion that goes on.
LEMMA LeaseStays ==
  ASSUME SvcInv, at \in Leased, UNCHANGED <<work, names, leases>>
  PROVE  LeaseKnown'
BY DEF SvcInv, LeaseKnown

\* A database whose row is gone cannot be backed up.
LEMMA RowsGone ==
  ASSUME SvcInv, at \in Leased, UNCHANGED work, names' = names \ {work.name},
         leases' = [d \in Databases |-> IF d = work.name THEN "free" ELSE leases[d]]
  PROVE  LeaseKnown' /\ leases' \in [Databases -> {"free", "backup", "deletion", "dead"}]
BY DEF SvcInv, SvcTypes, LeaseKnown

\* Every stage but the removal of volumes and the routing.
LEMMA StageDone ==
  ASSUME SvcInv,
         \/ Services!DeleteSchedules \/ Interrupted!DeleteSchedules
         \/ Services!DeleteStop \/ Interrupted!DeleteStop
         \/ Services!DeleteRemove \/ Interrupted!DeleteRemove
         \/ Services!DeleteCompose \/ Interrupted!DeleteCompose
         \/ Services!DeleteMetadata \/ Interrupted!DeleteMetadata
  PROVE  SvcInv' /\ deletions' = deletions /\ volumes' = volumes
  <1>1. /\ at = "delete_work" /\ at' = "delete_checkpoint"
        /\ UNCHANGED <<work, deletions, routed, served, volumes, deaths, errors>>
        /\ timed' = IF Stage = "schedules" /\ work.reg THEN timed \ {work.name} ELSE timed
        /\ running' = IF Stage = "remove" /\ compose[work.name] # None
                        THEN running \ {work.name} ELSE running
        /\ compose' = IF Stage = "compose" THEN work.staged ELSE compose
        /\ names' = IF Stage = "metadata" THEN names \ {work.name} ELSE names
        /\ leases' = IF Stage = "metadata"
                       THEN [d \in Databases |-> IF d = work.name THEN "free" ELSE leases[d]]
                       ELSE leases
        /\ Stage \in {"schedules", "stop", "remove", "compose", "metadata"}
    BY DEF Services!DeleteSchedules, Services!DeleteStop, Services!DeleteRemove,
           Services!DeleteCompose, Services!DeleteMetadata, Services!DoStage,
           Services!Removed, Services!At, Services!Go, Services!Stage, Services!tables,
           Services!docker, Interrupted!DeleteSchedules, Interrupted!DeleteStop,
           Interrupted!DeleteRemove, Interrupted!DeleteCompose, Interrupted!DeleteMetadata,
           Interrupted!DoStage, Interrupted!Removed, Interrupted!At, Interrupted!Go,
           Interrupted!Stage, Interrupted!tables, Interrupted!docker, Stage
  <1>2. /\ at \in Prepared /\ at \in Leased /\ at \in Removing
        /\ at' \in {"idle", "start"} \cup Writing \cup Removing
        /\ at \in {"delete_work", "delete_reload"}
    BY <1>1 DEF Leased, Removing, Prepared
  <1>3. work.name \in Names
    BY <1>2, WorkingOn
  <1>4. LeaseKnown' /\ leases' \in [Databases -> {"free", "backup", "deletion", "dead"}]
    <2>1. CASE Stage = "metadata"
      BY <1>1, <1>2, <2>1, RowsGone
    <2>2. CASE Stage # "metadata"
      BY <1>1, <1>2, <2>2, LeaseStays DEF SvcInv, SvcTypes
    <2> QED  BY <2>1, <2>2
  <1>5. Stage = "compose" =>
          /\ work.snap \in Files /\ compose = work.snap
          /\ work.staged = Without(work.snap, work.name)
    BY <1>1, <1>2 DEF SvcInv, WorkKnown, ParsesKnown
  <1>6. Stage = "compose" =>
          /\ compose' \in Files /\ compose'[work.name] = None
          /\ \A m \in Names \ {work.name} : compose'[m] = None <=> compose[m] = None
    BY <1>1, <1>3, <1>5, WithoutIs
  <1>7. SvcTypes'
    <2>1. compose' \in Files
      BY <1>1, <1>6 DEF SvcInv, SvcTypes
    <2>2. /\ names' \in SUBSET Names /\ running' \in SUBSET Names /\ timed' \in SUBSET Databases
      BY <1>1 DEF SvcInv, SvcTypes
    <2> QED  BY <1>1, <1>2, <1>4, <2>1, <2>2 DEF SvcInv, SvcTypes
  <1>8. CleanThere
    <2> SUFFICES ASSUME deaths = 0, errors = 0
                 PROVE  CleanThere
      BY DEF CleanThere
    <2>1. /\ \A n \in names : compose[n] # None \/ (n = work.name /\ Stage = "metadata")
          /\ served = routed
          /\ \A n \in Names : Unfinished(n) /\ n # work.name => n \in names /\ Interruptible(n)
          /\ work.reg /\ work.name \in names
          /\ Whole(work.name) =>
               /\ Stage \in {"stop", "remove", "compose", "metadata"} => work.name \notin timed
               /\ Stage \in {"compose", "metadata"} => work.name \notin running
          /\ Stage = "metadata" => compose[work.name] = None /\ work.name \notin routed \cup served
      BY <1>1, <1>2, WorkingClean DEF Through
    <2>2. names \subseteq Names
      BY DEF SvcInv, SvcTypes
    <2>3. \A n \in names' : compose'[n] # None \/ (n = work.name /\ Stage \in Through)
      BY <1>1, <1>6, <2>1, <2>2 DEF Through
    <2>4. \A n \in Names : Unfinished(n) /\ n # work.name => n \in names' /\ Interruptible(n)
      BY <1>1, <2>1
    <2>5. Whole(work.name) =>
            /\ work.name \notin timed'
            /\ Stage \in {"remove", "volumes"} \cup Through => work.name \notin running'
      BY <1>1, <2>1 DEF Through
    <2>6. /\ Stage # "metadata" => work.name \in names'
          /\ Stage = "metadata" => work.name \notin names'
          /\ Stage \in Through => compose'[work.name] = None
          /\ Stage \in {"routing", "metadata"} => work.name \notin routed' \cup served'
          /\ served' = routed' /\ work.reg
      BY <1>1, <1>6, <2>1 DEF Through
    <2> QED  BY <2>3, <2>4, <2>5, <2>6 DEF CleanThere
  <1>9. compose' = IF at = "delete_work" /\ Stage = "compose" THEN work.staged ELSE compose
    BY <1>1
  <1>10. SvcInv'
    BY <1>1, <1>2, <1>4, <1>7, <1>8, <1>9, ReachesCheckpoint
  <1> QED  BY <1>1, <1>10

\* No volume goes that was not selected or that another service mounts.
VolumesOwned ==
  \A v \in volumes \ volumes' :
    /\ v \in deletions[work.name].vols
    /\ \A m \in Defined(compose) \ {work.name} : v \notin compose[m].vols

LEMMA VolumesKept == volumes \subseteq volumes' => VolumesOwned
BY DEF VolumesOwned

LEMMA VolumesDone ==
  ASSUME SvcInv, Services!DeleteVolumes \/ Interrupted!DeleteVolumes
  PROVE  SvcInv' /\ deletions' = deletions /\ VolumesOwned
  <1> DEFINE vols == IF deletions[work.name].vols = None THEN {} ELSE deletions[work.name].vols
             eligible == IF compose[work.name] = None THEN {}
                         ELSE {v \in compose[work.name].vols :
                                 \A m \in Defined(compose) \ {work.name} : v \notin compose[m].vols}
  <1>1. /\ at = "delete_work" /\ at' = "delete_checkpoint" /\ Stage = "volumes"
        /\ volumes' = volumes \ vols /\ vols \subseteq eligible
        /\ UNCHANGED <<names, leases, compose, work, deletions, routed, served, timed, running, deaths,
                       errors>>
    <2>1. CASE Services!DeleteVolumes
      BY <2>1
         DEF Services!DeleteVolumes, Services!DoStage, Services!SelectionRefused,
             Services!Eligible, Services!Defined, Services!Vols, Services!At, Services!Go,
             Services!Stage, Services!tables, Stage, Defined
    <2>2. CASE Interrupted!DeleteVolumes
      BY <2>2
         DEF Interrupted!DeleteVolumes, Interrupted!DoStage, Interrupted!SelectionRefused,
             Interrupted!Eligible, Interrupted!Defined, Interrupted!Vols, Interrupted!At,
             Interrupted!Go, Interrupted!Stage, Interrupted!tables, Stage, Defined
    <2> QED  BY <2>1, <2>2
  <1>2. /\ at \in Prepared /\ at \in Leased /\ at \in Removing
        /\ at' \in {"idle", "start"} \cup Writing \cup Removing
        /\ at \in {"delete_work", "delete_reload"}
    BY <1>1 DEF Leased, Removing, Prepared
  <1>3. LeaseKnown'
    BY <1>1, <1>2, LeaseStays
  <1>4. SvcTypes'
    BY <1>1, <1>2 DEF SvcInv, SvcTypes
  <1>5. CleanThere
    <2> SUFFICES ASSUME deaths = 0, errors = 0
                 PROVE  CleanThere
      BY DEF CleanThere
    <2> QED  BY <1>1, <1>2, WorkingClean DEF Through, CleanThere
  <1>6. compose' = IF at = "delete_work" /\ Stage = "compose" THEN work.staged ELSE compose
    BY <1>1
  <1>7. SvcInv'
    BY <1>1, <1>2, <1>3, <1>4, <1>5, <1>6, ReachesCheckpoint
  <1> QED  BY <1>1, <1>7 DEF VolumesOwned

LEMMA RoutingDone ==
  ASSUME SvcInv,
         \/ Services!DeleteRoutings \/ Interrupted!DeleteRoutings
         \/ Services!DeleteReload \/ Interrupted!DeleteReload
  PROVE  SvcInv' /\ deletions' = deletions /\ volumes' = volumes
  <1>1. /\ UNCHANGED <<names, leases, compose, work, deletions, timed, running, volumes, deaths,
                       errors>>
        /\ \/ /\ at = "delete_work" /\ Stage = "routing"
              /\ routed' = routed \ {work.name} /\ served' = served
              /\ at' = IF work.name \in routed THEN "delete_reload" ELSE "delete_checkpoint"
           \/ /\ at = "delete_reload" /\ at' = "delete_checkpoint"
              /\ served' = routed /\ routed' = routed
    BY DEF Services!DeleteRoutings, Services!DeleteReload, Services!At, Services!Go,
           Services!Stage, Services!tables, Services!docker, Interrupted!DeleteRoutings,
           Interrupted!DeleteReload, Interrupted!At, Interrupted!Go, Interrupted!Stage,
           Interrupted!tables, Interrupted!docker, Stage
  <1>2. /\ at \in Prepared /\ at \in Leased /\ at \in Removing
        /\ at' \in {"idle", "start"} \cup Writing \cup Removing
        /\ at \in {"delete_work", "delete_reload"} /\ at' \in {"delete_checkpoint", "delete_reload"}
    BY <1>1 DEF Leased, Removing, Prepared
  <1>3. Stage = "routing"
    BY <1>1 DEF SvcInv, WorkKnown
  <1>4. LeaseKnown'
    BY <1>1, <1>2, LeaseStays
  <1>5. SvcTypes'
    BY <1>1, <1>2 DEF SvcInv, SvcTypes
  <1>6. compose' = IF at = "delete_work" /\ Stage = "compose" THEN work.staged ELSE compose
    BY <1>1, <1>3
  <1>7. deaths = 0 /\ errors = 0 =>
          /\ \A n \in names : compose[n] # None \/ n = work.name
          /\ at = "delete_work" => served = routed
          /\ \A n \in Names : Unfinished(n) /\ n # work.name => n \in names /\ Interruptible(n)
          /\ work.reg /\ work.name \in names
          /\ Whole(work.name) => work.name \notin timed /\ work.name \notin running
          /\ compose[work.name] = None
          /\ at = "delete_reload" => work.name \notin routed
    BY <1>2, <1>3, WorkingClean DEF Through
  <1>8. CASE at' = "delete_checkpoint"
    <2>1. CleanThere
      BY <1>1, <1>3, <1>7, <1>8 DEF Through, CleanThere
    <2>2. SvcInv'
      BY <1>1, <1>2, <1>4, <1>5, <1>6, <1>8, <2>1, ReachesCheckpoint
    <2> QED  BY <1>1, <2>2
  <1>9. CASE at' = "delete_reload"
    <2>1. /\ at' \in Leased /\ at' \in Removing /\ at' \notin Writing \cup Staging
          /\ at' \notin Removing \ Leased /\ at' \notin {"delete_validate", "delete_repair"}
      BY <1>9 DEF Writing, Leased, Removing, Prepared, Staging
    <2>2. Stage' = Stage
      BY <1>1 DEF Stage
    <2>3. /\ Whole(work.name)' <=> Whole(work.name)
          /\ \A n \in Names : /\ Unfinished(n)' <=> Unfinished(n)
                              /\ Interruptible(n)' <=> Interruptible(n)
      BY <1>1 DEF Unfinished, Interruptible, Whole
    <2>4. /\ Done("compose", {"routing", "metadata"})'
          /\ ~Done("routing", {"metadata"})' /\ ~Done("metadata", {})'
      BY <1>3, <1>9, <2>1, <2>2 DEF Done
    <2>5. /\ routed' = routed \ {work.name} /\ names' = names /\ work' = work
          /\ compose' = compose /\ timed' = timed /\ running' = running /\ deaths' = deaths
          /\ errors' = errors
      BY <1>1, <1>9
    <2>6. CleanKnown'
      BY <1>7, <1>9, <2>1, <2>3, <2>4, <2>5 DEF CleanKnown
    <2>7. SvcInv'
      BY <1>1, <1>2, <1>3, <1>4, <1>5, <1>6, <2>6, Reaches
    <2> QED  BY <1>1, <2>7
  <1> QED  BY <1>2, <1>8, <1>9

\* A deletion that is marked complete without an interruption.
CompletedClean ==
  \A n \in Names :
    /\ deletions'[n] # None /\ deletions'[n].state = "complete" /\ deletions[n] # deletions'[n]
    /\ Whole(n) /\ deaths = 0 /\ errors = 0
    => /\ compose'[n] = None
       /\ n \notin names' \cup running' \cup routed' \cup served' \cup timed'

LEMMA NoneCompleted == NoneCompletes => CompletedClean
BY DEF NoneCompletes, CompletedClean

\* The stage after this one.
LEMMA SvcNextStage ==
  ASSUME Stage \in Steps \ {"complete"}, NEW next,
         next = Services!NextStage \/ next = Interrupted!NextStage
  PROVE  /\ next \in Steps /\ (next = "complete" <=> Stage = "metadata")
         /\ next # "schedules"
         /\ next = "stop" <=> Stage = "schedules"
         /\ next = "remove" => Stage = "stop"
         /\ next = "volumes" => Stage = "remove"
         /\ next = "compose" => Stage \in {"remove", "volumes"}
         /\ next = "routing" <=> Stage = "compose"
         /\ next = "metadata" <=> Stage = "routing"
  <1>1. Services!Stages = <<"schedules", "stop", "remove", "volumes", "compose", "routing",
                            "metadata", "complete">>
        /\ Interrupted!Stages = Services!Stages
    BY DEF Services!Stages, Interrupted!Stages
  <1>2. \/ Stage = "remove" /\ next = "compose"
        \/ next = Services!Stages[Services!Rank(Stage) + 1]
    BY <1>1, SvcRanks
       DEF Services!NextStage, Services!Stage, Interrupted!NextStage, Interrupted!Stage, Stage
  <1>3. /\ Services!Stages[1 + 1] = "stop" /\ Services!Stages[2 + 1] = "remove"
        /\ Services!Stages[3 + 1] = "volumes" /\ Services!Stages[4 + 1] = "compose"
        /\ Services!Stages[5 + 1] = "routing" /\ Services!Stages[6 + 1] = "metadata"
        /\ Services!Stages[7 + 1] = "complete"
    BY <1>1
  <1>4. \/ Stage = "schedules" /\ next = "stop"
        \/ Stage = "stop" /\ next = "remove"
        \/ Stage = "remove" /\ next \in {"volumes", "compose"}
        \/ Stage = "volumes" /\ next = "compose"
        \/ Stage = "compose" /\ next = "routing"
        \/ Stage = "routing" /\ next = "metadata"
        \/ Stage = "metadata" /\ next = "complete"
    <2> USE <1>2, <1>3, SvcRanks
    <2>1. CASE Stage = "schedules"
      BY <2>1
    <2>2. CASE Stage = "stop"
      BY <2>2
    <2>3. CASE Stage = "remove"
      BY <2>3
    <2>4. CASE Stage = "volumes"
      BY <2>4
    <2>5. CASE Stage = "compose"
      BY <2>5
    <2>6. CASE Stage = "routing"
      BY <2>6
    <2>7. CASE Stage = "metadata"
      BY <2>7
    <2> QED  BY <2>1, <2>2, <2>3, <2>4, <2>5, <2>6, <2>7 DEF Steps
  <1> QED  BY <1>4 DEF Steps

\* The last checkpoint completes the deletion, and nothing is left.
LEMMA Completion ==
  ASSUME SvcInv, at = "delete_checkpoint", Stage = "metadata",
         deletions' = Services!Checkpointed(work.name, "complete", "complete"),
         at' = "idle", work' = Services!NoOp,
         leases' = [d \in Databases |-> IF d = work.name /\ leases[d] = "deletion"
                                          THEN "free" ELSE leases[d]],
         UNCHANGED <<names, routed, compose, running, volumes, served, timed, deaths, errors>>
  PROVE  SvcInv' /\ VolumesFrozen /\ CompletedClean
  <1>1. at \in Prepared /\ at \in Leased /\ at \in Removing /\ at \notin Writing
    BY DEF Writing, Leased, Removing, Prepared, Staging
  <1>2. PICK n \in Names :
          /\ n = work.name /\ Unfinished(n) /\ deletions[n] \in Deletions
          /\ deletions \in [Names -> Deletions \cup {None}]
    BY <1>1, WorkingOn
  <1>3. "complete" \in Steps /\ "complete" \in {"running", "failed", "complete"}
    BY DEF Steps
  <1>4. deletions' = Services!Checkpointed(n, "complete", "complete")
    BY <1>2
  <1>5. deaths = 0 /\ errors = 0 =>
          /\ \A m \in names : compose[m] # None \/ m = n
          /\ n \notin names /\ compose[n] = None /\ served = routed
          /\ n \notin routed \cup served
          /\ Whole(n) => n \notin timed /\ n \notin running
          /\ \A m \in Names : Unfinished(m) /\ m # n => m \in names /\ Interruptible(m)
    BY <1>1, <1>2 DEF SvcInv, CleanKnown, Done
  <1>6. /\ deletions' \in [Names -> Deletions \cup {None}] /\ deletions'[n] # None
        /\ deletions'[n].vols = deletions[n].vols /\ deletions'[n].state = "complete"
        /\ \A m \in Names \ {n} : deletions'[m] = deletions[m]
    BY <1>2, <1>3, <1>4, SvcCheckpointedIs
  <1>7. ~Unfinished(n)' /\ \A m \in Names \ {n} : Unfinished(m)' <=> Unfinished(m)
    BY <1>6 DEF Unfinished
  <1>8. \A m \in Names \ {n} : Interruptible(m)' <=> Interruptible(m)
    BY <1>6 DEF Interruptible, Whole
  <1>9. SvcTypes'
    BY <1>6, WorkTypes, LeasesReturned DEF SvcInv, SvcTypes
  <1>10. \A m \in Names : Unfinished(m)' => deletions'[m].stage # "complete"
    BY <1>6, <1>7 DEF SvcInv, WorkKnown
  <1>11. deaths' = 0 => Parses(compose')
    BY <1>1 DEF SvcInv, ParsesKnown
  <1>12. deaths' = 0 /\ errors' = 0 =>
           /\ \A m \in names' : compose'[m] # None
           /\ served' = routed'
           /\ \A m \in Names : Unfinished(m)' => m \in names' /\ Interruptible(m)'
    BY <1>5, <1>7, <1>8
  <1>13. SvcInv'
    BY <1>9, <1>10, <1>11, <1>12, Returned
  <1>14. VolumesFrozen
    BY <1>6 DEF VolumesFrozen
  <1>15. CompletedClean
    BY <1>5, <1>6 DEF CompletedClean
  <1> QED  BY <1>13, <1>14, <1>15

\* Any other checkpoint begins the next stage.
LEMMA NextBegins ==
  ASSUME SvcInv, at = "delete_checkpoint", Stage # "metadata", NEW next,
         next = Services!NextStage \/ next = Interrupted!NextStage,
         deletions' = Services!Checkpointed(work.name, next, "running"),
         at' = IF Stage = "schedules" THEN "delete_repair" ELSE "delete_work",
         UNCHANGED <<work, names, leases, routed, compose, running, volumes, served, timed, deaths,
                     errors>>
  PROVE  SvcInv' /\ VolumesFrozen /\ NoneCompletes
  <1>1. /\ at \in Prepared /\ at \in Leased /\ at \in Removing
        /\ at \notin Writing \cup Staging
    BY DEF Writing, Leased, Removing, Prepared, Staging
  <1>2. /\ work.name \in Names /\ Unfinished(work.name) /\ Stage \in Steps \ {"complete"}
        /\ work.name # None
    BY <1>1, WorkingOn
  <1>3. /\ next \in Steps \ {"complete"} /\ next # "schedules"
        /\ next = "stop" <=> Stage = "schedules"
        /\ next = "remove" => Stage = "stop"
        /\ next = "volumes" => Stage = "remove"
        /\ next = "compose" => Stage \in {"remove", "volumes"}
        /\ next = "routing" <=> Stage = "compose"
        /\ next = "metadata" <=> Stage = "routing"
    BY <1>2, SvcNextStage
  <1>4. /\ deletions' \in [Names -> Deletions \cup {None}]
        /\ \A m \in Names : Unfinished(m)' <=> Unfinished(m)
        /\ \A m \in Names \ {work.name} : deletions'[m] = deletions[m]
        /\ deletions'[work.name].stage = next
        /\ \A m \in Names : Whole(m)' <=> Whole(m)
        /\ VolumesFrozen /\ NoneCompletes
    BY <1>1, <1>3, SvcCheckpoints
  <1>5. /\ at' \in Leased /\ at' \in Removing /\ at' \notin Writing \cup Staging
        /\ at' \notin Removing \ Leased
        /\ at' \notin {"idle", "start", "delete_validate", "delete_checkpoint", "delete_reload"}
        /\ at' \in Prepared <=> Stage # "schedules"
        /\ at' = "delete_repair" <=> Stage = "schedules"
    BY DEF Writing, Leased, Removing, Prepared, Staging
  <1>6. Stage' = next
    BY <1>4 DEF Stage
  <1>7. Whole(work.name)' <=> Whole(work.name)
    BY <1>2, <1>4 DEF Whole
  <1>8. \A m \in Names \ {work.name} : Interruptible(m)' <=> Interruptible(m)
    BY <1>4 DEF Interruptible, Whole
  <1>9. SvcTypes'
    BY <1>4, <1>5 DEF SvcInv, SvcTypes
  <1>10. WorkKnown'
    <2>1. \A m \in Names : Unfinished(m)' => deletions'[m].stage # "complete"
      BY <1>3, <1>4 DEF SvcInv, WorkKnown
    <2>2. Unfinished(work.name)'
      BY <1>2, <1>4 DEF Unfinished
    <2>3. Stage # "schedules" =>
            work.snap \in Files /\ work.staged = Without(work.snap, work.name)
      BY <1>1 DEF SvcInv, WorkKnown
    <2> QED  BY <1>2, <1>3, <1>5, <1>6, <2>1, <2>2, <2>3 DEF WorkKnown
  <1>11. ParsesKnown'
    <2>1. next \in {"stop", "remove", "volumes", "compose"} /\ at' \in Prepared =>
            Stage \in {"stop", "remove", "volumes"}
      BY <1>3, <1>5
    <2> QED  BY <1>1, <1>5, <1>6, <2>1 DEF SvcInv, ParsesKnown
  <1>12. LeaseKnown'
    BY <1>1, LeaseStays
  <1>13. CleanKnown'
    <2>1. /\ Done("compose", {"routing", "metadata"})' <=> Done("compose", {"routing", "metadata"})
          /\ ~Done("metadata", {})' /\ ~Done("metadata", {})
      BY <1>1, <1>3, <1>5, <1>6 DEF Done
    <2>2. Done("routing", {"metadata"})' => Done("routing", {"metadata"})
      BY <1>1, <1>3, <1>5, <1>6 DEF Done
    <2>3. Done("remove", {"volumes", "compose", "routing", "metadata"})' =>
            Done("remove", {"volumes", "compose", "routing", "metadata"})
      BY <1>1, <1>3, <1>5, <1>6 DEF Done
    <2>4. Done("schedules", {"stop", "remove", "volumes", "compose", "routing", "metadata"})
      BY <1>1, <1>2 DEF Done, Steps
    <2>5. deaths = 0 /\ errors = 0 =>
            /\ \A n \in names :
                 compose[n] # None \/ (n = work.name /\ Done("compose", {"routing", "metadata"}))
            /\ served = routed
            /\ \A n \in Names : Unfinished(n) /\ n # work.name => n \in names /\ Interruptible(n)
            /\ work.reg /\ work.name \in names
            /\ Whole(work.name) => work.name \notin timed
            /\ Whole(work.name) /\ Done("remove", {"volumes", "compose", "routing", "metadata"}) =>
                 work.name \notin running
            /\ Done("compose", {"routing", "metadata"}) => compose[work.name] = None
            /\ Done("routing", {"metadata"}) => work.name \notin routed \cup served
      BY <1>1, <2>1, <2>4 DEF SvcInv, CleanKnown
    <2> QED
      BY <1>3, <1>4, <1>5, <1>6, <1>7, <1>8, <2>1, <2>2, <2>3, <2>5 DEF CleanKnown
  <1> QED  BY <1>4, <1>9, <1>10, <1>11, <1>12, <1>13 DEF SvcInv

LEMMA CheckpointSteps ==
  ASSUME SvcInv, Services!DeleteCheckpoint \/ Interrupted!DeleteCheckpoint
  PROVE  SvcInv' /\ VolumesFrozen /\ CompletedClean /\ volumes' = volumes
  <1> DEFINE returns == [d \in Databases |-> IF d = work.name /\ leases[d] = "deletion"
                                               THEN "free" ELSE leases[d]]
  <1>1. /\ at = "delete_checkpoint"
        /\ UNCHANGED <<names, routed, compose, running, volumes, served, timed, deaths, errors>>
    BY DEF Services!DeleteCheckpoint, Services!At, Services!docker,
           Interrupted!DeleteCheckpoint, Interrupted!At, Interrupted!docker
  <1>2. Stage \in Steps \ {"complete"}
    BY <1>1, WorkingOn DEF Removing, Leased, Prepared
  <1>3. \A s, t : Interrupted!Checkpointed(work.name, s, t) = Services!Checkpointed(work.name, s, t)
    BY DEF Interrupted!Checkpointed, Services!Checkpointed
  <1>4. PICK next :
          /\ next = Services!NextStage \/ next = Interrupted!NextStage
          /\ \/ /\ next = "complete"
                /\ deletions' = Services!Checkpointed(work.name, next, "complete")
                /\ at' = "idle" /\ work' = Services!NoOp /\ leases' = returns
             \/ /\ next # "complete"
                /\ deletions' = Services!Checkpointed(work.name, next, "running")
                /\ at' = IF Stage = "schedules" THEN "delete_repair" ELSE "delete_work"
                /\ work' = work /\ leases' = leases
    <2>1. CASE Services!DeleteCheckpoint
      <3> WITNESS Services!NextStage
      <3> QED
        BY <2>1
           DEF Services!DeleteCheckpoint, Services!DeleteReturn, Services!Return, Services!Go,
               Services!Stage, Stage
    <2>2. CASE Interrupted!DeleteCheckpoint
      <3> WITNESS Interrupted!NextStage
      <3> QED
        BY <1>3, <2>2, WorkTypes
           DEF Interrupted!DeleteCheckpoint, Interrupted!DeleteReturn, Interrupted!Return,
               Interrupted!Go, Interrupted!Stage, Stage
    <2> QED  BY <2>1, <2>2
  <1>5. CASE next = "complete"
    <2>1. Stage = "metadata"
      BY <1>2, <1>4, <1>5, SvcNextStage
    <2> QED  BY <1>1, <1>4, <1>5, <2>1, Completion
  <1>6. CASE next # "complete"
    <2>1. Stage # "metadata"
      BY <1>2, <1>4, <1>6, SvcNextStage
    <2>2. SvcInv' /\ VolumesFrozen /\ NoneCompletes
      BY <1>1, <1>4, <1>6, <2>1, NextBegins
    <2> QED  BY <1>1, <2>2, NoneCompleted
  <1> QED  BY <1>5, <1>6

\* A lost checkpoint or the death of the manager.
LEMMA CrashSteps ==
  ASSUME SvcInv,
         \/ Services!CheckpointLost \/ Interrupted!CheckpointLost
         \/ Services!Crash \/ Interrupted!Crash
  PROVE  SvcInv' /\ deletions' = deletions /\ volumes' = volumes
  <1>1. /\ at' = "idle" /\ work' = Services!NoOp /\ deaths' = deaths + 1
        /\ UNCHANGED <<names, routed, deletions, compose, running, volumes, served, timed, errors>>
        /\ \/ leases' = [d \in Databases |-> IF d = work.name /\ leases[d] = "deletion"
                                               THEN "free" ELSE leases[d]]
           \/ leases' = [d \in Databases |-> IF leases[d] = "deletion" THEN "dead" ELSE leases[d]]
    BY WorkTypes
       DEF Services!CheckpointLost, Services!Crash, Services!DeleteReturn, Services!Return,
           Services!docker, Interrupted!CheckpointLost, Interrupted!Crash,
           Interrupted!DeleteReturn, Interrupted!Return, Interrupted!docker
  <1>2. leases' \in [Databases -> {"free", "backup", "deletion", "dead"}]
    BY <1>1 DEF SvcInv, SvcTypes
  <1>3. deaths' \in Nat /\ deaths' # 0
    BY <1>1 DEF SvcInv, SvcTypes
  <1>4. SvcTypes'
    BY <1>1, <1>2, <1>3, WorkTypes DEF SvcInv, SvcTypes
  <1>5. \A n \in Names : Unfinished(n)' => deletions'[n].stage # "complete"
    BY <1>1 DEF SvcInv, WorkKnown, Unfinished
  <1>6. SvcInv'
    BY <1>1, <1>3, <1>4, <1>5, Returned
  <1> QED  BY <1>1, <1>6

---------------------------------------------------------------------------
(* Every step of the services.                                             *)

LEMMA SvcInit == Services!Init => SvcInv
  <1> SUFFICES ASSUME Services!Init
               PROVE  SvcInv
    OBVIOUS
  <1>1. /\ names = {} /\ running = {} /\ volumes = {} /\ routed = {} /\ served = {} /\ timed = {}
        /\ compose = [n \in Names |-> None] /\ deletions = [n \in Names |-> None]
        /\ leases = [d \in Databases |-> "free"]
        /\ at = "idle" /\ work = Services!NoOp /\ deaths = 0 /\ errors = 0
    BY DEF Services!Init
  <1>2. at \notin Removing \cup Writing \cup {"start"}
    BY <1>1 DEF Writing, Removing, Leased, Prepared, Staging
  <1>3. /\ compose \in Files /\ deletions \in [Names -> Deletions \cup {None}]
        /\ leases \in [Databases -> {"free", "backup", "deletion", "dead"}]
        /\ \A n \in Names : compose[n] = None /\ deletions[n] = None
    BY <1>1 DEF Files
  <1>4. SvcTypes
    BY <1>1, <1>3, WorkTypes DEF SvcTypes
  <1>5. Parses(compose) /\ \A n \in Names : ~Unfinished(n)
    BY <1>3 DEF Parses, Defined, Unfinished
  <1>6. WorkKnown
    BY <1>1, <1>2, <1>5, WorkTypes DEF WorkKnown, Removing, Leased, Prepared, Staging
  <1>7. ParsesKnown
    BY <1>1, <1>2, <1>5 DEF ParsesKnown, Removing, Leased, Prepared
  <1>8. LeaseKnown
    BY <1>2 DEF LeaseKnown, Removing
  <1>9. CleanKnown
    BY <1>1, <1>2, <1>5 DEF CleanKnown, Done, Removing, Leased, Prepared, Staging
  <1> QED  BY <1>4, <1>6, <1>7, <1>8, <1>9 DEF SvcInv

SvcStep == SvcInv' /\ VolumesFrozen /\ VolumesOwned /\ CompletedClean

\* Steps that leave deletions and volumes alone.
LEMMA Plain ==
  ASSUME SvcInv', deletions' = deletions, volumes \subseteq volumes'
  PROVE  SvcStep
BY SameDeletions, NoneCompleted, VolumesKept DEF SvcStep

\* One request or backup begins, or a service is started or routed.
LEMMA BeginningSteps ==
  ASSUME SvcInv,
         \/ \E n \in Names :
              \/ Services!CreateService(n) \/ Interrupted!CreateService(n)
              \/ Services!UpdateApplicationService(n) \/ Interrupted!UpdateApplicationService(n)
              \/ Services!DeleteBegin(n) \/ Interrupted!DeleteBegin(n)
              \/ Services!StartService(n) \/ Interrupted!StartService(n)
              \/ Services!CreateRouting(n) \/ Interrupted!CreateRouting(n)
         \/ \E d \in Databases :
              \/ Services!SaveSchedule(d) \/ Interrupted!SaveSchedule(d)
              \/ Services!BackupBegin(d) \/ Interrupted!BackupBegin(d)
              \/ Services!LeaseEnds(d) \/ Interrupted!LeaseEnds(d)
  PROVE  SvcStep
  <1>1. ASSUME NEW n \in Names,
               \/ Services!CreateService(n) \/ Interrupted!CreateService(n)
               \/ Services!UpdateApplicationService(n) \/ Interrupted!UpdateApplicationService(n)
        PROVE  SvcStep
    <2>1. deletions' = deletions /\ volumes' = volumes
      BY <1>1
         DEF Services!CreateService, Services!UpdateApplicationService, Services!tables,
             Services!docker, Interrupted!CreateService,
             Interrupted!UpdateApplicationService, Interrupted!tables, Interrupted!docker
    <2> QED  BY <1>1, <2>1, WriteSteps, Plain
  <1>2. ASSUME NEW n \in Names, Services!DeleteBegin(n) \/ Interrupted!DeleteBegin(n)
        PROVE  SvcStep
    <2>1. volumes' = volumes
      BY <1>2
         DEF Services!DeleteBegin, Services!docker, Interrupted!DeleteBegin, Interrupted!docker
    <2>2. /\ SvcInv'
          /\ \A m \in Names : Unfinished(m) => deletions'[m] = deletions[m]
          /\ \A m \in Names : deletions'[m] # deletions[m] => deletions'[m].state = "running"
      BY <1>2, SvcDeleteBegins
    <2>3. VolumesFrozen /\ NoneCompletes
      BY <2>2 DEF VolumesFrozen, NoneCompletes
    <2> QED  BY <2>1, <2>2, <2>3, NoneCompleted, VolumesKept DEF SvcStep
  <1>3. ASSUME NEW n \in Names,
               \/ Services!StartService(n) \/ Interrupted!StartService(n)
               \/ Services!CreateRouting(n) \/ Interrupted!CreateRouting(n)
        PROVE  SvcStep
    <2>1. deletions' = deletions
      BY <1>3
         DEF Services!StartService, Services!CreateRouting, Services!tables,
             Interrupted!StartService, Interrupted!CreateRouting, Interrupted!tables
    <2> QED  BY <1>3, <2>1, IdleSteps, Plain
  <1>4. ASSUME NEW d \in Databases,
               \/ Services!SaveSchedule(d) \/ Interrupted!SaveSchedule(d)
               \/ Services!BackupBegin(d) \/ Interrupted!BackupBegin(d)
               \/ Services!LeaseEnds(d) \/ Interrupted!LeaseEnds(d)
        PROVE  SvcStep
    <2>1. deletions' = deletions /\ volumes' = volumes
      BY <1>4
         DEF Services!SaveSchedule, Services!BackupBegin, Services!LeaseEnds, Services!tables,
             Services!docker, Interrupted!SaveSchedule, Interrupted!BackupBegin,
             Interrupted!LeaseEnds, Interrupted!tables, Interrupted!docker
    <2> QED  BY <1>4, <2>1, BackupSteps, Plain
  <1> QED  BY <1>1, <1>2, <1>3, <1>4

\* The operation under way goes on, fails or dies.
LEMMA GoingSteps ==
  ASSUME SvcInv,
         \/ Services!SaveRow \/ Interrupted!SaveRow
         \/ Services!WriteUndo \/ Interrupted!WriteUndo
         \/ Services!Start \/ Interrupted!Start
         \/ Services!StartLeft \/ Interrupted!StartLeft
         \/ Services!DeleteStep \/ Interrupted!DeleteStep
         \/ Services!DeleteFail \/ Interrupted!DeleteFail
         \/ Services!CheckpointLost \/ Interrupted!CheckpointLost
         \/ Services!Crash \/ Interrupted!Crash
  PROVE  SvcStep
  <1>1. CASE \/ Services!SaveRow \/ Interrupted!SaveRow
             \/ Services!WriteUndo \/ Interrupted!WriteUndo
    <2>1. deletions' = deletions /\ volumes' = volumes
      BY <1>1
         DEF Services!SaveRow, Services!WriteUndo, Services!tables, Services!docker,
             Interrupted!SaveRow, Interrupted!WriteUndo, Interrupted!tables, Interrupted!docker
    <2> QED  BY <1>1, <2>1, RowSaved, WriteUndone, Plain
  <1>2. CASE \/ Services!Start \/ Interrupted!Start
             \/ Services!StartLeft \/ Interrupted!StartLeft
    <2>1. deletions' = deletions
      BY <1>2
         DEF Services!Start, Services!StartLeft, Services!tables, Interrupted!Start,
             Interrupted!StartLeft, Interrupted!tables
    <2> QED  BY <1>2, <2>1, StartSteps, Plain
  <1>3. CASE Services!DeleteSelect \/ Interrupted!DeleteSelect
    <2>1. volumes' = volumes
      BY <1>3
         DEF Services!DeleteSelect, Services!docker, Interrupted!DeleteSelect,
             Interrupted!docker
    <2>2. /\ SvcInv'
          /\ \A m \in Names :
               Unfinished(m) /\ deletions[m].vols # None => deletions'[m] = deletions[m]
          /\ \A m \in Names : deletions'[m] # deletions[m] => deletions'[m].state # "complete"
      BY <1>3, DeleteSelects
    <2>3. VolumesFrozen /\ NoneCompletes
      BY <2>2 DEF VolumesFrozen, NoneCompletes
    <2> QED  BY <2>1, <2>2, <2>3, NoneCompleted, VolumesKept DEF SvcStep
  <1>4. CASE Services!DeleteLease \/ Interrupted!DeleteLease
    <2>1. volumes' = volumes
      BY <1>4
         DEF Services!DeleteLease, Services!docker, Interrupted!DeleteLease, Interrupted!docker
    <2> QED  BY <1>4, <2>1, LeaseSteps, NoneCompleted, VolumesKept DEF SvcStep
  <1>5. CASE Services!DeleteRepair \/ Interrupted!DeleteRepair
    <2>1. deletions' = deletions /\ volumes' = volumes
      BY <1>5
         DEF Services!DeleteRepair, Services!tables, Services!docker, Interrupted!DeleteRepair,
             Interrupted!tables, Interrupted!docker
    <2> QED  BY <1>5, <2>1, RepairSteps, Plain
  <1>6. CASE \/ Services!DeleteStage \/ Interrupted!DeleteStage
             \/ Services!DeleteRestage \/ Interrupted!DeleteRestage
    <2>1. deletions' = deletions /\ volumes' = volumes
      BY <1>6
         DEF Services!DeleteStage, Services!DeleteRestage, Services!tables, Services!docker,
             Interrupted!DeleteStage, Interrupted!DeleteRestage, Interrupted!tables,
             Interrupted!docker
    <2> QED  BY <1>6, <2>1, StageSteps, Plain
  <1>7. CASE \/ Services!DeleteSchedules \/ Interrupted!DeleteSchedules
             \/ Services!DeleteStop \/ Interrupted!DeleteStop
             \/ Services!DeleteRemove \/ Interrupted!DeleteRemove
             \/ Services!DeleteCompose \/ Interrupted!DeleteCompose
             \/ Services!DeleteMetadata \/ Interrupted!DeleteMetadata
    BY <1>7, StageDone, Plain
  <1>8. CASE Services!DeleteVolumes \/ Interrupted!DeleteVolumes
    BY <1>8, VolumesDone, SameDeletions, NoneCompleted DEF SvcStep
  <1>9. CASE \/ Services!DeleteRoutings \/ Interrupted!DeleteRoutings
             \/ Services!DeleteReload \/ Interrupted!DeleteReload
    BY <1>9, RoutingDone, Plain
  <1>10. CASE Services!DeleteCheckpoint \/ Interrupted!DeleteCheckpoint
    BY <1>10, CheckpointSteps, VolumesKept DEF SvcStep
  <1>11. CASE Services!DeleteFail \/ Interrupted!DeleteFail
    <2>1. volumes' = volumes
      BY <1>11
         DEF Services!DeleteFail, Services!docker, Interrupted!DeleteFail, Interrupted!docker
    <2> QED  BY <1>11, <2>1, FailSteps, NoneCompleted, VolumesKept DEF SvcStep
  <1>12. CASE \/ Services!CheckpointLost \/ Interrupted!CheckpointLost
              \/ Services!Crash \/ Interrupted!Crash
    BY <1>12, CrashSteps, Plain
  <1> QED
    BY <1>1, <1>2, <1>3, <1>4, <1>5, <1>6, <1>7, <1>8, <1>9, <1>10, <1>11, <1>12
       DEF Services!DeleteStep, Interrupted!DeleteStep

LEMMA SvcSteps ==
  ASSUME SvcInv, Services!Next \/ Interrupted!Next
  PROVE  SvcStep
BY BeginningSteps, GoingSteps DEF Services!Next, Interrupted!Next

\* The instance with volumes has no deaths.
LEMMA NobodyDies ==
  ASSUME SvcInv, deaths = 0, Services!Next
  PROVE  deaths' = 0
  <1> USE DEF Services!tables, Services!docker
  <1>1. ASSUME NEW n \in Names,
               \/ Services!CreateService(n) \/ Services!UpdateApplicationService(n)
               \/ Services!DeleteBegin(n) \/ Services!StartService(n)
               \/ Services!CreateRouting(n)
        PROVE  deaths' = deaths
    BY <1>1
       DEF Services!CreateService, Services!UpdateApplicationService, Services!DeleteBegin,
           Services!StartService, Services!CreateRouting
  <1>2. ASSUME NEW d \in Databases,
               Services!SaveSchedule(d) \/ Services!BackupBegin(d) \/ Services!LeaseEnds(d)
        PROVE  deaths' = deaths
    BY <1>2 DEF Services!SaveSchedule, Services!BackupBegin, Services!LeaseEnds
  <1>3. CASE \/ Services!SaveRow \/ Services!WriteUndo \/ Services!Start \/ Services!StartLeft
             \/ Services!DeleteFail
    BY <1>3
       DEF Services!SaveRow, Services!WriteUndo, Services!Start, Services!StartLeft,
           Services!DeleteFail
  <1>4. CASE Services!DeleteStep
    BY <1>4
       DEF Services!DeleteStep, Services!DeleteSelect, Services!DeleteLease,
           Services!DeleteRepair, Services!DeleteStage, Services!DeleteRestage,
           Services!DeleteSchedules, Services!DeleteStop, Services!DeleteRemove,
           Services!DeleteVolumes, Services!DeleteCompose, Services!DeleteRoutings,
           Services!DeleteReload, Services!DeleteMetadata, Services!DeleteCheckpoint
  <1>5. ~Services!CheckpointLost /\ ~Services!Crash
    BY DEF Services!CheckpointLost, Services!Crash
  <1> QED  BY <1>1, <1>2, <1>3, <1>4, <1>5 DEF Services!Next

\* What the invariant says of the services' properties.
LEMMA SvcSound ==
  ASSUME SvcInv
  PROVE  /\ Services!TypeOK /\ Services!RepairedBeforeDocker
         /\ Services!DeletionExcludesBackup
         /\ deaths = 0 => Services!IdleProjectParses
  <1>1. Services!TypeOK
    <2>1. SvcTypes
      BY DEF SvcInv
    <2>2. \A n \in Names : deletions[n] # None =>
            /\ deletions[n].stage \in Steps
            /\ deletions[n].state \in {"running", "failed", "complete"}
            /\ deletions[n].vols # None => deletions[n].vols \subseteq Volumes
      BY <2>1 DEF SvcTypes, Deletions
    <2>3. \A n \in Names : compose[n] # None => compose[n] \in Services!Definitions
      BY <2>1, SvcConstants DEF SvcTypes, Files
    <2> QED  BY <2>1, <2>2, <2>3, SvcConstants DEF SvcTypes, Services!TypeOK
  <1>2. Services!RepairedBeforeDocker
    <2>1. at = "delete_work" /\ Stage \in {"stop", "remove"} => Parses(compose)
      BY DEF SvcInv, ParsesKnown, Prepared
    <2> QED
      BY <2>1
         DEF Services!RepairedBeforeDocker, Services!ComposeValid, Services!Defined,
             Services!Stage, Parses, Defined, Stage
  <1>3. Services!DeletionExcludesBackup
    BY DEF SvcInv, LeaseKnown, Services!DeletionExcludesBackup, Services!NeedsLease, Leased,
           Prepared
  <1>4. deaths = 0 => Services!IdleProjectParses
    <2>1. deaths = 0 /\ at = "idle" => Parses(compose)
      BY DEF SvcInv, ParsesKnown, Writing
    <2> QED
      BY <2>1
         DEF Services!IdleProjectParses, Services!ComposeValid, Services!Defined, Parses,
             Defined
  <1> QED  BY <1>1, <1>2, <1>3, <1>4

---------------------------------------------------------------------------
(* The suite: the component that rests stays as it is.                     *)

SuiteInv ==
  /\ which \in {"applications", "services", "interrupted"}
  /\ AppInv /\ SvcInv
  /\ which = "services" => deaths = 0

LEMMA ApplicationRests == AppInv /\ UNCHANGED application => AppInv'
BY DEF application, AppInv, DataTypes, RequestTypes, DataKnown, RowsDiffer, RowKnown, FolderKnown,
       DirKnown, StageKnown, Past, Checking, HoldsLocks, RequestKnown, Present, Active

LEMMA ServiceRests == SvcInv /\ UNCHANGED service => SvcInv'
BY DEF service, SvcInv, SvcTypes, WorkKnown, ParsesKnown, LeaseKnown, CleanKnown, Unfinished, Stage,
       Done, Whole, Interruptible

LEMMA SuiteInit == Init => SuiteInv
  <1>1. Services!Init => deaths = 0
    BY DEF Services!Init
  <1> QED  BY <1>1, AppInit, SvcInit DEF Init, SuiteInv

\* A step of the suite is one of a component.
LEMMA SuiteStep ==
  ASSUME SuiteInv, [Next]_vars
  PROVE  /\ SuiteInv'
         /\ UNCHANGED application \/ Applications!Next
         /\ UNCHANGED service \/ SvcStep
  <1>1. CASE which = "applications" /\ Applications!Next /\ UNCHANGED <<which, service>>
    <2>1. AppInv' /\ SvcInv'
      BY <1>1, AppStep, ServiceRests DEF SuiteInv
    <2> QED  BY <1>1, <2>1 DEF SuiteInv
  <1>2. CASE /\ (which = "services" /\ Services!Next) \/ (which = "interrupted" /\ Interrupted!Next)
             /\ UNCHANGED <<which, application>>
    <2>1. AppInv' /\ SvcStep
      BY <1>2, SvcSteps, ApplicationRests DEF SuiteInv
    <2>2. which = "services" => deaths' = 0
      BY <1>2, NobodyDies DEF SuiteInv
    <2> QED  BY <1>2, <2>1, <2>2 DEF SuiteInv, SvcStep
  <1>3. CASE UNCHANGED vars
    <2>1. UNCHANGED which /\ UNCHANGED application /\ UNCHANGED service
      BY <1>3 DEF vars
    <2>2. AppInv' /\ SvcInv'
      BY <2>1, ApplicationRests, ServiceRests DEF SuiteInv
    <2> QED  BY <2>1, <2>2 DEF SuiteInv, service
  <1> QED  BY <1>1, <1>2, <1>3 DEF Next

\* The properties of every state.
LEMMA SuiteSound == SuiteInv => ApplicationsMatch /\ ServicesMatch
BY AppSound, SvcSound
   DEF SuiteInv, ApplicationsMatch, ServicesMatch, TypeOK, RegisteredHasFolder, CompleteIsClean,
       ApplicationDeletionExcludesBackup, IdleProjectParses, RepairedBeforeDocker,
       ServiceDeletionExcludesBackup

LEMMA SuiteInvariant == Spec => []SuiteInv
  <1>1. SuiteInv /\ [Next]_vars => SuiteInv'
    BY SuiteStep
  <1> QED  BY <1>1, SuiteInit, PTL DEF Spec

\* The step formulas of the modules, in the vocabulary of this one.
LEMMA StepFormulas ==
  /\ OwnDirectoryRemoved => Applications!FolderOwned
  /\ StageAdvances => Applications!IntentsAdvance
  /\ VolumesFrozen => Services!ChoiceKept
  /\ VolumesOwned => Services!VolumesOwned
  /\ CompletedClean => Services!CompletesClean
  <1>1. OwnDirectoryRemoved => Applications!FolderOwned
    BY DEF OwnDirectoryRemoved, Applications!FolderOwned, Applications!Pending
  <1>2. StageAdvances => Applications!IntentsAdvance
    BY DEF StageAdvances, Applications!IntentsAdvance, Applications!Ids, Ids
  <1>3. VolumesFrozen => Services!ChoiceKept
    BY DEF VolumesFrozen, Services!ChoiceKept, Services!Incomplete, Unfinished
  <1>4. VolumesOwned => Services!VolumesOwned
    BY DEF VolumesOwned, Services!VolumesOwned, Services!Defined, Defined
  <1>5. CompletedClean => Services!CompletesClean
    BY DEF CompletedClean, Services!CompletesClean, Services!Completes, Whole
  <1> QED  BY <1>1, <1>2, <1>3, <1>4, <1>5

\* A step of a component removes only what its deletion owns, moves
\* deletions forward and completes them clean.
LEMMA StepSound ==
  ASSUME SuiteInv, [Next]_vars
  PROVE  /\ [Applications!FolderOwned /\ Applications!IntentsAdvance]_Applications!vars
         /\ [Services!ChoiceKept /\ Services!VolumesOwned /\ Services!CompletesClean]_Services!vars
  <1>1. UNCHANGED application => UNCHANGED Applications!vars
    BY DEF application, Applications!vars, Applications!database, Applications!outside
  <1>2. UNCHANGED service => UNCHANGED Services!vars
    BY DEF service, Services!vars, Services!tables, Services!docker
  <1>3. Applications!Next => Applications!FolderOwned /\ Applications!IntentsAdvance
    BY OwnRemoved, Advances, StepFormulas DEF SuiteInv
  <1>4. SvcStep => Services!ChoiceKept /\ Services!VolumesOwned /\ Services!CompletesClean
    BY StepFormulas DEF SvcStep
  <1> QED  BY <1>1, <1>2, <1>3, <1>4, SuiteStep

(* In every instance: a registered application that is not being deleted   *)
(* has the directory made for it, a complete deletion left no row,         *)
(* directory, timer or route, and no backup of an application runs while   *)
(* its deletion works (application_lifecycle.go).                          *)
THEOREM ApplicationsMatchAlways == Spec => []ApplicationsMatch
BY SuiteInvariant, SuiteSound, PTL

(* In every instance: Docker can parse the project between operations and  *)
(* whenever a deletion stops or removes a service, and no backup of a      *)
(* database runs while its deletion works (application_container.go,       *)
(* applications.go).                                                       *)
THEOREM ServicesMatchAlways == Spec => []ServicesMatch
BY SuiteInvariant, SuiteSound, PTL

(* In every instance: no directory of a later application, no volume that  *)
(* another service mounts and none that was not selected first is removed  *)
(* (resumeApplicationDeletion, RemoveServiceVolumes).                      *)
THEOREM OnlyOwnRemovedAlways == Spec => OnlyOwnRemoved
  <1>1. SuiteInv /\ [Next]_vars =>
          /\ [Applications!FolderOwned]_Applications!vars
          /\ [Services!ChoiceKept]_Services!vars
          /\ [Services!VolumesOwned]_Services!vars
    BY StepSound
  <1> QED
    BY <1>1, SuiteInvariant, PTL
       DEF Spec, OnlyOwnRemoved, OnlyOwnFolderRemoved, Applications!OnlyOwnFolderRemoved,
           VolumeChoiceFrozen, Services!VolumeChoiceFrozen, OnlyOwnVolumesRemoved,
           Services!OnlyOwnVolumesRemoved

(* In every instance: the deletion of an application never goes back to an *)
(* earlier stage and a completed one is never reopened, and a deletion of a*)
(* service without volumes that nothing interrupts leaves no definition,   *)
(* container, row, routing or timer (checkpointApplicationDeletion,        *)
(* resumeServiceDeletion).                                                 *)
THEOREM DeletionsEndCleanAlways == Spec => DeletionsEndClean
  <1>1. SuiteInv /\ [Next]_vars =>
          /\ [Applications!IntentsAdvance]_Applications!vars
          /\ [Services!CompletesClean]_Services!vars
    BY StepSound
  <1> QED
    BY <1>1, SuiteInvariant, PTL
       DEF Spec, DeletionsEndClean, StagesAdvance, Applications!StagesAdvance,
           UninterruptedDeletionCleans, Services!UninterruptedDeletionCleans
=============================================================================
