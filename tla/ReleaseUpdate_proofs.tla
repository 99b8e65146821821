------------------------ MODULE ReleaseUpdate_proofs ------------------------
(***************************************************************************)
(* Proofs about ReleaseUpdate, for any number of operations, images,       *)
(* reconcilers, crashes and deployments.  The first invariant, IInv, says  *)
(* who may own the record and the lock: an unresolved operation holds the  *)
(* installation lock and acknowledged history is never reopened.  The      *)
(* second, SInv, rests on it and says what each process may rely on        *)
(* between two of its steps: images are kept, the helper works alone, and  *)
(* success is recorded only for what was verified.                         *)
(***************************************************************************)
EXTENDS ReleaseUpdate, TLAPS

\* What a step of process x may do to the control state: only x moves, only
\* a running reconciler opens admission, and x learns only of operations that
\* are its own or recorded.
Moves(x) ==
    /\ \A y \in Processes \ {x} : pc'[y] = pc[y] /\ snap'[y] = snap[y]
    /\ used' = used /\ (booting' => booting)
    /\ \/ admitted' = admitted
       \/ admitted' = TRUE /\ x \in Reconcilers /\ pc[x] # "idle"
    /\ pc["helper"] # "idle" /\ x # "helper" => HelperRunning'
    /\ snap'[x] # None => \/ snap[x] # None /\ snap'[x].op = snap[x].op
                          \/ state' # None /\ snap'[x].op = state'.op
    /\ x = "workflow" /\ pc'[x] \in EarlyPcs => pc[x] \in EarlyPcs /\ snap'[x] = snap[x]
    /\ x \in Reconcilers => /\ pc[x] # "idle" \/ pc'[x] = "idle" \/ state' # None
                            /\ pc'[x] \in {"orphan", "unlock"} => pc[x] = "orphan"

\* What it may do to the store: write the next revision, which never reopens
\* an operation, take a free lock, or give one back that no workflow relies on.
StoreMoves ==
    /\ \/ state' = state
       \/ /\ state # None /\ state' # None
          /\ state'.op = state.op /\ state'.rev = state.rev + 1
          /\ Terminal(state) => Terminal(state')
          /\ RecordOK(state')
          /\ state.ack => state'.ack /\ state'.phase = state.phase
    /\ \/ lock' = lock
       \/ lock = None
       \/ lock' = None /\ pc'["workflow"] \notin EarlyPcs

\* A step of AcknowledgedIsFinal.
AckStep ==
    state # None /\ state.ack
       => /\ state' # None
          /\ \/ state'.op = state.op /\ state'.ack /\ state'.phase = state.phase
             \/ state'.op # state.op /\ state'.phase = "preparing"

\* The other processes keep their part of the invariant.
LEMMA OthersKeep ==
    ASSUME IInv, TypeOK', NEW x \in Processes, Moves(x), StoreMoves,
           NEW y \in Processes, y # x
    PROVE  ProcessOK(y, snap[y], pc[y])'
<1>1. pc'[y] = pc[y] /\ snap'[y] = snap[y]
  BY DEF Moves
<1>2. ProcessOK(y, snap[y], pc[y]) /\ snap[y] \in Records \cup {None}
  BY DEF IInv, TypeOK
<1>3. ASSUME snap[y] # None PROVE CopyOK(snap[y])'
  <2>1. CopyOK(snap[y])
    BY <1>2, <1>3 DEF ProcessOK
  <2>2. snap[y] \in Records /\ state \in Records \cup {None} /\ state' \in Records \cup {None}
    BY <1>2, <1>3 DEF IInv, TypeOK
  <2> QED
    BY <1>1, <2>1, <2>2 DEF CopyOK, Moves, StoreMoves, Records, Terminal
<1>4. y = "workflow" => WorkflowOK(snap[y], pc[y])'
  <2>1. y = "workflow" => WorkflowOK(snap[y], pc[y])
    BY <1>2 DEF ProcessOK
  <2>2. pc[y] # "idle" => (admitted => admitted')
    BY DEF Moves
  <2> QED
    BY <1>1, <2>1, <2>2 DEF WorkflowOK, Moves, StoreMoves, RecordOK, EarlyPcs, WorkflowPcs, Terminal, Unlocked
<1>5. y = "helper" => HelperOK(snap[y], pc[y])'
  BY <1>1, <1>2 DEF ProcessOK, HelperOK, Moves, Terminal
<1>6. y \in Reconcilers => ReconcilerOK(snap[y], pc[y])'
  <2>1. y \in Reconcilers => ReconcilerOK(snap[y], pc[y])
    BY <1>2 DEF ProcessOK
  <2>2. y \in Reconcilers /\ pc[y] \in {"orphan", "unlock"} => admitted' = admitted /\ state' = state
    BY <2>1 DEF IInv, StartupAlone, Moves, StoreMoves, ReconcilerOK
  <2> QED
    BY <1>1, <2>1, <2>2 DEF ReconcilerOK, Moves
<1>7. y # "prune" => ReleasingOK(snap[y], pc[y])'
  BY <1>1, <1>2 DEF ProcessOK, ReleasingOK, StoreMoves, Terminal
<1> QED
  BY <1>1, <1>2, <1>3, <1>4, <1>5, <1>6, <1>7 DEF ProcessOK, RecordOK, Terminal

\* A step of one process that satisfies the invariant's local part for that
\* process preserves the whole invariant.
LEMMA OneProcessStep ==
    ASSUME IInv, TypeOK', NEW x \in Processes, Moves(x), StoreMoves,
           ActiveHoldsLock', ProcessOK(x, snap[x], pc[x])'
    PROVE  IInv' /\ AckStep
<1>1. (state # None => RecordOK(state) /\ state.op \in used)'
  BY DEF IInv, Moves, StoreMoves, RecordOK, Terminal
<1>2. (\A y \in Processes : ProcessOK(y, snap[y], pc[y]))'
  <2>1. ASSUME NEW y \in Processes PROVE ProcessOK(y, snap[y], pc[y])'
    BY <2>1, OthersKeep
  <2> QED
    BY <2>1 DEF Processes
<1>3. NewOpUnknown'
  <2> SUFFICES ASSUME pc'["workflow"] \in EarlyPcs, NEW y \in Processes \ {"workflow"},
                      snap'[y] # None
               PROVE  snap'[y].op # snap'["workflow"].op
    BY DEF NewOpUnknown
  <2>1. "workflow" \in Processes
    BY DEF Processes
  <2>2. pc["workflow"] \in EarlyPcs /\ snap'["workflow"] = snap["workflow"]
    BY <2>1 DEF Moves
  <2>3. state' # None => state'.op # snap'["workflow"].op
    BY <1>2, <2>1 DEF ProcessOK, WorkflowOK
  <2>4. snap[y] # None => snap[y].op # snap["workflow"].op
    BY <2>2 DEF IInv, NewOpUnknown
  <2> QED
    BY <2>2, <2>3, <2>4 DEF Moves
<1>4. StartupAlone'
  <2>1. state' = None => state = None
    BY DEF StoreMoves
  <2>2. (state = None /\ booting => ~admitted /\ \A r \in Reconcilers : pc[r] = "idle")'
    BY <2>1 DEF IInv, StartupAlone, Moves, Processes
  <2>3. ASSUME NEW r \in Reconcilers, pc'[r] \in {"orphan", "unlock"},
               NEW q \in Reconcilers \ {r}
        PROVE  pc'[q] = "idle"
    <3>1. pc[r] \in {"orphan", "unlock"}
      BY <2>3 DEF Moves, Processes
    <3>2. pc[q] = "idle"
      BY <2>3, <3>1 DEF IInv, StartupAlone
    <3>3. state' = None
      BY <1>2, <2>3 DEF ProcessOK, ReconcilerOK, Processes
    <3> QED
      BY <3>2, <3>3, <2>3 DEF Moves, Processes
  <2> QED
    BY <2>2, <2>3 DEF StartupAlone
<1>5. AckStep
  BY DEF StoreMoves, AckStep
<1> QED
  BY <1>1, <1>2, <1>3, <1>4, <1>5 DEF IInv

\* A step that leaves the store alone.
LEMMA LocalStep ==
    ASSUME IInv, TypeOK', NEW x \in Processes, Moves(x), UNCHANGED store,
           ProcessOK(x, snap[x], pc[x])'
    PROVE  IInv' /\ AckStep
<1>1. StoreMoves
  BY DEF StoreMoves, store
<1>2. ActiveHoldsLock'
  BY DEF IInv, ActiveHoldsLock, Unresolved, HoldsUpdateLock, LockIs, store, Terminal
<1> QED
  BY <1>1, <1>2, OneProcessStep

\* A process that returns has nothing left to say.
LEMMA ReturnedOK ==
    ASSUME NEW x \in Processes, snap'[x] = None, pc'[x] = "idle"
    PROVE  ProcessOK(x, snap[x], pc[x])'
BY DEF ProcessOK, WorkflowOK, HelperOK, ReconcilerOK, ReleasingOK, EarlyPcs, WorkflowPcs

\* The helper's container runs as long as its process does.
LEMMA HelperAlive == IInv /\ pc["helper"] # "idle" => HelperRunning
BY DEF IInv, ProcessOK, HelperOK, Processes

\* Moving a process to one of the locations keeps the types.
LEMMA TypedMove ==
    ASSUME TypeOK, NEW x \in Processes, NEW l \in Pcs, NEW s \in Records \cup {None},
           pc' = [pc EXCEPT ![x] = l], snap' = [snap EXCEPT ![x] = s]
    PROVE  pc' \in [Processes -> Pcs] /\ snap' \in [Processes -> Records \cup {None}]
BY DEF TypeOK

\* The workflow's copy changes at most in its images, and it does not leave
\* or enter the stretch before its first record.
WorkflowGoesOn ==
    /\ pc["workflow"] # "idle" /\ pc'["workflow"] \in WorkflowPcs
    /\ snap'["workflow"] # None
    /\ snap'["workflow"].op = snap["workflow"].op
    /\ snap'["workflow"].rev = snap["workflow"].rev
    /\ snap'["workflow"].phase = snap["workflow"].phase
    /\ snap'["workflow"].ack = snap["workflow"].ack
    /\ pc["workflow"] \in EarlyPcs <=> pc'["workflow"] \in EarlyPcs
    /\ pc["workflow"] \in EarlyPcs => snap'["workflow"] = snap["workflow"]
    /\ pc["workflow"] \in {"cleanup", "release"} <=> pc'["workflow"] \in {"cleanup", "release"}

LEMMA WorkflowKeeps ==
    ASSUME IInv, TypeOK', WorkflowGoesOn, UNCHANGED <<store, used, admitted>>
    PROVE  ProcessOK("workflow", snap["workflow"], pc["workflow"])'
<1>1. "workflow" \in Processes /\ "workflow" \notin Reconcilers
  BY ReconcilersApart DEF Processes
<1>2. ProcessOK("workflow", snap["workflow"], pc["workflow"])
  BY <1>1 DEF IInv
<1>3. snap["workflow"] # None /\ CopyOK(snap["workflow"])
      /\ WorkflowOK(snap["workflow"], pc["workflow"])
      /\ ReleasingOK(snap["workflow"], pc["workflow"])
  BY <1>2 DEF ProcessOK, WorkflowOK, WorkflowGoesOn
<1>4. CopyOK(snap["workflow"])'
  BY <1>3 DEF CopyOK, WorkflowGoesOn, store, Terminal
<1>5. WorkflowOK(snap["workflow"], pc["workflow"])'
  BY <1>3 DEF WorkflowOK, WorkflowGoesOn, store, Terminal, RecordOK, Unlocked, WorkflowPcs, EarlyPcs
<1>6. ReleasingOK(snap["workflow"], pc["workflow"])'
  BY <1>3 DEF ReleasingOK, WorkflowGoesOn, store, Terminal
<1> QED
  BY <1>1, <1>4, <1>5, <1>6 DEF ProcessOK

\* The workflow's steps that leave the store alone preserve the invariant.
LEMMA WorkflowLocal ==
    ASSUME IInv,
           \/ WfInspectHelper \/ WfRemoveHelper \/ WfInspectContainer
           \/ Cleanup("workflow")
           \/ \E i \in Images : WfLoadImage(i)
    PROVE  IInv' /\ AckStep
<1>0. "workflow" \in Processes
  BY DEF Processes
<1>1. TypeOK
  BY DEF IInv
<1>2. pc["workflow"] # "idle" => snap["workflow"] \in Records /\ snap["workflow"] # None
  BY <1>0, <1>1 DEF IInv, ProcessOK, WorkflowOK, TypeOK
<1>3. CASE WfInspectHelper
  <2> USE <1>3 DEF WfInspectHelper, Goto, Keep, Return, store, docker, bounds
  <2>1. TypeOK'
    BY <1>1, <1>2 DEF TypeOK, Pcs, WorkflowPcs, EarlyPcs
  <2>2. Moves("workflow")
    BY <1>0, <1>1, <1>2, HelperAlive, ReconcilersApart DEF TypeOK, Moves, EarlyPcs, HelperRunning
  <2>3. WorkflowGoesOn
    BY <1>0, <1>1, <1>2 DEF TypeOK, WorkflowGoesOn, EarlyPcs, WorkflowPcs
  <2> QED
    BY <1>0, <2>1, <2>2, <2>3, WorkflowKeeps, LocalStep
<1>4. CASE WfRemoveHelper
  <2> USE <1>4 DEF WfRemoveHelper, Goto, Keep, Return, store, docker, bounds
  <2>1. TypeOK'
    BY <1>1, <1>2 DEF TypeOK, Pcs, WorkflowPcs, EarlyPcs
  <2>2. Moves("workflow")
    BY <1>0, <1>1, <1>2, HelperAlive, ReconcilersApart DEF TypeOK, Moves, EarlyPcs, HelperRunning
  <2>3. WorkflowGoesOn
    BY <1>0, <1>1, <1>2 DEF TypeOK, WorkflowGoesOn, EarlyPcs, WorkflowPcs
  <2> QED
    BY <1>0, <2>1, <2>2, <2>3, WorkflowKeeps, LocalStep
<1>5. CASE WfInspectContainer
  <2> USE <1>5 DEF WfInspectContainer, Goto, Keep, Return, store, docker, bounds
  <2>0. /\ [snap["workflow"] EXCEPT !.prev = container.image] \in Records
        /\ [snap["workflow"] EXCEPT !.prev = container.image] # None
        /\ snap' = [snap EXCEPT !["workflow"] = [snap["workflow"] EXCEPT !.prev = container.image]]
    BY <1>1, <1>2, NoneIsNoRecord DEF TypeOK, Records
  <2>1. TypeOK'
    BY <2>0, <1>1, <1>2 DEF TypeOK, Pcs, WorkflowPcs, EarlyPcs
  <2>2. Moves("workflow")
    BY <2>0, <1>0, <1>1, <1>2, HelperAlive, ReconcilersApart DEF TypeOK, Moves, EarlyPcs, HelperRunning
  <2>3. WorkflowGoesOn
    BY <2>0, <1>0, <1>1, <1>2 DEF TypeOK, WorkflowGoesOn, EarlyPcs, WorkflowPcs, Records
  <2> QED
    BY <1>0, <2>1, <2>2, <2>3, WorkflowKeeps, LocalStep
<1>6. CASE Cleanup("workflow")
  <2> USE <1>6 DEF Cleanup, Goto, Keep, Return, store, docker, bounds
  <2>1. TypeOK'
    BY <1>1, <1>2 DEF TypeOK, Pcs, WorkflowPcs, EarlyPcs, AfterCleanup
  <2>2. Moves("workflow")
    BY <1>0, <1>1, <1>2, HelperAlive, ReconcilersApart DEF TypeOK, Moves, EarlyPcs, HelperRunning
  <2>3. WorkflowGoesOn
    BY <1>0, <1>1, <1>2 DEF TypeOK, WorkflowGoesOn, EarlyPcs, WorkflowPcs
  <2> QED
    BY <1>0, <2>1, <2>2, <2>3, WorkflowKeeps, LocalStep
<1>7. ASSUME NEW i \in Images, WfLoadImage(i) PROVE IInv' /\ AckStep
  <2> USE <1>7 DEF WfLoadImage, Goto, Keep, Return, store, docker, bounds
  <2>0. /\ [snap["workflow"] EXCEPT !.target = i] \in Records
        /\ [snap["workflow"] EXCEPT !.target = i] # None
        /\ snap' = [snap EXCEPT !["workflow"] = [snap["workflow"] EXCEPT !.target = i]]
    BY <1>1, <1>2, NoneIsNoRecord DEF TypeOK, Records
  <2>1. TypeOK'
    <3>1. pc' \in [Processes -> Pcs] /\ snap' \in [Processes -> Records \cup {None}]
      BY <2>0, <1>0, <1>1, TypedMove DEF Pcs, WorkflowPcs
    <3>2. loaded' \subseteq Images
      BY <1>1 DEF TypeOK
    <3> QED
      BY <3>1, <3>2, <1>1 DEF TypeOK
  <2>2. Moves("workflow")
    BY <2>0, <1>0, <1>1, <1>2, HelperAlive, ReconcilersApart DEF TypeOK, Moves, EarlyPcs, HelperRunning
  <2>3. WorkflowGoesOn
    BY <2>0, <1>0, <1>1, <1>2 DEF TypeOK, WorkflowGoesOn, EarlyPcs, WorkflowPcs, Records
  <2> QED
    BY <1>0, <2>1, <2>2, <2>3, WorkflowKeeps, LocalStep
<1> QED
  BY <1>3, <1>4, <1>5, <1>6, <1>7

\* A copy at the current revision agrees with the record.
LEMMA AgreedCopy ==
    ASSUME IInv, NEW x \in Processes, snap[x] # None, Current(snap[x])
    PROVE  /\ snap[x] \in Records /\ state \in Records /\ state # None
           /\ snap[x].phase = state.phase /\ snap[x].ack = state.ack
           /\ snap[x].op = state.op /\ snap[x].rev = state.rev
           /\ snap[x].ack => Terminal(snap[x])
BY DEF IInv, TypeOK, ProcessOK, CopyOK, Current

\* A write that is not an operation's first one is accepted only at the
\* current revision.
LEMMA OwnWrite ==
    ASSUME IInv, NEW x \in Processes, snap[x] \in Records, NEW s \in Records,
           s.op = snap[x].op, s.rev = snap[x].rev, CanWrite(s),
           snap[x].rev >= 2 \/ (state # None /\ state.op = snap[x].op)
    PROVE  /\ Current(snap[x]) /\ state.rev < MaxRev
           /\ Written(s) = [s EXCEPT !.rev = state.rev + 1]
BY DEF Records, CanWrite, Current, Written

\* Where a writer may go with the record it has just written.
WriterGoes(x, s, l) ==
    /\ x = "workflow" => /\ l \in WorkflowPcs \ (EarlyPcs \cup {"release"})
                         /\ Terminal(s) <=> l = "cleanup"
    /\ x = "helper" => /\ l \in HelperPcs \ {"read", "release"}
                       /\ Terminal(s) <=> l = "cleanup"
    /\ x \in Reconcilers => Terminal(s) /\ l = "cleanup"
    /\ x = "operator" => Terminal(s) /\ l = "finish"

\* The record just written is a sound copy of itself.
LEMMA WrittenOK ==
    ASSUME NEW x \in Processes, snap'[x] = state', state' \in Records, state'.op \in used',
           state'.rev >= 2, state'.ack => state'.phase \in TerminalPhases
    PROVE  CopyOK(snap[x])' /\ RecordOK(snap[x])'
BY MaxRevNat DEF CopyOK, RecordOK, Terminal, Records

\* Writing the next revision preserves the invariant.
LEMMA WriteStep ==
    ASSUME IInv, NEW x \in Processes \ {"prune"}, NEW s \in Records, NEW l \in Pcs,
           snap[x] # None, pc[x] # "idle", s.op = snap[x].op,
           Current(snap[x]), state.rev < MaxRev,
           Terminal(snap[x]) => Terminal(s), s.ack => Terminal(s),
           snap[x].ack => s.ack /\ s.phase = snap[x].phase,
           WriterGoes(x, s, l),
           state' = [s EXCEPT !.rev = state.rev + 1],
           snap' = [snap EXCEPT ![x] = state'], pc' = [pc EXCEPT ![x] = l],
           UNCHANGED <<lock, used, admitted, booting, override, docker, bounds>>
    PROVE  IInv' /\ AckStep
<1>1. /\ snap[x] \in Records /\ state \in Records /\ state # None
      /\ snap[x].phase = state.phase /\ snap[x].ack = state.ack
      /\ snap[x].op = state.op /\ snap[x].rev = state.rev
  BY AgreedCopy
<1>2. /\ state' \in Records /\ state' # None /\ state'.op = state.op
      /\ state'.rev = state.rev + 1 /\ state'.rev >= 2
      /\ state'.phase = s.phase /\ state'.ack = s.ack /\ state'.rev \in Nat
  BY <1>1, MaxRevNat, NoneIsNoRecord DEF Records
<1>3. pc'[x] = l /\ snap'[x] = state'
  BY DEF IInv, TypeOK
<1>4. TypeOK'
  <2>1. TypeOK
    BY DEF IInv
  <2>2. pc' \in [Processes -> Pcs] /\ snap' \in [Processes -> Records \cup {None}]
    BY <1>2, <2>1, TypedMove
  <2> QED
    BY <1>2, <2>1, <2>2 DEF TypeOK, docker, bounds
<1>5. Moves(x)
  BY <1>2, <1>3, HelperAlive
  DEF Moves, IInv, TypeOK, HelperRunning, docker, WriterGoes, WorkflowPcs, EarlyPcs
<1>6. StoreMoves
  BY <1>1, <1>2 DEF StoreMoves, RecordOK, Terminal
<1>7. ActiveHoldsLock'
  BY <1>1, <1>2 DEF IInv, ActiveHoldsLock, Unresolved, HoldsUpdateLock, LockIs, Terminal
<1>8. ProcessOK(x, snap[x], pc[x])'
  <2>1. CopyOK(snap[x])' /\ RecordOK(snap[x])'
    <3>1. state'.op \in used'
      BY <1>1, <1>2 DEF IInv
    <3>2. state'.ack => state'.phase \in TerminalPhases
      BY <1>2 DEF Terminal
    <3> QED
      BY <1>2, <1>3, <3>1, <3>2, WrittenOK
  <2>2. x = "workflow" => WorkflowOK(snap[x], pc[x])'
    BY <1>2, <1>3 DEF IInv, ProcessOK, WorkflowOK, WriterGoes, WorkflowPcs, EarlyPcs, Terminal
  <2>3. x = "helper" => HelperOK(snap[x], pc[x])'
    BY <1>2, <1>3, HelperAlive DEF HelperOK, WriterGoes, HelperPcs, Terminal, HelperRunning, docker
  <2>4. x \in Reconcilers => ReconcilerOK(snap[x], pc[x])'
    BY <1>2, <1>3 DEF ReconcilerOK, WriterGoes, ReconcilePcs
  <2>5. x = "operator" => (pc[x] # "idle" => pc[x] \in OperatorPcs /\ snap[x] # None /\ Terminal(snap[x]))'
    BY <1>2, <1>3 DEF WriterGoes, OperatorPcs, Terminal
  <2>6. ReleasingOK(snap[x], pc[x])'
    BY <1>2, <1>3, ReconcilersApart DEF ReleasingOK, WriterGoes, Terminal, Processes
  <2> QED
    BY <1>3, <2>1, <2>2, <2>3, <2>4, <2>5, <2>6 DEF ProcessOK
<1> QED
  BY <1>4, <1>5, <1>6, <1>7, <1>8, OneProcessStep

\* A write of the workflow after its first one.
LEMMA WorkflowWrite ==
    ASSUME IInv, NEW s \in Records, NEW l \in WorkflowPcs \ (EarlyPcs \cup {"release"}),
           pc["workflow"] \notin EarlyPcs \cup {"idle", "cleanup", "release"},
           s.op = snap["workflow"].op, s.rev = snap["workflow"].rev,
           s.ack = snap["workflow"].ack, Terminal(s) <=> l = "cleanup",
           Write("workflow", s, l),
           UNCHANGED <<lock, used, admitted, booting, override, docker, bounds>>
    PROVE  IInv' /\ AckStep
<1> DEFINE x == "workflow"
<1>1. x \in Processes \ {"prune"} /\ x # "helper" /\ x # "operator" /\ x \notin Reconcilers
  BY ReconcilersApart DEF Processes
<1>2. /\ snap[x] \in Records /\ snap[x] # None
      /\ ~Terminal(snap[x]) /\ ~snap[x].ack
      /\ state # None /\ state.op = snap[x].op
  <2>1. pc[x] \in Pcs /\ ProcessOK(x, snap[x], pc[x]) /\ snap[x] \in Records \cup {None}
    BY <1>1 DEF IInv, TypeOK
  <2> QED
    BY <2>1 DEF ProcessOK, WorkflowOK, CopyOK
<1>3. /\ Current(snap[x]) /\ state.rev < MaxRev
      /\ Written(s) = [s EXCEPT !.rev = state.rev + 1]
  BY <1>1, <1>2, OwnWrite DEF Write
<1>4. WriterGoes(x, s, l)
  BY <1>1 DEF WriterGoes
<1>5. state' = [s EXCEPT !.rev = state.rev + 1] /\ snap' = [snap EXCEPT ![x] = state']
      /\ pc' = [pc EXCEPT ![x] = l]
  BY <1>3 DEF Write, Keep, Goto
<1>6. l \in Pcs
  BY DEF Pcs
<1> QED
  BY <1>1, <1>2, <1>3, <1>4, <1>5, <1>6, WriteStep

\* The workflow's writes preserve the invariant.
LEMMA WorkflowWrites ==
    ASSUME IInv,
           \/ WfWriteDownloading \/ WfWriteVerified \/ WfWriteLoaded \/ WfWriteRestartQueued
    PROVE  IInv' /\ AckStep
<1>1. "workflow" \in Processes /\ TypeOK
  BY DEF Processes, IInv
<1>2. pc["workflow"] # "idle" => snap["workflow"] \in Records /\ snap["workflow"] # None
  BY <1>1 DEF IInv, ProcessOK, WorkflowOK, TypeOK
<1>4. CASE WfWriteDownloading
  <2> DEFINE s == [snap["workflow"] EXCEPT !.phase = "downloading", !.path = TRUE]
  <2>1. s \in Records /\ s.op = snap["workflow"].op /\ s.rev = snap["workflow"].rev
        /\ s.phase \in Phases \ TerminalPhases /\ s.ack = snap["workflow"].ack
    BY <1>2, <1>4 DEF WfWriteDownloading, Records, Phases, ManagerPhases, HelperPhases, TerminalPhases
  <2>2. "downloading" \in WorkflowPcs \ (EarlyPcs \cup {"release", "cleanup"})
    BY DEF WorkflowPcs, EarlyPcs
  <2>3. Write("workflow", s, "downloading")
    BY <1>4 DEF WfWriteDownloading
  <2>4. pc["workflow"] \notin EarlyPcs \cup {"idle", "cleanup", "release"}
    BY <1>4 DEF WfWriteDownloading, EarlyPcs
  <2>5. UNCHANGED <<lock, used, admitted, booting, override, docker, bounds>>
    BY <1>4 DEF WfWriteDownloading
  <2> HIDE DEF s
  <2> QED
    BY <2>1, <2>2, <2>3, <2>4, <2>5, WorkflowWrite DEF Terminal
<1>5. CASE WfWriteVerified
  <2> DEFINE s == [snap["workflow"] EXCEPT !.phase = "verified"]
  <2>1. s \in Records /\ s.op = snap["workflow"].op /\ s.rev = snap["workflow"].rev
        /\ s.phase \in Phases \ TerminalPhases /\ s.ack = snap["workflow"].ack
    BY <1>2, <1>5 DEF WfWriteVerified, Records, Phases, ManagerPhases, HelperPhases, TerminalPhases
  <2>2. "verified" \in WorkflowPcs \ (EarlyPcs \cup {"release", "cleanup"})
    BY DEF WorkflowPcs, EarlyPcs
  <2>3. Write("workflow", s, "verified")
    BY <1>5 DEF WfWriteVerified
  <2>4. pc["workflow"] \notin EarlyPcs \cup {"idle", "cleanup", "release"}
    BY <1>5 DEF WfWriteVerified, EarlyPcs
  <2>5. UNCHANGED <<lock, used, admitted, booting, override, docker, bounds>>
    BY <1>5 DEF WfWriteVerified
  <2> HIDE DEF s
  <2> QED
    BY <2>1, <2>2, <2>3, <2>4, <2>5, WorkflowWrite DEF Terminal
<1>6. CASE WfWriteLoaded
  <2> DEFINE s == [snap["workflow"] EXCEPT !.phase = "loaded"]
  <2>1. s \in Records /\ s.op = snap["workflow"].op /\ s.rev = snap["workflow"].rev
        /\ s.phase \in Phases \ TerminalPhases /\ s.ack = snap["workflow"].ack
    BY <1>2, <1>6 DEF WfWriteLoaded, Records, Phases, ManagerPhases, HelperPhases, TerminalPhases
  <2>2. "loaded" \in WorkflowPcs \ (EarlyPcs \cup {"release", "cleanup"})
    BY DEF WorkflowPcs, EarlyPcs
  <2>3. Write("workflow", s, "loaded")
    BY <1>6 DEF WfWriteLoaded
  <2>4. pc["workflow"] \notin EarlyPcs \cup {"idle", "cleanup", "release"}
    BY <1>6 DEF WfWriteLoaded, EarlyPcs
  <2>5. UNCHANGED <<lock, used, admitted, booting, override, docker, bounds>>
    BY <1>6 DEF WfWriteLoaded
  <2> HIDE DEF s
  <2> QED
    BY <2>1, <2>2, <2>3, <2>4, <2>5, WorkflowWrite DEF Terminal
<1>7. CASE WfWriteRestartQueued
  <2> DEFINE s == [snap["workflow"] EXCEPT !.phase = "restart-queued"]
  <2>1. s \in Records /\ s.op = snap["workflow"].op /\ s.rev = snap["workflow"].rev
        /\ s.phase \in Phases \ TerminalPhases /\ s.ack = snap["workflow"].ack
    BY <1>2, <1>7 DEF WfWriteRestartQueued, Records, Phases, ManagerPhases, HelperPhases, TerminalPhases
  <2>2. "queued" \in WorkflowPcs \ (EarlyPcs \cup {"release", "cleanup"})
    BY DEF WorkflowPcs, EarlyPcs
  <2>3. Write("workflow", s, "queued")
    BY <1>7 DEF WfWriteRestartQueued
  <2>4. pc["workflow"] \notin EarlyPcs \cup {"idle", "cleanup", "release"}
    BY <1>7 DEF WfWriteRestartQueued, EarlyPcs
  <2>5. UNCHANGED <<lock, used, admitted, booting, override, docker, bounds>>
    BY <1>7 DEF WfWriteRestartQueued
  <2> HIDE DEF s
  <2> QED
    BY <2>1, <2>2, <2>3, <2>4, <2>5, WorkflowWrite DEF Terminal
<1> QED
  BY <1>4, <1>5, <1>6, <1>7

\* Only a running reconciler opens admission.
AdmissionMoves(x) ==
    \/ admitted' = admitted
    \/ admitted' = TRUE /\ x \in Reconcilers /\ pc[x] # "idle"

LEMMA ReturnMoves ==
    ASSUME IInv, NEW x \in Processes, Return(x), UNCHANGED <<used, booting>>,
           AdmissionMoves(x), helper' = helper \/ x = "helper"
    PROVE  /\ Moves(x) /\ ProcessOK(x, snap[x], pc[x])'
           /\ pc' \in [Processes -> Pcs] /\ snap' \in [Processes -> Records \cup {None}]
<1>1. pc'[x] = "idle" /\ snap'[x] = None
      /\ \A y \in Processes \ {x} : pc'[y] = pc[y] /\ snap'[y] = snap[y]
  BY DEF IInv, TypeOK, Return, Goto, Keep
<1>2. Moves(x)
  BY <1>1, HelperAlive DEF Moves, AdmissionMoves, HelperRunning, EarlyPcs
<1>3. ProcessOK(x, snap[x], pc[x])'
  BY <1>1, ReturnedOK
<1>4. pc' \in [Processes -> Pcs] /\ snap' \in [Processes -> Records \cup {None}]
  BY TypedMove DEF IInv, Return, Goto, Keep, Pcs
<1> QED
  BY <1>2, <1>3, <1>4

\* Returning without touching the store preserves the invariant.
LEMMA ReturnStep ==
    ASSUME IInv, NEW x \in Processes, Return(x), UNCHANGED <<store, used, booting>>,
           AdmissionMoves(x), helper' = helper \/ x = "helper", TypeOK'
    PROVE  IInv' /\ AckStep
BY ReturnMoves, LocalStep

\* So does giving back the lock of a closed operation.
LEMMA UnlockStep ==
    ASSUME IInv, NEW x \in Processes, NEW op \in Ops, Return(x),
           lock' = AfterRelease(op), UNCHANGED <<state, used, booting>>,
           state # None /\ state.op = op => Terminal(state),
           x # "workflow" /\ pc["workflow"] \in EarlyPcs => snap["workflow"].op # op,
           AdmissionMoves(x), helper' = helper \/ x = "helper", TypeOK'
    PROVE  IInv' /\ AckStep
<1>1. Moves(x) /\ ProcessOK(x, snap[x], pc[x])'
  BY ReturnMoves
<1>2. ActiveHoldsLock'
  BY DEF IInv, ActiveHoldsLock, Unresolved, HoldsUpdateLock, LockIs, AfterRelease, Terminal
<1>3. StoreMoves
  <2>1. ASSUME pc'["workflow"] \in EarlyPcs PROVE lock' = lock
    <3>1. "workflow" \in Processes /\ pc["workflow"] \in EarlyPcs /\ x # "workflow"
      BY <2>1 DEF IInv, TypeOK, Return, Goto, Processes, EarlyPcs
    <3>2. lock = [op |-> snap["workflow"].op, owner |-> "manager"]
      BY <3>1 DEF IInv, ProcessOK, WorkflowOK
    <3> QED
      BY <3>1, <3>2 DEF AfterRelease, LockIs
  <2> QED
    BY <2>1 DEF StoreMoves, AfterRelease
<1> QED
  BY <1>1, <1>2, <1>3, OneProcessStep

\* So does recording an operation's outcome as uncertain, and taking its lock
\* again when it is free.
LEMMA UncertainStep ==
    ASSUME IInv, NEW x \in Processes, snap[x] # None, Current(snap[x]), ~snap[x].ack,
           state' = [snap[x] EXCEPT !.phase = "uncertain", !.rev = state.rev + 1],
           state.rev < MaxRev, lock' = lock \/ lock = None,
           Return(x), UNCHANGED <<used, booting>>,
           AdmissionMoves(x), helper' = helper \/ x = "helper", TypeOK'
    PROVE  IInv' /\ AckStep
<1>1. Moves(x) /\ ProcessOK(x, snap[x], pc[x])'
  BY ReturnMoves
<1>2. /\ snap[x] \in Records /\ state \in Records /\ state # None
      /\ ~state.ack /\ snap[x].op = state.op
  BY AgreedCopy
<1>3. /\ state' # None /\ state'.op = state.op /\ state'.rev = state.rev + 1
      /\ state'.rev >= 2 /\ state'.phase = "uncertain" /\ ~state'.ack
  <2>1. "uncertain" \in Phases /\ state.rev + 1 \in 2..MaxRev /\ ~snap[x].ack
    BY <1>2, MaxRevNat DEF Phases, TerminalPhases, Records
  <2> QED
    <3>1. /\ state' \in Records /\ state'.op = snap[x].op /\ state'.rev = state.rev + 1
          /\ state'.rev >= 2 /\ state'.phase = "uncertain" /\ state'.ack = snap[x].ack
      <4>1. state.rev + 1 \in 1..MaxRev /\ state.rev + 1 >= 2 /\ snap[x] \in Records
        BY <1>2, <2>1, MaxRevNat
      <4>2. state' \in Records
        BY ONLY <4>1, <2>1, state' = [snap[x] EXCEPT !.phase = "uncertain", !.rev = state.rev + 1] DEF Records
      <4>3. /\ state'.op = snap[x].op /\ state'.rev = state.rev + 1
            /\ state'.phase = "uncertain" /\ state'.ack = snap[x].ack
        BY ONLY <4>1, state' = [snap[x] EXCEPT !.phase = "uncertain", !.rev = state.rev + 1] DEF Records
      <4> QED
        BY <4>1, <4>2, <4>3
    <3> QED
      BY <1>2, <3>1, NoneIsNoRecord
<1>4. StoreMoves
  BY <1>2, <1>3 DEF StoreMoves, RecordOK, Terminal, TerminalPhases
<1>5. ActiveHoldsLock'
  BY <1>3 DEF ActiveHoldsLock, Unresolved, Terminal, TerminalPhases
<1> QED
  BY <1>1, <1>4, <1>5, OneProcessStep

\* Taking the installation lock under a new identifier.
LEMMA WorkflowAcquires ==
    ASSUME IInv, NEW o \in Ops, WfAcquire(o)
    PROVE  IInv' /\ AckStep
<1> DEFINE s == [op |-> o, rev |-> 1, phase |-> "preparing", prev |-> None,
                 target |-> None, path |-> FALSE, ack |-> FALSE]
<1>1. "workflow" \in Processes /\ "workflow" \notin Reconcilers /\ TypeOK
  BY ReconcilersApart DEF Processes, IInv
<1>2. s \in Records /\ s # None
  <2>1. s \in Records
    BY MaxRevNat DEF Records, Phases, ManagerPhases
  <2> QED
    BY <2>1, NoneIsNoRecord
<1>3. s.op = o /\ s.rev = 1 /\ s.phase = "preparing" /\ s.prev = None /\ s.target = None /\ ~s.ack
  OBVIOUS
<1>4. snap' = [snap EXCEPT !["workflow"] = s]
  BY DEF WfAcquire, Keep
<1> HIDE DEF s
<1>5. /\ pc' = [pc EXCEPT !["workflow"] = "acquired"] /\ pc["workflow"] = "idle"
      /\ o \notin used /\ used' = used \cup {o}
      /\ lock = None /\ lock' = [op |-> o, owner |-> "manager"] /\ admitted
      /\ UNCHANGED <<state, admitted, booting, override, loaded, tag, container, helper,
                     crashes, manual>>
  BY DEF WfAcquire, CreateLock, Unlocked, Goto, docker, bounds
<1>6. /\ pc'["workflow"] = "acquired" /\ snap'["workflow"] = s
      /\ \A y \in Processes \ {"workflow"} : pc'[y] = pc[y] /\ snap'[y] = snap[y]
  BY <1>1, <1>4, <1>5 DEF TypeOK
<1>7. lock' \in Locks /\ lock' # None
  <2>1. lock' \in Locks
    BY <1>5 DEF Locks, Owners, ReleaseOwners
  <2> QED
    BY <2>1, NoneIsNoRecord
<1>8. TypeOK'
  <2>1. pc' \in [Processes -> Pcs] /\ snap' \in [Processes -> Records \cup {None}]
    BY <1>1, <1>2, <1>4, <1>5, TypedMove DEF Pcs, WorkflowPcs, EarlyPcs
  <2> QED
    BY <1>1, <1>5, <1>7, <2>1 DEF TypeOK
<1>9. ActiveHoldsLock'
  BY <1>5 DEF IInv, ActiveHoldsLock, Unresolved, HoldsUpdateLock, LockIs, Terminal
<1>10. (state # None => RecordOK(state) /\ state.op \in used)'
  BY <1>5 DEF IInv, RecordOK, Terminal
<1>11. ASSUME NEW y \in Processes PROVE ProcessOK(y, snap[y], pc[y])'
  <2>1. ProcessOK(y, snap[y], pc[y])
    BY DEF IInv
  <2>2. CASE y = "workflow"
    <3>1. CopyOK(snap[y])'
      BY <2>2, <1>3, <1>5, <1>6 DEF IInv, CopyOK
    <3>2. WorkflowOK(snap[y], pc[y])'
      <4>1. state # None => state.op \in used
        BY DEF IInv
      <4>2. s.phase \notin TerminalPhases
        BY <1>3 DEF TerminalPhases
      <4> QED
        BY <2>2, <4>1, <4>2, <1>2, <1>3, <1>5, <1>6, <1>7
        DEF WorkflowOK, RecordOK, Terminal, Unlocked, EarlyPcs, WorkflowPcs
    <3> QED
      BY <2>2, <3>1, <3>2, <1>1, <1>6 DEF ProcessOK, ReleasingOK
  <2>3. CASE y # "workflow"
    BY <2>1, <2>3, <1>5, <1>6
    DEF ProcessOK, CopyOK, RecordOK, HelperOK, ReconcilerOK, ReleasingOK, Terminal, HelperRunning
  <2> QED
    BY <2>2, <2>3
<1>12. NewOpUnknown'
  <2>1. ASSUME NEW y \in Processes, snap[y] # None PROVE snap[y].op \in used
    BY <2>1 DEF IInv, ProcessOK, CopyOK
  <2> QED
    BY <2>1, <1>3, <1>5, <1>6 DEF NewOpUnknown, Processes
<1>13. StartupAlone'
  BY <1>1, <1>5, <1>6 DEF IInv, StartupAlone, Processes
<1>14. AckStep
  BY <1>5 DEF AckStep
<1> QED
  BY <1>8, <1>9, <1>10, <1>11, <1>12, <1>13, <1>14 DEF IInv, Processes

\* The first record of a new operation replaces a closed one.
LEMMA WorkflowPrepares ==
    ASSUME IInv, WfWritePreparing
    PROVE  IInv' /\ AckStep
<1> DEFINE s == snap["workflow"]
<1>1. "workflow" \in Processes /\ "workflow" \notin Reconcilers /\ TypeOK
  BY ReconcilersApart DEF Processes, IInv
<1>2. /\ pc["workflow"] = "prepare" /\ CanWrite(s) /\ state' = Written(s)
      /\ snap' = [snap EXCEPT !["workflow"] = Written(s)]
      /\ pc' = [pc EXCEPT !["workflow"] = "preparing"]
      /\ UNCHANGED <<lock, used, admitted, booting, override, loaded, tag, container, helper,
                     crashes, manual>>
  BY DEF WfWritePreparing, Write, Keep, Goto, docker, bounds
<1>3. CopyOK(s) /\ WorkflowOK(s, "prepare") /\ s \in Records /\ s # None
  BY <1>1, <1>2 DEF IInv, ProcessOK, WorkflowOK, TypeOK
<1>4. /\ lock = [op |-> s.op, owner |-> "manager"] /\ lock # None /\ admitted
      /\ s.rev = 1 /\ RecordOK(s) /\ s.phase = "preparing"
      /\ state # None => state.op # s.op
  BY <1>3 DEF WorkflowOK, EarlyPcs, Unlocked
<1>5. state' = s /\ (state # None => Terminal(state))
  <2>1. Written(s) = s
    BY ONLY <1>3, <1>4 DEF Written, Records
  <2> QED
    BY <2>1, <1>2, <1>4 DEF CanWrite
<1>6. s.op \in used /\ ~Terminal(s) /\ ~s.ack
  BY <1>3, <1>4 DEF CopyOK, Terminal, TerminalPhases
<1>7. /\ pc'["workflow"] = "preparing" /\ snap'["workflow"] = s
      /\ \A y \in Processes \ {"workflow"} : pc'[y] = pc[y] /\ snap'[y] = snap[y]
  BY <1>1, <1>2, <1>5 DEF TypeOK
<1>8. TypeOK'
  <2>1. pc' \in [Processes -> Pcs] /\ snap' \in [Processes -> Records \cup {None}]
    BY <1>1, <1>2, <1>3, <1>5, TypedMove DEF Pcs, WorkflowPcs
  <2> QED
    BY <1>1, <1>2, <1>3, <1>5, <2>1 DEF TypeOK
<1>9. ActiveHoldsLock'
  BY <1>2, <1>4, <1>5 DEF ActiveHoldsLock, HoldsUpdateLock, LockIs, ReleaseOwners
<1>10. (state # None => RecordOK(state) /\ state.op \in used)'
  BY <1>2, <1>4, <1>5, <1>6 DEF RecordOK, Terminal
<1>11. ASSUME NEW y \in Processes PROVE ProcessOK(y, snap[y], pc[y])'
  <2>1. ProcessOK(y, snap[y], pc[y])
    BY DEF IInv
  <2>2. CASE y = "workflow"
    <3>1. CopyOK(snap[y])'
      BY <2>2, <1>2, <1>3, <1>5, <1>6, <1>7 DEF CopyOK, Records
    <3>2. WorkflowOK(snap[y], pc[y])'
      BY <2>2, <1>2, <1>3, <1>4, <1>5, <1>6, <1>7 DEF WorkflowOK, Terminal, EarlyPcs, WorkflowPcs
    <3> QED
      BY <2>2, <3>1, <3>2, <1>1, <1>7 DEF ProcessOK, ReleasingOK
  <2>3. CASE y # "workflow"
    <3>1. snap[y] # None => snap[y].op # s.op
      BY <2>3, <1>2 DEF IInv, NewOpUnknown, EarlyPcs
    <3> QED
      BY <2>1, <2>3, <3>1, <1>2, <1>3, <1>4, <1>5, <1>7
      DEF ProcessOK, CopyOK, RecordOK, HelperOK, ReconcilerOK, ReleasingOK, Terminal, HelperRunning
  <2> QED
    BY <2>2, <2>3
<1>12. NewOpUnknown'
  BY <1>7 DEF NewOpUnknown, EarlyPcs
<1>13. StartupAlone'
  BY <1>1, <1>2, <1>3, <1>5, <1>7 DEF IInv, StartupAlone, Processes
<1>14. AckStep
  BY <1>3, <1>4, <1>5 DEF AckStep
<1> QED
  BY <1>8, <1>9, <1>10, <1>11, <1>12, <1>13, <1>14 DEF IInv, Processes

\* The workflow's ways to end preserve the invariant.
LEMMA WorkflowEnds ==
    ASSUME IInv,
           \/ WfAbort \/ WfWriteRejected \/ WfWriteUncertain \/ WfFail \/ WfRelease
    PROVE  IInv' /\ AckStep
<1>1. "workflow" \in Processes /\ TypeOK
  BY DEF Processes, IInv
<1>2. pc["workflow"] # "idle" => snap["workflow"] \in Records /\ snap["workflow"] # None
         /\ WorkflowOK(snap["workflow"], pc["workflow"])
         /\ ReleasingOK(snap["workflow"], pc["workflow"])
  BY <1>1 DEF IInv, ProcessOK, WorkflowOK, TypeOK
<1>3. ASSUME Return("workflow"), state' \in Records \cup {None}, lock' \in Locks \cup {None},
             UNCHANGED <<used, admitted, booting, override, docker, bounds>>
      PROVE  TypeOK' /\ AdmissionMoves("workflow") /\ helper' = helper
  <2>1. AdmissionMoves("workflow") /\ helper' = helper
    BY <1>3 DEF AdmissionMoves, docker
  <2>2. pc' \in [Processes -> Pcs] /\ snap' \in [Processes -> Records \cup {None}]
    BY <1>1, <1>3, <2>1, ReturnMoves
  <2> QED
    BY <1>1, <1>3, <2>1, <2>2 DEF TypeOK, docker, bounds
<1>4. CASE WfAbort
  <2>1. pc["workflow"] # "idle" /\ snap["workflow"].op \in Ops
    BY <1>2, <1>4 DEF WfAbort, EarlyPcs, Records
  <2>2. state # None => state.op # snap["workflow"].op
    BY <1>2, <2>1, <1>4 DEF WfAbort, WorkflowOK
  <2>3. Return("workflow") /\ lock' = AfterRelease(snap["workflow"].op)
        /\ UNCHANGED <<state, used, admitted, booting, override, docker, bounds>>
    BY <1>4 DEF WfAbort
  <2>4. lock' \in Locks \cup {None} /\ state' \in Records \cup {None}
    BY <1>1, <2>3 DEF AfterRelease, TypeOK
  <2> QED
    BY <1>1, <1>3, <2>1, <2>2, <2>3, <2>4, UnlockStep
<1>5. CASE WfRelease
  <2>1. pc["workflow"] # "idle" /\ snap["workflow"].op \in Ops
    BY <1>2, <1>5 DEF WfRelease, Records
  <2>2. state # None /\ state.op = snap["workflow"].op => Terminal(state)
    BY <1>2, <2>1, <1>5 DEF WfRelease, ReleasingOK
  <2>3. Return("workflow") /\ lock' = AfterRelease(snap["workflow"].op)
        /\ UNCHANGED <<state, used, admitted, booting, override, docker, bounds>>
    BY <1>5 DEF WfRelease
  <2>4. lock' \in Locks \cup {None} /\ state' \in Records \cup {None}
    BY <1>1, <2>3 DEF AfterRelease, TypeOK
  <2> QED
    BY <1>1, <1>3, <2>1, <2>2, <2>3, <2>4, UnlockStep
<1>6. ASSUME Return("workflow"),
             UNCHANGED <<store, used, admitted, booting, override, docker, bounds>>
      PROVE  IInv' /\ AckStep
  <2>1. lock' \in Locks \cup {None} /\ state' \in Records \cup {None}
    BY <1>1, <1>6 DEF store, TypeOK
  <2> QED
    BY <1>1, <1>3, <1>6, <2>1, ReturnStep
<1>7. CASE WfWriteRejected
  BY <1>6, <1>7 DEF WfWriteRejected
<1>8. CASE WfWriteUncertain
  <2> DEFINE s == [snap["workflow"] EXCEPT !.phase = "uncertain"]
  <2>1. /\ pc["workflow"] = "start-failed" /\ CanWrite(snap["workflow"]) /\ state' = Written(s)
        /\ Return("workflow")
        /\ UNCHANGED <<lock, used, admitted, booting, override, docker, bounds>>
    BY <1>8 DEF WfWriteUncertain
  <2>2. /\ snap["workflow"] \in Records /\ snap["workflow"] # None
        /\ state # None /\ state.op = snap["workflow"].op
        /\ ~Terminal(snap["workflow"])
    BY <1>2, <2>1 DEF WorkflowOK, EarlyPcs, WorkflowPcs
  <2>3. Current(snap["workflow"]) /\ state.rev < MaxRev
    BY <2>1, <2>2 DEF CanWrite, Current
  <2>4. ~snap["workflow"].ack /\ state \in Records
    BY <1>1, <2>2, <2>3, AgreedCopy
  <2>5. Written(s) = [snap["workflow"] EXCEPT !.phase = "uncertain", !.rev = state.rev + 1]
    BY ONLY <2>2 DEF Written, Records
  <2>6. state' \in Records
    <3>1. state.rev + 1 \in 1..MaxRev /\ "uncertain" \in Phases
      BY <2>3, <2>4, MaxRevNat DEF Records, Phases, TerminalPhases
    <3>2. [snap["workflow"] EXCEPT !.phase = "uncertain", !.rev = state.rev + 1] \in Records
      BY ONLY <2>2, <3>1 DEF Records
    <3> QED
      BY <2>1, <2>5, <3>2
  <2>7. TypeOK' /\ AdmissionMoves("workflow") /\ helper' = helper
    BY <1>1, <1>3, <2>1, <2>6 DEF TypeOK
  <2> HIDE DEF s
  <2> QED
    BY <1>1, <2>1, <2>2, <2>3, <2>4, <2>5, <2>7, UncertainStep
<1>9. CASE WfFail
  <2>1. ASSUME NEW path \in {snap["workflow"].path, pc["workflow"] # "preparing"},
               Write("workflow",
                     [snap["workflow"] EXCEPT !.phase = "failed", !.path = path], "cleanup")
        PROVE  IInv' /\ AckStep
    <3> DEFINE s == [snap["workflow"] EXCEPT !.phase = "failed", !.path = path]
    <3>1. pc["workflow"] \notin EarlyPcs \cup {"idle", "cleanup", "release"}
      BY <1>9 DEF WfFail, EarlyPcs
    <3>2. snap["workflow"] \in Records /\ path \in BOOLEAN
      BY <1>2, <2>1, <3>1 DEF Records
    <3>3. /\ s \in Records /\ s.op = snap["workflow"].op /\ s.rev = snap["workflow"].rev
          /\ s.phase = "failed" /\ s.ack = snap["workflow"].ack
      BY ONLY <3>2 DEF Records, Phases, TerminalPhases
    <3>4. "cleanup" \in WorkflowPcs \ (EarlyPcs \cup {"release"})
      BY DEF WorkflowPcs, EarlyPcs
    <3>5. UNCHANGED <<lock, used, admitted, booting, override, docker, bounds>>
      BY <1>9 DEF WfFail
    <3>6. Write("workflow", s, "cleanup")
      BY <2>1
    <3> HIDE DEF s
    <3> QED
      BY <3>1, <3>3, <3>4, <3>5, <3>6, WorkflowWrite DEF Terminal, TerminalPhases
  <2> QED
    BY <1>6, <1>9, <2>1 DEF WfFail, store
<1> QED
  BY <1>4, <1>5, <1>7, <1>8, <1>9

\* Starting the helper, and hearing of it or not, preserves the invariant.
LEMMA HelperStarts ==
    ASSUME IInv, pc["workflow"] = "queued", StartedHelper,
           NEW l \in {"idle", "start-failed"},
           pc' = [pc EXCEPT !["workflow"] = l, !["helper"] = "read"],
           snap' = [snap EXCEPT !["workflow"] = IF l = "idle" THEN None ELSE snap["workflow"]],
           UNCHANGED <<store, used, admitted, booting, override, loaded, tag, container, bounds>>
    PROVE  IInv' /\ AckStep
<1> DEFINE s == snap["workflow"]
<1>1. /\ "workflow" \in Processes /\ "helper" \in Processes
      /\ "workflow" \notin Reconcilers /\ "helper" \notin Reconcilers /\ TypeOK
  BY ReconcilersApart DEF Processes, IInv
<1>2. ProcessOK("workflow", s, pc["workflow"]) /\ s \in Records /\ s # None
  BY <1>1 DEF IInv, ProcessOK, WorkflowOK, TypeOK
<1>3. helper' \in HelperContainers /\ HelperRunning' /\ pc["helper"] = "idle"
  <2>1. helper' \in HelperContainers /\ helper'.running
    BY <1>2 DEF StartedHelper, HelperContainers, Records
  <2>2. helper = None
    BY DEF StartedHelper
  <2> QED
    BY <2>1, <2>2, HelperAlive, NoneIsNoRecord DEF HelperRunning
<1>4. /\ pc'["workflow"] = l /\ pc'["helper"] = "read"
      /\ snap'["workflow"] = IF l = "idle" THEN None ELSE s
      /\ \A y \in Processes \ {"workflow"} : snap'[y] = snap[y]
      /\ \A y \in Processes \ {"workflow", "helper"} : pc'[y] = pc[y]
  BY <1>1 DEF TypeOK
<1>5. state' = state /\ lock' = lock
  BY DEF store
<1>6. TypeOK'
  <2>1. pc' \in [Processes -> Pcs]
    BY <1>1 DEF TypeOK, Pcs, WorkflowPcs, HelperPcs
  <2>2. snap' \in [Processes -> Records \cup {None}]
    BY <1>1, <1>2 DEF TypeOK
  <2> QED
    BY <1>1, <1>3, <1>5, <2>1, <2>2 DEF TypeOK, bounds
<1>7. ActiveHoldsLock'
  BY <1>5 DEF IInv, ActiveHoldsLock, Unresolved, HoldsUpdateLock, LockIs, Terminal
<1>8. (state # None => RecordOK(state) /\ state.op \in used)'
  BY <1>5 DEF IInv, RecordOK, Terminal
<1>9. ASSUME NEW y \in Processes PROVE ProcessOK(y, snap[y], pc[y])'
  <2>1. ProcessOK(y, snap[y], pc[y])
    BY DEF IInv
  <2>2. CASE y = "workflow"
    <3>1. CASE l = "idle"
      BY <2>2, <3>1, <1>1, <1>4, ReturnedOK
    <3>2. CASE l = "start-failed"
      <4>1. snap'[y] = snap[y] /\ pc'[y] = "start-failed"
        BY <2>2, <3>2, <1>4
      <4>2. WorkflowOK(snap[y], pc[y])'
        BY <2>2, <4>1, <1>2, <1>5 DEF ProcessOK, WorkflowOK, EarlyPcs, WorkflowPcs, Terminal
      <4> QED
        BY <2>1, <2>2, <4>1, <4>2, <1>1, <1>5 DEF ProcessOK, CopyOK, ReleasingOK, Terminal
    <3> QED
      BY <3>1, <3>2
  <2>3. CASE y = "helper"
    BY <2>1, <2>3, <1>1, <1>3, <1>4, <1>5
    DEF ProcessOK, CopyOK, RecordOK, HelperOK, ReleasingOK, Terminal, HelperPcs
  <2>4. CASE y \notin {"workflow", "helper"}
    <3>1. pc'[y] = pc[y] /\ snap'[y] = snap[y]
      BY <2>4, <1>4
    <3>2. (snap[y] # None => CopyOK(snap[y]) /\ RecordOK(snap[y]))'
      BY <2>1, <2>4, <3>1, <1>5 DEF ProcessOK, CopyOK, RecordOK, Terminal
    <3>3. (y \in Reconcilers => ReconcilerOK(snap[y], pc[y]))'
      BY <2>1, <3>1, <1>5 DEF ProcessOK, ReconcilerOK
    <3>4. (y # "prune" => ReleasingOK(snap[y], pc[y]))'
      BY <2>1, <3>1, <1>5 DEF ProcessOK, ReleasingOK, Terminal
    <3> QED
      BY <2>1, <2>4, <3>1, <3>2, <3>3, <3>4 DEF ProcessOK, Terminal
  <2> QED
    BY <2>2, <2>3, <2>4
<1>10. NewOpUnknown'
  BY <1>4 DEF NewOpUnknown, EarlyPcs
<1>11. StartupAlone'
  BY <1>1, <1>4, <1>5 DEF IInv, StartupAlone, Processes
<1>12. AckStep
  BY <1>5 DEF AckStep
<1> QED
  BY <1>6, <1>7, <1>8, <1>9, <1>10, <1>11, <1>12 DEF IInv, Processes

\* Every step of the workflow preserves the invariant.
LEMMA WorkflowSafe ==
    ASSUME IInv, Workflow
    PROVE  IInv' /\ AckStep
<1>1. CASE WfStartHelper
  <2>1. snap' = [snap EXCEPT !["workflow"] = IF "idle" = "idle" THEN None ELSE snap["workflow"]]
    BY <1>1 DEF WfStartHelper, Keep
  <2> QED
    BY <1>1, <2>1, HelperStarts DEF WfStartHelper
<1>2. CASE WfStartHelperError
  <2>0. "workflow" \in Processes /\ TypeOK
    BY DEF Processes, IInv
  <2>1. CASE StartedHelper /\ pc' = [pc EXCEPT !["workflow"] = "start-failed", !["helper"] = "read"]
    <3>1. snap' = [snap EXCEPT !["workflow"] = IF "start-failed" = "idle" THEN None ELSE snap["workflow"]]
      BY <1>2, <2>0 DEF WfStartHelperError, TypeOK
    <3> QED
      BY <1>2, <2>1, <3>1, HelperStarts DEF WfStartHelperError
  <2>2. CASE Goto("workflow", "start-failed") /\ UNCHANGED helper
    <3> USE <1>2, <2>2 DEF WfStartHelperError, Goto, store, bounds
    <3>1. snap["workflow"] # None
      BY <2>0 DEF IInv, ProcessOK, WorkflowOK
    <3>2. TypeOK'
      BY <2>0 DEF TypeOK, Pcs, WorkflowPcs
    <3>3. Moves("workflow")
      BY <2>0, HelperAlive, ReconcilersApart DEF TypeOK, Moves, EarlyPcs, HelperRunning
    <3>4. WorkflowGoesOn
      BY <2>0, <3>1 DEF TypeOK, WorkflowGoesOn, EarlyPcs, WorkflowPcs
    <3> QED
      BY <2>0, <3>2, <3>3, <3>4, WorkflowKeeps, LocalStep
  <2> QED
    BY <1>2, <2>1, <2>2 DEF WfStartHelperError
<1> QED
  BY <1>1, <1>2, WorkflowAcquires, WorkflowPrepares, WorkflowEnds, WorkflowLocal, WorkflowWrites
  DEF Workflow, WorkflowStep

\* The helper moves on with the same copy.
LEMMA HelperGoes ==
    ASSUME IInv, NEW l \in HelperPcs \ {"read"}, Goto("helper", l),
           pc["helper"] \notin {"idle", "read"},
           pc["helper"] \in {"cleanup", "release"} <=> l \in {"cleanup", "release"},
           UNCHANGED <<store, snap, used, admitted, booting, helper>>, TypeOK'
    PROVE  IInv' /\ AckStep
<1>1. "helper" \in Processes /\ "helper" \notin Reconcilers /\ TypeOK
  BY ReconcilersApart DEF Processes, IInv
<1>2. ProcessOK("helper", snap["helper"], pc["helper"])
  BY <1>1 DEF IInv
<1>3. pc'["helper"] = l
  BY <1>1 DEF TypeOK, Goto
<1>4. Moves("helper")
  BY <1>1 DEF Moves, Goto, TypeOK
<1>5. ProcessOK("helper", snap["helper"], pc["helper"])'
  <2>1. HelperOK(snap["helper"], pc["helper"])'
    BY <1>2, <1>3 DEF ProcessOK, HelperOK, HelperRunning, HelperPcs, Terminal
  <2>2. ReleasingOK(snap["helper"], pc["helper"])'
    BY <1>2, <1>3 DEF ProcessOK, ReleasingOK, store, Terminal
  <2>3. CopyOK(snap["helper"])' /\ RecordOK(snap["helper"])'
    BY <1>2 DEF ProcessOK, HelperOK, CopyOK, RecordOK, store, Terminal
  <2> QED
    BY <2>1, <2>2, <2>3, <1>1 DEF ProcessOK
<1> QED
  BY <1>1, <1>4, <1>5, LocalStep

\* The helper's checks and Docker calls preserve the invariant.
LEMMA HelperLocal ==
    ASSUME IInv,
           \/ HpInspect \/ HpWriteOverride \/ HpConfig \/ HpTag \/ HpReinspect \/ HpHealth
           \/ Cleanup("helper")
    PROVE  IInv' /\ AckStep
<1>1. "helper" \in Processes /\ TypeOK
  BY DEF Processes, IInv
<1>2. pc["helper"] \notin {"idle", "read"} => snap["helper"] \in Records
  BY <1>1 DEF IInv, ProcessOK, HelperOK, TypeOK
<1>3. CASE HpInspect
  <2>1. TypeOK'
    BY <1>1, <1>2, <1>3 DEF HpInspect, Goto, HelperUnchanged, TypeOK, Pcs, HelperPcs, store, docker, bounds, Records
  <2>2. PICK l \in HelperPcs \ {"read"} :
          /\ Goto("helper", l) /\ pc["helper"] \notin {"idle", "read"}
          /\ pc["helper"] \in {"cleanup", "release"} <=> l \in {"cleanup", "release"}
    BY <1>3 DEF HpInspect, HelperPcs
  <2> QED
    BY <1>3, <2>1, <2>2, HelperGoes DEF HpInspect, HelperUnchanged, docker
<1>4. CASE HpWriteOverride
  <2>1. TypeOK'
    BY <1>1, <1>2, <1>4 DEF HpWriteOverride, Goto, HelperUnchanged, TypeOK, Pcs, HelperPcs, store, docker, bounds, Records
  <2>2. PICK l \in HelperPcs \ {"read"} :
          /\ Goto("helper", l) /\ pc["helper"] \notin {"idle", "read"}
          /\ pc["helper"] \in {"cleanup", "release"} <=> l \in {"cleanup", "release"}
    BY <1>4 DEF HpWriteOverride, HelperPcs
  <2> QED
    BY <1>4, <2>1, <2>2, HelperGoes DEF HpWriteOverride, HelperUnchanged, docker
<1>5. CASE HpConfig
  <2>1. TypeOK'
    BY <1>1, <1>2, <1>5 DEF HpConfig, Goto, HelperUnchanged, TypeOK, Pcs, HelperPcs, store, docker, bounds, Records
  <2>2. PICK l \in HelperPcs \ {"read"} :
          /\ Goto("helper", l) /\ pc["helper"] \notin {"idle", "read"}
          /\ pc["helper"] \in {"cleanup", "release"} <=> l \in {"cleanup", "release"}
    BY <1>5 DEF HpConfig, HelperPcs
  <2> QED
    BY <1>5, <2>1, <2>2, HelperGoes DEF HpConfig, HelperUnchanged, docker
<1>6. CASE HpTag
  <2>1. TypeOK'
    BY <1>1, <1>2, <1>6 DEF HpTag, Goto, HelperUnchanged, TypeOK, Pcs, HelperPcs, store, docker, bounds, Records
  <2>2. PICK l \in HelperPcs \ {"read"} :
          /\ Goto("helper", l) /\ pc["helper"] \notin {"idle", "read"}
          /\ pc["helper"] \in {"cleanup", "release"} <=> l \in {"cleanup", "release"}
    BY <1>6 DEF HpTag, HelperPcs
  <2> QED
    BY <1>6, <2>1, <2>2, HelperGoes DEF HpTag, HelperUnchanged, docker
<1>7. CASE HpReinspect
  <2>1. TypeOK'
    BY <1>1, <1>2, <1>7 DEF HpReinspect, Goto, HelperUnchanged, TypeOK, Pcs, HelperPcs, store, docker, bounds, Records
  <2>2. PICK l \in HelperPcs \ {"read"} :
          /\ Goto("helper", l) /\ pc["helper"] \notin {"idle", "read"}
          /\ pc["helper"] \in {"cleanup", "release"} <=> l \in {"cleanup", "release"}
    BY <1>7 DEF HpReinspect, HelperPcs
  <2> QED
    BY <1>7, <2>1, <2>2, HelperGoes DEF HpReinspect, HelperUnchanged, docker
<1>8. CASE HpHealth
  <2>1. TypeOK'
    BY <1>1, <1>2, <1>8 DEF HpHealth, Goto, HelperUnchanged, TypeOK, Pcs, HelperPcs, store, docker, bounds, Records
  <2>2. PICK l \in HelperPcs \ {"read"} :
          /\ Goto("helper", l) /\ pc["helper"] \notin {"idle", "read"}
          /\ pc["helper"] \in {"cleanup", "release"} <=> l \in {"cleanup", "release"}
    BY <1>8 DEF HpHealth, HelperPcs
  <2> QED
    BY <1>8, <2>1, <2>2, HelperGoes DEF HpHealth, HelperUnchanged, docker
<1>9. CASE Cleanup("helper")
  <2>1. TypeOK'
    BY <1>1, <1>2, <1>9 DEF Cleanup, Goto, HelperUnchanged, TypeOK, Pcs, HelperPcs, store, docker, bounds, Records, AfterCleanup
  <2>2. PICK l \in HelperPcs \ {"read"} :
          /\ Goto("helper", l) /\ pc["helper"] \notin {"idle", "read"}
          /\ pc["helper"] \in {"cleanup", "release"} <=> l \in {"cleanup", "release"}
    BY <1>9 DEF Cleanup, HelperPcs
  <2> QED
    BY <1>9, <2>1, <2>2, HelperGoes DEF Cleanup, HelperUnchanged, docker
<1> QED
  BY <1>3, <1>4, <1>5, <1>6, <1>7, <1>8, <1>9

\* What is known of the helper while it works on its copy.
LEMMA HelperFacts ==
    ASSUME IInv, pc["helper"] \notin {"idle", "read"}
    PROVE  /\ snap["helper"] \in Records /\ snap["helper"] # None /\ snap["helper"].rev >= 2
           /\ pc["helper"] \notin {"cleanup", "release"}
                => ~Terminal(snap["helper"]) /\ ~snap["helper"].ack
           /\ ReleasingOK(snap["helper"], pc["helper"])
BY DEF IInv, ProcessOK, HelperOK, CopyOK, TypeOK, Processes

\* The helper's process ends.
LEMMA HelperExits ==
    ASSUME IInv, HelperExit, pc["helper"] # "idle",
           state' \in Records \cup {None}, lock' \in Locks \cup {None},
           UNCHANGED <<used, admitted, booting, override, loaded, tag, container>>,
           crashes' \in Nat, manual' \in Nat
    PROVE  /\ "helper" \in Processes /\ Return("helper")
           /\ AdmissionMoves("helper") /\ TypeOK'
<1>1. "helper" \in Processes /\ TypeOK /\ Return("helper") /\ AdmissionMoves("helper")
  BY DEF Processes, IInv, HelperExit, AdmissionMoves
<1>2. pc' \in [Processes -> Pcs] /\ snap' \in [Processes -> Records \cup {None}]
  BY <1>1, ReturnMoves
<1>3. helper' \in HelperContainers
  BY <1>1, HelperAlive DEF HelperExit, HelperRunning, TypeOK, HelperContainers
<1> QED
  BY <1>1, <1>2, <1>3 DEF TypeOK

\* Ending without touching the store preserves the invariant.
LEMMA HelperQuits ==
    ASSUME IInv, HelperExit, pc["helper"] # "idle",
           UNCHANGED <<store, used, admitted, booting, override, loaded, tag, container>>,
           crashes' \in Nat, manual' \in Nat
    PROVE  IInv' /\ AckStep
<1>1. state' \in Records \cup {None} /\ lock' \in Locks \cup {None}
  BY DEF IInv, TypeOK, store
<1> QED
  BY <1>1, HelperExits, ReturnStep DEF IInv, TypeOK

\* A write of the helper.
LEMMA HelperWrite ==
    ASSUME IInv, NEW p \in Phases, NEW l \in HelperPcs \ {"read", "release"},
           pc["helper"] \notin {"idle", "read", "cleanup", "release"},
           p \in TerminalPhases <=> l = "cleanup",
           Write("helper", [snap["helper"] EXCEPT !.phase = p], l), UNCHANGED helper,
           UNCHANGED <<lock, override, loaded, tag, container>>, HelperUnchanged
    PROVE  IInv' /\ AckStep
<1> DEFINE s == [snap["helper"] EXCEPT !.phase = p]
<1>1. /\ "helper" \in Processes \ {"prune"} /\ "helper" \notin Reconcilers
      /\ snap["helper"] \in Records /\ snap["helper"] # None /\ snap["helper"].rev >= 2
      /\ ~Terminal(snap["helper"]) /\ ~snap["helper"].ack
  BY HelperFacts, ReconcilersApart DEF Processes
<1>2. /\ s \in Records /\ s.op = snap["helper"].op /\ s.rev = snap["helper"].rev
      /\ s.phase = p /\ s.ack = snap["helper"].ack
  BY ONLY <1>1, p \in Phases DEF Records
<1>3. Write("helper", s, l)
  OBVIOUS
<1> HIDE DEF s
<1>4. /\ Current(snap["helper"]) /\ state.rev < MaxRev
      /\ Written(s) = [s EXCEPT !.rev = state.rev + 1]
  BY <1>1, <1>2, <1>3, OwnWrite DEF Write
<1>5. WriterGoes("helper", s, l)
  BY <1>1, <1>2 DEF WriterGoes, Terminal
<1>6. state' = [s EXCEPT !.rev = state.rev + 1] /\ snap' = [snap EXCEPT !["helper"] = state']
      /\ pc' = [pc EXCEPT !["helper"] = l]
  BY <1>3, <1>4 DEF Write, Keep, Goto
<1>7. l \in Pcs /\ UNCHANGED <<lock, used, admitted, booting, override, docker, bounds>>
  BY DEF Pcs, HelperUnchanged, docker
<1> QED
  BY <1>1, <1>2, <1>4, <1>5, <1>6, <1>7, WriteStep

\* The helper's writes preserve the invariant, rejected ones included.
LEMMA HelperWrites ==
    ASSUME IInv,
           \/ HpFail \/ HpWrite("recreating", "recreating", "relock")
           \/ HpWrite("verifying", "verifying", "health")
           \/ HpWrite("complete", "complete", "cleanup")
    PROVE  IInv' /\ AckStep
<1>1. PICK p \in {"failed", "recreating", "verifying", "complete"},
           l \in {"relock", "health", "cleanup"} :
        /\ pc["helper"] \in {"fail", "recreating", "verifying", "complete"}
        /\ p \in {"failed", "complete"} <=> l = "cleanup"
        /\ \/ Write("helper", [snap["helper"] EXCEPT !.phase = p], l) /\ UNCHANGED helper
           \/ HelperExit /\ UNCHANGED state
        /\ UNCHANGED <<lock, override, loaded, tag, container>> /\ HelperUnchanged
  BY DEF HpFail, HpWrite
<1>2. CASE Write("helper", [snap["helper"] EXCEPT !.phase = p], l) /\ UNCHANGED helper
  <2>1. p \in Phases /\ l \in HelperPcs \ {"read", "release"} /\ (p \in TerminalPhases <=> l = "cleanup")
    BY <1>1 DEF Phases, HelperPcs, TerminalPhases, HelperPhases
  <2>2. pc["helper"] \notin {"idle", "read", "cleanup", "release"}
    BY <1>1
  <2> QED
    BY <1>1, <1>2, <2>1, <2>2, HelperWrite
<1>3. CASE HelperExit /\ UNCHANGED state
  <2>1. crashes' \in Nat /\ manual' \in Nat
    BY <1>1 DEF HelperUnchanged, bounds, IInv, TypeOK
  <2> QED
    BY <1>1, <1>3, <2>1, HelperQuits DEF HelperUnchanged, store
<1> QED
  BY <1>1, <1>2, <1>3

\* The helper's other exits preserve the invariant.
LEMMA HelperEnds ==
    ASSUME IInv,
           \/ HpRead \/ HpRequireLock("check", "inspect") \/ HpRequireLock("relock", "tag")
           \/ HpUncertain(UncertainPcs) \/ HpRelease \/ HelperCrash
    PROVE  IInv' /\ AckStep
<1>1. /\ "helper" \in Processes /\ "helper" \notin Reconcilers /\ TypeOK
      /\ crashes \in Nat /\ manual \in Nat
  BY ReconcilersApart DEF Processes, IInv, TypeOK
<1>2. CASE HelperCrash
  BY <1>1, <1>2, HelperQuits DEF HelperCrash
<1>3. ASSUME NEW from \in {"check", "relock"}, NEW to \in {"inspect", "tag"},
             HpRequireLock(from, to)
      PROVE  IInv' /\ AckStep
  <2>1. CASE HelperExit
    BY <1>1, <1>3, <2>1, HelperQuits DEF HpRequireLock, HelperUnchanged, bounds
  <2>2. CASE Goto("helper", to) /\ UNCHANGED <<snap, helper>>
    <3>1. TypeOK'
      BY <1>1, <1>3, <2>2 DEF TypeOK, HpRequireLock, HelperUnchanged, bounds, store, Goto, Pcs, HelperPcs
    <3>2. to \in HelperPcs \ {"read"} /\ to \notin {"cleanup", "release"}
      BY DEF HelperPcs
    <3> QED
      BY <1>3, <2>2, <3>1, <3>2, HelperGoes DEF HpRequireLock, HelperUnchanged
  <2> QED
    BY <1>3, <2>1, <2>2 DEF HpRequireLock
<1>4. CASE HpRead
  <2>1. CASE HelperExit
    BY <1>1, <1>4, <2>1, HelperQuits DEF HpRead, HelperUnchanged, bounds
  <2>2. CASE /\ state # None /\ state.phase = "restart-queued"
             /\ Keep("helper", state) /\ Goto("helper", "check") /\ UNCHANGED helper
    <3>1. state \in Records /\ RecordOK(state) /\ state.op \in used /\ ~Terminal(state)
      BY <1>1, <2>2 DEF IInv, TypeOK, Terminal, TerminalPhases
    <3>2. /\ UNCHANGED <<store, used, admitted, booting, override, loaded, tag, container,
                         helper, crashes, manual>>
          /\ pc' = [pc EXCEPT !["helper"] = "check"] /\ snap' = [snap EXCEPT !["helper"] = state]
          /\ pc["helper"] = "read"
      BY <1>4, <2>2 DEF HpRead, HelperUnchanged, bounds, Keep, Goto
    <3>3. pc'["helper"] = "check" /\ snap'["helper"] = state
      BY <1>1, <3>2 DEF TypeOK
    <3>4. TypeOK'
      <4>1. pc' \in [Processes -> Pcs] /\ snap' \in [Processes -> Records \cup {None}]
        BY <1>1, <3>1, <3>2, TypedMove DEF Pcs, HelperPcs
      <4> QED
        BY <1>1, <3>2, <4>1 DEF TypeOK, store
    <3>5. Moves("helper")
      BY <1>1, <2>2, <3>2, <3>3 DEF Moves, TypeOK, store
    <3>6. ProcessOK("helper", snap["helper"], pc["helper"])'
      <4>1. CopyOK(snap["helper"])' /\ RecordOK(snap["helper"])'
        BY <3>1, <3>2, <3>3 DEF CopyOK, RecordOK, store, Terminal, Records
      <4>2. state.rev >= 2
        BY <2>2, <3>1 DEF RecordOK, Records
      <4>3. HelperOK(snap["helper"], pc["helper"])'
        BY <2>2, <3>1, <3>2, <3>3, <4>2, HelperAlive DEF HelperOK, HelperPcs, HelperRunning, Terminal
      <4> QED
        BY <1>1, <3>3, <4>1, <4>3 DEF ProcessOK, ReleasingOK
    <3> QED
      BY <1>1, <3>2, <3>4, <3>5, <3>6, LocalStep
  <2> QED
    BY <1>4, <2>1, <2>2 DEF HpRead
<1>5. CASE HpRelease
  <2>1. /\ HelperExit /\ pc["helper"] = "release" /\ lock' = AfterRelease(snap["helper"].op)
        /\ UNCHANGED <<state, override, loaded, tag, container, used, admitted, booting>>
        /\ crashes' \in Nat /\ manual' \in Nat
    BY <1>1, <1>5 DEF HpRelease, HelperUnchanged, bounds
  <2>2. snap["helper"] \in Records /\ snap["helper"] # None
        /\ (state # None /\ state.op = snap["helper"].op => Terminal(state))
    BY <2>1, HelperFacts DEF ReleasingOK
  <2>3. lock' \in Locks \cup {None} /\ state' \in Records \cup {None} /\ snap["helper"].op \in Ops
    BY <1>1, <2>1, <2>2 DEF AfterRelease, TypeOK, Records
  <2>4. pc["workflow"] \in EarlyPcs => snap["workflow"].op # snap["helper"].op
    BY <1>1, <2>2 DEF IInv, NewOpUnknown
  <2>5. Return("helper") /\ AdmissionMoves("helper") /\ TypeOK'
    BY <2>1, <2>3, HelperExits
  <2> QED
    BY <1>1, <2>1, <2>2, <2>3, <2>4, <2>5, UnlockStep
<1>6. CASE HpUncertain(UncertainPcs)
  <2>1. /\ HelperExit /\ pc["helper"] \in UncertainPcs
        /\ UNCHANGED <<lock, override, loaded, tag, container, used, admitted, booting>>
        /\ crashes' \in Nat /\ manual' \in Nat
    BY <1>1, <1>6 DEF HpUncertain, HelperUnchanged, bounds
  <2>2. CASE ~CanWrite(snap["helper"])
    BY <1>6, <2>1, <2>2, HelperQuits DEF HpUncertain, UncertainPcs, store
  <2>3. CASE CanWrite(snap["helper"])
    <3>1. state' = Written([snap["helper"] EXCEPT !.phase = "uncertain"])
      BY <1>6, <2>3 DEF HpUncertain
    <3>2. /\ snap["helper"] \in Records /\ snap["helper"] # None /\ snap["helper"].rev >= 2
          /\ ~snap["helper"].ack
      BY <2>1, HelperFacts DEF UncertainPcs
    <3>3. Current(snap["helper"]) /\ state.rev < MaxRev
      BY <2>3, <3>2 DEF CanWrite, Current, Records
    <3>4. state \in Records /\ state # None /\ state.op = snap["helper"].op
      BY <1>1, <3>2, <3>3, AgreedCopy
    <3>5. Written([snap["helper"] EXCEPT !.phase = "uncertain"])
            = [snap["helper"] EXCEPT !.phase = "uncertain", !.rev = state.rev + 1]
      BY ONLY <3>2, <3>4 DEF Written, Records
    <3>6. state' \in Records
      <4>1. state.rev + 1 \in 1..MaxRev /\ "uncertain" \in Phases
        BY <3>3, <3>4, MaxRevNat DEF Records, Phases, TerminalPhases
      <4>2. [snap["helper"] EXCEPT !.phase = "uncertain", !.rev = state.rev + 1] \in Records
        BY ONLY <3>2, <4>1 DEF Records
      <4> QED
        BY <3>1, <3>5, <4>2
    <3>7. Return("helper") /\ AdmissionMoves("helper") /\ TypeOK'
      BY <1>1, <2>1, <3>6, HelperExits DEF TypeOK, UncertainPcs
    <3> QED
      BY <1>1, <2>1, <3>1, <3>2, <3>3, <3>5, <3>7, UncertainStep
  <2> QED
    BY <2>2, <2>3
<1> QED
  BY <1>2, <1>3, <1>4, <1>5, <1>6

\* The manager's processes end and the next one starts over.
LEMMA RestartStep ==
    ASSUME IInv, NEW l \in Pcs, ManagerRestarts([pc EXCEPT !["helper"] = l], snap),
           l = pc["helper"] \/ (pc["helper"] = "recreate" /\ l \in {"reinspect", "lost"}),
           UNCHANGED <<store, used, helper>>, TypeOK'
    PROVE  IInv' /\ AckStep
<1>1. /\ "helper" \in Processes /\ "workflow" \in Processes /\ "operator" \in Processes
      /\ "helper" \notin Reconcilers /\ "operator" \notin Reconcilers /\ TypeOK
      /\ Reconcilers \subseteq Processes
  BY ReconcilersApart DEF Processes, IInv
<1>2. /\ pc'["helper"] = l /\ snap'["helper"] = snap["helper"]
      /\ pc'["operator"] = pc["operator"] /\ snap'["operator"] = snap["operator"]
      /\ \A y \in Processes \ {"helper", "operator"} : pc'[y] = "idle" /\ snap'[y] = None
      /\ ~admitted' /\ booting'
  BY <1>1 DEF ManagerRestarts, TypeOK
<1>3. state' = state /\ lock' = lock
  BY DEF store
<1>4. ActiveHoldsLock' /\ (state # None => RecordOK(state) /\ state.op \in used)'
  BY <1>3 DEF IInv, ActiveHoldsLock, Unresolved, HoldsUpdateLock, LockIs, RecordOK, Terminal
<1>5. ASSUME NEW y \in Processes PROVE ProcessOK(y, snap[y], pc[y])'
  <2>1. ProcessOK(y, snap[y], pc[y])
    BY DEF IInv
  <2>2. CASE y = "helper"
    <3>1. (snap[y] # None => CopyOK(snap[y]) /\ RecordOK(snap[y]))'
      BY <2>1, <2>2, <1>2, <1>3 DEF ProcessOK, CopyOK, RecordOK, Terminal
    <3>2. HelperOK(snap[y], pc[y])'
      BY <2>1, <2>2, <1>2 DEF ProcessOK, HelperOK, HelperPcs, HelperRunning, Terminal
    <3>3. ReleasingOK(snap[y], pc[y])'
      BY <2>1, <2>2, <1>2, <1>3 DEF ProcessOK, ReleasingOK, Terminal
    <3> QED
      BY <2>2, <1>1, <3>1, <3>2, <3>3 DEF ProcessOK
  <2>3. CASE y = "operator"
    BY <2>1, <2>3, <1>1, <1>2, <1>3 DEF ProcessOK, CopyOK, RecordOK, ReleasingOK, Terminal
  <2>4. CASE y \notin {"helper", "operator"}
    BY <2>4, <1>2, ReturnedOK
  <2> QED
    BY <2>2, <2>3, <2>4
<1>6. NewOpUnknown' /\ StartupAlone'
  BY <1>1, <1>2, ReconcilersApart DEF NewOpUnknown, StartupAlone, EarlyPcs
<1>7. AckStep
  BY <1>3 DEF AckStep
<1> QED
  BY <1>4, <1>5, <1>6, <1>7 DEF IInv, Processes

\* Recreating the container, a crash of the manager and a deployment by hand
\* restart the manager and preserve the invariant.
LEMMA RestartsSafe ==
    ASSUME IInv,
           \/ HpRecreate \/ HpRecreateError \/ ManagerCrash
           \/ \E i \in Images : ManualDeploy(i)
    PROVE  IInv' /\ AckStep
<1>1. "helper" \in Processes /\ TypeOK /\ pc = [pc EXCEPT !["helper"] = pc["helper"]]
      /\ pc["helper"] \in Pcs /\ "lost" \in Pcs /\ "reinspect" \in Pcs
  BY DEF Processes, IInv, TypeOK, Pcs, HelperPcs
<1>2. ASSUME NEW l \in Pcs, ManagerRestarts([pc EXCEPT !["helper"] = l], snap)
      PROVE  /\ pc' \in [Processes -> Pcs] /\ snap' \in [Processes -> Records \cup {None}]
             /\ admitted' \in BOOLEAN /\ booting' \in BOOLEAN
  BY <1>1, <1>2 DEF ManagerRestarts, TypeOK, Pcs
<1>3. CASE HpRecreate
  <2>1. ManagerRestarts([pc EXCEPT !["helper"] = "reinspect"], snap)
        /\ UNCHANGED <<store, used, override, loaded, tag, helper, bounds>>
        /\ pc["helper"] = "recreate"
    BY <1>3 DEF HpRecreate
  <2>2. container' \in [image : Images \cup {None}, running : BOOLEAN]
    BY <1>1, <1>3 DEF HpRecreate, TypeOK
  <2>3. TypeOK'
    BY <1>1, <1>2, <2>1, <2>2 DEF TypeOK, store, bounds
  <2> QED
    BY <1>1, <2>1, <2>3, RestartStep
<1>4. CASE HpRecreateError
  <2>1. /\ pc["helper"] = "recreate"
        /\ UNCHANGED <<store, used, override, loaded, tag, helper, bounds>>
    BY <1>4 DEF HpRecreateError
  <2>2. CASE Goto("helper", "lost") /\ UNCHANGED <<snap, admitted, booting, container>>
    <3>1. TypeOK'
      BY <1>1, <2>1, <2>2 DEF TypeOK, Goto, store, bounds
    <3>2. "lost" \in HelperPcs \ {"read"}
      BY DEF HelperPcs
    <3> QED
      BY <2>1, <2>2, <3>1, <3>2, HelperGoes
  <2>3. CASE /\ container' \in {[image |-> None, running |-> FALSE],
                                [image |-> override, running |-> TRUE]}
             /\ ManagerRestarts([pc EXCEPT !["helper"] = "lost"], snap)
    <3>1. container' \in [image : Images \cup {None}, running : BOOLEAN]
      <4>1. override \in Images \cup {None}
        BY <1>1 DEF TypeOK
      <4>2. \/ container' = [image |-> None, running |-> FALSE]
            \/ container' = [image |-> override, running |-> TRUE]
        BY <2>3
      <4>3. CASE container' = [image |-> None, running |-> FALSE]
        BY ONLY <4>3
      <4>4. CASE container' = [image |-> override, running |-> TRUE]
        BY ONLY <4>1, <4>4
      <4> QED
        BY <4>2, <4>3, <4>4
    <3>2. TypeOK'
      BY <1>1, <1>2, <2>1, <2>3, <3>1 DEF TypeOK, store, bounds
    <3> QED
      BY <1>1, <2>1, <2>3, <3>2, RestartStep
  <2> QED
    BY <1>4, <2>2, <2>3 DEF HpRecreateError
<1>5. CASE ManagerCrash
  <2>1. ManagerRestarts([pc EXCEPT !["helper"] = pc["helper"]], snap)
        /\ UNCHANGED <<store, used, override, docker, manual>> /\ crashes' = crashes + 1
    BY <1>1, <1>5 DEF ManagerCrash
  <2>2. TypeOK'
    <3>1. /\ pc' \in [Processes -> Pcs] /\ snap' \in [Processes -> Records \cup {None}]
          /\ admitted' \in BOOLEAN /\ booting' \in BOOLEAN
      BY <1>1, <1>2, <2>1
    <3> QED
      BY <1>1, <2>1, <3>1 DEF TypeOK, store, docker
  <2> QED
    BY <1>1, <2>1, <2>2, RestartStep DEF docker
<1>6. ASSUME NEW i \in Images, ManualDeploy(i)
      PROVE  IInv' /\ AckStep
  <2>1. ManagerRestarts([pc EXCEPT !["helper"] = pc["helper"]], snap)
        /\ UNCHANGED <<store, used, override, loaded, helper, crashes>> /\ manual' = manual + 1
        /\ container' = [image |-> i, running |-> TRUE] /\ tag' \in {tag, i}
    BY <1>1, <1>6 DEF ManualDeploy
  <2>2. container' \in [image : Images \cup {None}, running : BOOLEAN]
    BY <2>1
  <2>3. TypeOK'
    <3>1. /\ pc' \in [Processes -> Pcs] /\ snap' \in [Processes -> Records \cup {None}]
          /\ admitted' \in BOOLEAN /\ booting' \in BOOLEAN
      BY <1>1, <1>2, <2>1
    <3> QED
      BY <1>1, <2>1, <2>2, <3>1 DEF TypeOK, store
  <2> QED
    BY <1>1, <2>1, <2>3, RestartStep
<1> QED
  BY <1>3, <1>4, <1>5, <1>6

\* Every step of the helper preserves the invariant.
LEMMA HelperSafe ==
    ASSUME IInv, HelperProcess \/ HelperCrash
    PROVE  IInv' /\ AckStep
BY HelperLocal, HelperWrites, HelperEnds, RestartsSafe DEF HelperProcess

-----------------------------------------------------------------------------
\* A reconciler moves on with its copy, and knows at the new place what the
\* invariant asks for there.
LEMMA ReconcilerGoes ==
    ASSUME IInv, NEW r \in Reconcilers, NEW l \in ReconcilePcs \ {"request", "orphan", "unlock"},
           Goto(r, l), pc[r] \notin {"idle", "request", "orphan", "unlock"},
           UNCHANGED <<store, snap, used, admitted, booting, helper>>, TypeOK',
           l \in {"current-complete", "complete", "current-failed", "failed"}
              => snap[r].rev >= 2 /\ ~snap[r].ack,
           l = "probe" => ~snap[r].ack,
           l = "current-cleanup" => snap[r].phase = "failed",
           l \in {"cleanup", "release"}
              => (state # None /\ state.op = snap[r].op => Terminal(state))
    PROVE  IInv' /\ AckStep
<1>1. r \in Processes /\ r \notin {"workflow", "helper", "operator", "prune"} /\ TypeOK
  BY ReconcilersApart DEF Processes, IInv
<1>2. ProcessOK(r, snap[r], pc[r]) /\ snap[r] # None
  BY <1>1 DEF IInv, ProcessOK, ReconcilerOK
<1>3. pc'[r] = l /\ l # "idle"
  BY <1>1 DEF TypeOK, Goto, ReconcilePcs
<1>4. Moves(r)
  BY <1>1, <1>3, HelperAlive DEF Moves, Goto, TypeOK, HelperRunning
<1>5. ProcessOK(r, snap[r], pc[r])'
  <2>1. ReconcilerOK(snap[r], pc[r])'
    BY <1>2, <1>3 DEF ReconcilerOK
  <2>2. ReleasingOK(snap[r], pc[r])'
    BY <1>2, <1>3 DEF ReleasingOK, store, Terminal
  <2>3. CopyOK(snap[r])' /\ RecordOK(snap[r])'
    BY <1>1, <1>2 DEF ProcessOK, CopyOK, RecordOK, store, Terminal
  <2> QED
    BY <2>1, <2>2, <2>3, <1>1 DEF ProcessOK
<1> QED
  BY <1>1, <1>4, <1>5, LocalStep

\* What is known of a reconciler that has read the record.
LEMMA ReconcilerFacts ==
    ASSUME IInv, NEW r \in Reconcilers
    PROVE  /\ r \in Processes /\ r \notin {"workflow", "helper", "operator", "prune"}
           /\ ReconcilerOK(snap[r], pc[r]) /\ ReleasingOK(snap[r], pc[r])
           /\ pc[r] \notin {"idle", "request", "orphan", "unlock"}
                => /\ snap[r] \in Records /\ snap[r] # None /\ RecordOK(snap[r])
                   /\ CopyOK(snap[r])
<1>1. r \in Processes /\ r \notin {"workflow", "helper", "operator", "prune"} /\ TypeOK
  BY ReconcilersApart DEF Processes, IInv
<1>2. ProcessOK(r, snap[r], pc[r]) /\ snap[r] \in Records \cup {None}
  BY <1>1 DEF IInv, TypeOK
<1> QED
  BY <1>1, <1>2 DEF ProcessOK, ReconcilerOK

\* The types when a process moves and nothing but the store, admission and
\* the override file changes with it.
LEMMA TypedStep ==
    ASSUME IInv, NEW x \in Processes, NEW l \in Pcs, Goto(x, l),
           snap' \in [Processes -> Records \cup {None}],
           state' \in Records \cup {None}, lock' \in Locks \cup {None},
           admitted' \in BOOLEAN, booting' \in BOOLEAN, override' \in Images \cup {None},
           RecUnchanged
    PROVE  TypeOK'
<1>1. TypeOK
  BY DEF IInv
<1>2. pc' \in [Processes -> Pcs]
  BY <1>1 DEF TypeOK, Goto
<1> QED
  BY <1>1, <1>2 DEF TypeOK, RecUnchanged, docker, bounds

\* A reconciler that returns without touching the store.
LEMMA ReconcilerReturns ==
    ASSUME IInv, NEW r \in Reconcilers, pc[r] # "idle", Return(r), Admit \/ Refuse,
           UNCHANGED <<store, booting, override>>, RecUnchanged
    PROVE  IInv' /\ AckStep
<1>1. r \in Processes /\ TypeOK
  BY DEF Processes, IInv
<1>2. AdmissionMoves(r) /\ helper' = helper /\ used' = used /\ admitted' \in BOOLEAN
  BY <1>1 DEF AdmissionMoves, Admit, Refuse, RecUnchanged, docker, TypeOK
<1>3. snap' \in [Processes -> Records \cup {None}] /\ "idle" \in Pcs /\ Goto(r, "idle")
  BY <1>1, <1>2, ReturnMoves DEF Return, Pcs
<1>4. TypeOK'
  BY <1>1, <1>2, <1>3, TypedStep DEF TypeOK, store
<1> QED
  BY <1>1, <1>2, <1>4, ReturnStep

\* A reconciler that moves on without touching the store.
LEMMA ReconcilerMoves ==
    ASSUME IInv, NEW r \in Reconcilers, NEW l \in ReconcilePcs \ {"request", "orphan", "unlock"},
           Goto(r, l), pc[r] \notin {"idle", "request", "orphan", "unlock"},
           UNCHANGED <<store, snap, admitted, booting>>, override' \in Images \cup {None},
           RecUnchanged,
           l \in {"current-complete", "complete", "current-failed", "failed"}
              => snap[r].rev >= 2 /\ ~snap[r].ack,
           l = "probe" => ~snap[r].ack,
           l = "current-cleanup" => snap[r].phase = "failed",
           l \in {"cleanup", "release"}
              => (state # None /\ state.op = snap[r].op => Terminal(state))
    PROVE  IInv' /\ AckStep
<1>1. r \in Processes /\ l \in Pcs /\ TypeOK
  BY DEF Processes, Pcs, IInv
<1>2. TypeOK'
  BY <1>1, TypedStep DEF TypeOK, store
<1> QED
  BY <1>2, ReconcilerGoes DEF RecUnchanged, docker

\* The reconciler's checks preserve the invariant.
LEMMA ReconcilerLocal ==
    ASSUME IInv, NEW r \in Reconcilers,
           \/ RecHelper(r) \/ RecError(r) \/ RecProbeHealthy(r) \/ RecProbeUnhealthy(r)
           \/ RecStillCurrent(r, "current-complete", "complete")
           \/ RecStillCurrent(r, "current-failed", "failed")
           \/ RecStillCurrent(r, "current-cleanup", "cleanup")
           \/ Cleanup(r)
    PROVE  IInv' /\ AckStep
<1>1. /\ r \in Processes /\ r \notin {"workflow", "helper", "operator", "prune"}
      /\ ReconcilerOK(snap[r], pc[r]) /\ ReleasingOK(snap[r], pc[r])
      /\ pc[r] \notin {"idle", "request", "orphan", "unlock"}
           => /\ snap[r] \in Records /\ snap[r] # None /\ RecordOK(snap[r]) /\ CopyOK(snap[r])
  BY ReconcilerFacts
<1>2. override \in Images \cup {None} /\ container \in [image : Images \cup {None}, running : BOOLEAN]
  BY DEF IInv, TypeOK
<1>3. CASE RecError(r)
  BY <1>3, ReconcilerReturns DEF RecError
<1>4. CASE RecHelper(r)
  <2> DEFINE l == CASE snap[r].phase = "failed" /\ ~snap[r].ack -> "current-cleanup"
                    [] Terminal(snap[r]) /\ snap[r].ack -> "finish"
                    [] OTHER -> "probe"
  <2>1. CASE Return(r) /\ Admit
    BY <1>4, <2>1, ReconcilerReturns DEF RecHelper
  <2>2. CASE Goto(r, l) /\ UNCHANGED snap /\ Refuse
    <3>1. /\ l \in {"current-cleanup", "finish", "probe"}
          /\ l = "current-cleanup" => snap[r].phase = "failed"
          /\ l = "probe" => ~(Terminal(snap[r]) /\ snap[r].ack)
      OBVIOUS
    <3>2. Goto(r, l)
      BY <2>2
    <3> HIDE DEF l
    <3>3. pc[r] = "helper" /\ UNCHANGED <<store, snap, admitted, booting, override>> /\ RecUnchanged
      BY <1>4, <2>2 DEF RecHelper, Refuse
    <3>4. l = "probe" => ~snap[r].ack
      BY <1>1, <3>1, <3>3 DEF RecordOK
    <3> QED
      BY <1>2, <3>1, <3>2, <3>3, <3>4, ReconcilerMoves DEF ReconcilePcs
  <2> QED
    BY <1>4, <2>1, <2>2 DEF RecHelper
<1>5. CASE RecProbeHealthy(r)
  <2>1. /\ pc[r] = "probe" /\ container.image # None /\ container.image = snap[r].target
        /\ UNCHANGED <<store, snap, admitted, booting, override>> /\ RecUnchanged
    BY <1>5 DEF RecProbeHealthy, Healthy
  <2>2. snap[r].rev >= 2 /\ ~snap[r].ack
    BY <1>1, <2>1 DEF RecordOK, ReconcilerOK, Records
  <2>3. PICK l \in {"current-complete", "uncertain"} : Goto(r, l)
    BY <1>5 DEF RecProbeHealthy
  <2> QED
    BY <1>2, <2>1, <2>2, <2>3, ReconcilerMoves DEF ReconcilePcs
<1>6. CASE RecProbeUnhealthy(r)
  <2>1. pc[r] = "probe" /\ UNCHANGED <<store, booting, override>> /\ RecUnchanged
    BY <1>6 DEF RecProbeUnhealthy
  <2>2. CASE Return(r) /\ Admit
    BY <2>1, <2>2, ReconcilerReturns
  <2>3. CASE /\ container.image # None /\ container.image = snap[r].prev
             /\ Goto(r, "current-failed") /\ UNCHANGED snap /\ Refuse
    <3>1. snap[r].rev >= 2 /\ ~snap[r].ack
      BY <1>1, <2>1, <2>3 DEF RecordOK, ReconcilerOK, Records
    <3> QED
      BY <1>2, <2>1, <2>3, <3>1, ReconcilerMoves DEF ReconcilePcs, Refuse
  <2>4. CASE Goto(r, "uncertain") /\ UNCHANGED snap /\ Refuse
    BY <1>2, <2>1, <2>4, ReconcilerMoves DEF ReconcilePcs, Refuse
  <2> QED
    BY <1>6, <2>2, <2>3, <2>4 DEF RecProbeUnhealthy
<1>7. ASSUME NEW from \in {"current-complete", "current-failed", "current-cleanup"},
             NEW goal \in {"complete", "failed", "cleanup"},
             goal = "cleanup" <=> from = "current-cleanup",
             RecStillCurrent(r, from, goal)
      PROVE  IInv' /\ AckStep
  <2>1. pc[r] = from /\ UNCHANGED <<store, booting, override>> /\ RecUnchanged
    BY <1>7 DEF RecStillCurrent
  <2>2. CASE Return(r) /\ Admit
    BY <2>1, <2>2, ReconcilerReturns
  <2>3. CASE Current(snap[r]) /\ Goto(r, goal) /\ UNCHANGED snap /\ Refuse
    <3>1. goal = "cleanup" => state.phase = "failed"
      BY <1>1, <1>7, <2>1, <2>3, AgreedCopy DEF ReconcilerOK
    <3>2. goal # "cleanup" => snap[r].rev >= 2 /\ ~snap[r].ack
      BY <1>1, <1>7, <2>1 DEF ReconcilerOK
    <3> QED
      BY <1>2, <1>7, <2>1, <2>3, <3>1, <3>2, ReconcilerMoves
      DEF ReconcilePcs, Refuse, Terminal, TerminalPhases
  <2> QED
    BY <1>7, <2>2, <2>3 DEF RecStillCurrent
<1>8. CASE Cleanup(r)
  <2>1. /\ pc[r] = "cleanup" /\ Goto(r, "release")
        /\ UNCHANGED <<store, snap, used, admitted, booting, docker, bounds>>
    BY <1>8 DEF Cleanup
  <2>2. override' \in Images \cup {None}
    BY <1>2, <1>8 DEF Cleanup, AfterCleanup
  <2>3. state # None /\ state.op = snap[r].op => Terminal(state)
    BY <1>1, <2>1 DEF ReleasingOK
  <2> QED
    BY <2>1, <2>2, <2>3, ReconcilerMoves DEF ReconcilePcs, RecUnchanged
<1> QED
  BY <1>3, <1>4, <1>5, <1>6, <1>7, <1>8

\* A reconciler, or the operator's command, reads the record.
LEMMA ReadStep ==
    ASSUME IInv, NEW x \in Reconcilers \cup {"operator"}, state # None,
           Keep(x, state), Goto(x, "helper"), x = "operator" => Terminal(state),
           UNCHANGED <<store, admitted, override>>, booting' = booting \/ booting' = FALSE,
           RecUnchanged
    PROVE  IInv' /\ AckStep
<1>1. x \in Processes /\ x \notin {"workflow", "helper", "prune"} /\ TypeOK
  BY ReconcilersApart DEF Processes, IInv
<1>2. state \in Records /\ RecordOK(state) /\ state.op \in used
  BY DEF IInv, TypeOK
<1>3. /\ pc' \in [Processes -> Pcs] /\ snap' \in [Processes -> Records \cup {None}]
      /\ "helper" \in Pcs
  BY <1>1, <1>2, TypedMove DEF Keep, Goto, Pcs, ReconcilePcs
<1>4. TypeOK'
  BY <1>1, <1>3, TypedStep DEF TypeOK, store
<1>5. /\ pc'[x] = "helper" /\ snap'[x] = state /\ state' = state /\ lock' = lock
      /\ used' = used /\ helper' = helper
      /\ \A y \in Processes \ {x} : pc'[y] = pc[y] /\ snap'[y] = snap[y]
  BY <1>1 DEF TypeOK, Keep, Goto, store, RecUnchanged, docker
<1>6. Moves(x)
  BY <1>1, <1>5, HelperAlive DEF Moves, HelperRunning
<1>7. ProcessOK(x, snap[x], pc[x])'
  <2>1. CopyOK(snap[x])' /\ RecordOK(snap[x])'
    BY <1>2, <1>5 DEF CopyOK, RecordOK, Terminal, Records
  <2>2. x \in Reconcilers => ReconcilerOK(snap[x], pc[x])'
    BY <1>5 DEF ReconcilerOK, ReconcilePcs
  <2> QED
    BY <1>1, <1>5, <2>1, <2>2 DEF ProcessOK, ReleasingOK, OperatorPcs, Terminal
<1> QED
  BY <1>1, <1>4, <1>6, <1>7, LocalStep

\* Without a record only the startup reconciliation runs.
LEMMA StartupFacts ==
    ASSUME IInv, NEW r \in Reconcilers, state = None,
           booting \/ pc[r] \in {"orphan", "unlock"}
    PROVE  /\ ~admitted /\ pc["workflow"] = "idle"
           /\ \A q \in Reconcilers \ {r} : pc[q] = "idle"
           /\ booting => pc[r] = "idle"
<1>1. ~admitted
  BY DEF IInv, StartupAlone, ProcessOK, ReconcilerOK, Processes
<1>2. pc["workflow"] = "idle"
  BY <1>1 DEF IInv, ProcessOK, WorkflowOK, Processes
<1> QED
  BY <1>1, <1>2 DEF IInv, StartupAlone

\* The startup reconciliation begins.
LEMMA StartupSafe ==
    ASSUME IInv, NEW r \in Reconcilers, RecStartup(r)
    PROVE  IInv' /\ AckStep
<1>1. /\ r \in Processes /\ r \notin {"workflow", "helper", "operator", "prune"} /\ TypeOK
      /\ Reconcilers \subseteq Processes /\ "workflow" \in Processes
      /\ "workflow" \notin Reconcilers
  BY ReconcilersApart DEF Processes, IInv
<1>2. /\ booting /\ ~booting' /\ booting' = FALSE /\ pc[r] = "idle"
      /\ UNCHANGED <<store, override>> /\ RecUnchanged
  BY <1>1 DEF RecStartup
<1>3. CASE RecordRead(r)
  BY <1>1, <1>2, <1>3, ReadStep DEF RecordRead, Refuse
<1>4. CASE state = None /\ snap' = snap
           /\ \/ pc' = [pc EXCEPT ![r] = "orphan"] /\ admitted' = admitted
              \/ pc' = [pc EXCEPT ![r] = "idle"] /\ admitted' = TRUE
  <2>1. ~admitted /\ pc["workflow"] = "idle" /\ \A q \in Reconcilers \ {r} : pc[q] = "idle"
    BY <1>2, <1>4, StartupFacts
  <2>2. PICK l \in {"orphan", "idle"} : pc' = [pc EXCEPT ![r] = l] /\ (l = "orphan" => admitted' = admitted)
    BY <1>4
  <2>3. /\ pc'[r] = l /\ \A y \in Processes \ {r} : pc'[y] = pc[y]
        /\ state' = None /\ lock' = lock /\ used' = used /\ helper' = helper
    BY <1>1, <1>2, <1>4, <2>2 DEF TypeOK, store, RecUnchanged, docker
  <2>4. TypeOK'
    <3>1. l \in Pcs /\ Goto(r, l)
      BY <2>2 DEF Pcs, ReconcilePcs, Goto
    <3> QED
      BY <1>1, <1>2, <1>4, <2>3, <3>1, TypedStep DEF TypeOK
  <2>5. ActiveHoldsLock' /\ (state # None => RecordOK(state) /\ state.op \in used)'
    BY <2>3 DEF ActiveHoldsLock, Unresolved
  <2>6. ASSUME NEW y \in Processes PROVE ProcessOK(y, snap[y], pc[y])'
    <3>1. ProcessOK(y, snap[y], pc[y]) /\ snap'[y] = snap[y]
      BY <1>4 DEF IInv
    <3>2. (snap[y] # None => CopyOK(snap[y]) /\ (y # "workflow" => RecordOK(snap[y])))'
      BY <3>1, <2>3 DEF ProcessOK, CopyOK, RecordOK, Terminal
    <3>3. y \in Reconcilers => ReconcilerOK(snap[y], pc[y])'
      BY <1>2, <2>1, <2>2, <2>3 DEF ReconcilerOK, ReconcilePcs
    <3>4. y = "workflow" => WorkflowOK(snap[y], pc[y])'
      BY <1>1, <2>1, <2>3 DEF WorkflowOK, EarlyPcs, WorkflowPcs
    <3>5. y = "helper" => HelperOK(snap[y], pc[y])'
      BY <1>1, <2>3, <3>1 DEF ProcessOK, HelperOK, HelperRunning, Terminal
    <3>6. y # "prune" => ReleasingOK(snap[y], pc[y])'
      BY <1>1, <2>3, <3>1 DEF ProcessOK, ReleasingOK
    <3> QED
      BY <1>1, <2>3, <3>1, <3>2, <3>3, <3>4, <3>5, <3>6 DEF ProcessOK, Terminal
  <2>7. NewOpUnknown'
    BY <1>1, <2>1, <2>3 DEF NewOpUnknown, EarlyPcs
  <2>8. StartupAlone'
    BY <1>1, <1>2, <2>1, <2>2, <2>3 DEF StartupAlone
  <2>9. AckStep
    BY <1>4 DEF AckStep
  <2> QED
    BY <2>4, <2>5, <2>6, <2>7, <2>8, <2>9 DEF IInv, Processes
<1>5. pc = [pc EXCEPT ![r] = "idle"]
  BY <1>1, <1>2 DEF TypeOK
<1> QED
  BY <1>3, <1>4, <1>5 DEF RecStartup, Goto, Refuse, Admit

\* A reconciliation is requested, finds an orphaned lock or removes it.
LEMMA OrphanSafe ==
    ASSUME IInv, NEW r \in Reconcilers, RecRequest(r) \/ RecOrphan(r) \/ RecUnlock(r)
    PROVE  IInv' /\ AckStep
<1>1. /\ r \in Processes /\ r \notin {"workflow", "helper", "operator", "prune"} /\ TypeOK
      /\ "workflow" \in Processes
  BY ReconcilersApart DEF Processes, IInv
<1>2. PICK l \in {"request", "unlock", "idle"} :
        /\ Goto(r, l) /\ UNCHANGED <<state, snap, booting, override>> /\ RecUnchanged
        /\ Admit \/ Refuse
        /\ l = "request" => pc[r] = "idle" /\ state # None /\ UNCHANGED <<lock, admitted>>
        /\ l = "unlock" => pc[r] = "orphan" /\ Refuse /\ lock' = lock
        /\ l = "idle" => pc[r] \in {"orphan", "unlock"} /\ lock' \in {lock, None}
  BY DEF RecRequest, RecOrphan, RecUnlock, AfterRemoveOrphan, store, Refuse
<1>3. ReconcilerOK(snap[r], pc[r])
  BY ReconcilerFacts
<1>4. l # "request" => state = None /\ pc["workflow"] = "idle" /\ ~admitted /\ ~booting
  BY <1>2, <1>3, StartupFacts DEF ReconcilerOK
<1>5. /\ pc'[r] = l /\ used' = used /\ helper' = helper
      /\ \A y \in Processes \ {r} : pc'[y] = pc[y]
  BY <1>1, <1>2 DEF TypeOK, Goto, RecUnchanged, docker
<1>6. TypeOK'
  <2>1. l \in Pcs /\ admitted' \in BOOLEAN /\ lock' \in Locks \cup {None}
    BY <1>1, <1>2 DEF Pcs, ReconcilePcs, Admit, Refuse, TypeOK
  <2> QED
    BY <1>1, <1>2, <2>1, TypedStep DEF TypeOK
<1>7. Moves(r)
  BY <1>1, <1>2, <1>5, HelperAlive DEF Moves, HelperRunning, Admit, Refuse
<1>8. StoreMoves
  BY <1>1, <1>2, <1>4, <1>5 DEF StoreMoves, EarlyPcs
<1>9. ActiveHoldsLock'
  BY <1>2, <1>4 DEF IInv, ActiveHoldsLock, Unresolved, HoldsUpdateLock, LockIs, Terminal
<1>10. ProcessOK(r, snap[r], pc[r])'
  <2>1. ProcessOK(r, snap[r], pc[r])
    BY <1>1 DEF IInv
  <2>2. (snap[r] # None => CopyOK(snap[r]) /\ RecordOK(snap[r]))'
    BY <1>1, <1>2, <1>5, <2>1 DEF ProcessOK, CopyOK, RecordOK, Terminal
  <2>3. ReconcilerOK(snap[r], pc[r])'
    BY <1>2, <1>4, <1>5 DEF ReconcilerOK, ReconcilePcs, Refuse
  <2> QED
    BY <1>1, <1>5, <2>2, <2>3 DEF ProcessOK, ReleasingOK
<1> QED
  BY <1>1, <1>6, <1>7, <1>8, <1>9, <1>10, OneProcessStep

\* Giving up an acknowledged operation's lock and files.
LEMMA FinishSafe ==
    ASSUME IInv, NEW x \in Reconcilers \cup {"operator"}, Finish(x),
           Refuse \/ (Admit /\ x \in Reconcilers)
    PROVE  IInv' /\ AckStep
<1>1. x \in Processes /\ x \notin {"workflow", "helper", "prune"} /\ TypeOK /\ "workflow" \in Processes
  BY ReconcilersApart DEF Processes, IInv
<1>2. /\ pc[x] = "finish" /\ Return(x) /\ UNCHANGED <<state, booting>> /\ RecUnchanged
      /\ \/ lock' = lock
         \/ /\ lock' = None /\ state # None /\ Terminal(state)
            /\ Unlocked \/ HoldsUpdateLock(state.op)
  BY DEF Finish, Current
<1>3. override' \in Images \cup {None}
  BY <1>1 DEF Finish, AfterCleanup, TypeOK
<1>4. AdmissionMoves(x) /\ helper' = helper /\ used' = used /\ admitted' \in BOOLEAN
  BY <1>1, <1>2 DEF AdmissionMoves, Admit, Refuse, RecUnchanged, docker, TypeOK
<1>5. Moves(x) /\ ProcessOK(x, snap[x], pc[x])' /\ snap' \in [Processes -> Records \cup {None}]
  BY <1>1, <1>2, <1>4, ReturnMoves
<1>6. TypeOK'
  <2>1. Goto(x, "idle") /\ "idle" \in Pcs /\ lock' \in Locks \cup {None}
    BY <1>1, <1>2 DEF Return, Pcs, TypeOK
  <2> QED
    BY <1>1, <1>2, <1>3, <1>4, <1>5, <2>1, TypedStep DEF TypeOK
<1>7. ActiveHoldsLock'
  BY <1>2 DEF IInv, ActiveHoldsLock, Unresolved, HoldsUpdateLock, LockIs, Terminal
<1>8. StoreMoves
  <2>1. ASSUME pc'["workflow"] \in EarlyPcs PROVE lock' = lock
    <3>1. pc["workflow"] \in EarlyPcs
      BY <1>1, <2>1, <1>5 DEF Moves
    <3>2. /\ lock = [op |-> snap["workflow"].op, owner |-> "manager"] /\ ~Unlocked
          /\ state # None => state.op # snap["workflow"].op
      BY <1>1, <3>1 DEF IInv, ProcessOK, WorkflowOK
    <3> QED
      BY <1>2, <3>2 DEF HoldsUpdateLock, LockIs
  <2> QED
    BY <1>2, <2>1 DEF StoreMoves
<1> QED
  BY <1>1, <1>5, <1>6, <1>7, <1>8, OneProcessStep

\* The reconciler's store operations preserve the invariant.
LEMMA ReconcilerStore ==
    ASSUME IInv, NEW r \in Reconcilers,
           RecWrite(r) \/ RecRelease(r) \/ RecUncertain(r)
    PROVE  IInv' /\ AckStep
<1>1. /\ r \in Processes /\ r \notin {"workflow", "helper", "operator", "prune"}
      /\ ReconcilerOK(snap[r], pc[r]) /\ ReleasingOK(snap[r], pc[r])
      /\ pc[r] \notin {"idle", "request", "orphan", "unlock"}
           => /\ snap[r] \in Records /\ snap[r] # None /\ RecordOK(snap[r]) /\ CopyOK(snap[r])
  BY ReconcilerFacts
<1>2. TypeOK /\ admitted \in BOOLEAN
  BY DEF IInv, TypeOK
<1>3. ASSUME Return(r), pc[r] # "idle", admitted' = admitted \/ admitted' = TRUE,
             state' \in Records \cup {None}, lock' \in Locks \cup {None},
             UNCHANGED <<booting, override>>, RecUnchanged
      PROVE  TypeOK' /\ AdmissionMoves(r) /\ helper' = helper /\ used' = used
  <2>1. AdmissionMoves(r) /\ helper' = helper /\ used' = used /\ admitted' \in BOOLEAN
    BY <1>2, <1>3 DEF AdmissionMoves, RecUnchanged, docker
  <2>2. snap' \in [Processes -> Records \cup {None}]
    BY <1>1, <1>3, <2>1, ReturnMoves
  <2>3. "idle" \in Pcs /\ Goto(r, "idle")
    BY <1>3 DEF Pcs, Return
  <2> QED
    BY <1>1, <1>2, <1>3, <2>1, <2>2, <2>3, TypedStep DEF TypeOK
<1>4. CASE RecWrite(r)
  <2>1. pc[r] \in {"complete", "failed"} /\ UNCHANGED <<lock, booting, override>> /\ RecUnchanged
    BY <1>4 DEF RecWrite
  <2>2. /\ snap[r] \in Records /\ snap[r] # None /\ snap[r].rev >= 2 /\ ~snap[r].ack
    BY <1>1, <2>1 DEF ReconcilerOK
  <2>3. CASE Write(r, [snap[r] EXCEPT !.phase = pc[r]], "cleanup") /\ Refuse
    <3> DEFINE s == [snap[r] EXCEPT !.phase = pc[r]]
    <3>1. /\ s \in Records /\ s.op = snap[r].op /\ s.rev = snap[r].rev
          /\ s.phase \in TerminalPhases /\ s.ack = snap[r].ack
      BY ONLY <2>1, <2>2 DEF Records, Phases, TerminalPhases
    <3>2. Write(r, s, "cleanup")
      BY <2>3
    <3> HIDE DEF s
    <3>3. /\ Current(snap[r]) /\ state.rev < MaxRev
          /\ Written(s) = [s EXCEPT !.rev = state.rev + 1]
      BY <1>1, <2>2, <3>1, <3>2, OwnWrite DEF Write
    <3>4. WriterGoes(r, s, "cleanup")
      BY <1>1, <3>1 DEF WriterGoes, Terminal
    <3>5. state' = [s EXCEPT !.rev = state.rev + 1] /\ snap' = [snap EXCEPT ![r] = state']
          /\ pc' = [pc EXCEPT ![r] = "cleanup"]
      BY <3>2, <3>3 DEF Write, Keep, Goto
    <3>6. "cleanup" \in Pcs /\ pc[r] # "idle"
          /\ UNCHANGED <<lock, used, admitted, booting, override, docker, bounds>>
      BY <2>1, <2>3 DEF Pcs, ReconcilePcs, RecUnchanged, Refuse
    <3> QED
      BY <1>1, <2>2, <3>1, <3>3, <3>4, <3>5, <3>6, WriteStep DEF Terminal
  <2>4. CASE Return(r) /\ UNCHANGED state
             /\ admitted' = (admitted \/ (state.op # snap[r].op /\ ~Terminal(state)))
    <3>1. admitted' = admitted \/ admitted' = TRUE
      BY <1>2, <2>4
    <3>2. state' \in Records \cup {None} /\ lock' \in Locks \cup {None}
      BY <1>2, <2>1, <2>4 DEF TypeOK
    <3> QED
      BY <1>1, <1>3, <2>1, <2>4, <3>1, <3>2, ReturnStep DEF store
  <2> QED
    BY <1>4, <2>3, <2>4 DEF RecWrite
<1>5. CASE RecRelease(r)
  <2>1. /\ pc[r] = "release" /\ Return(r) /\ lock' = AfterRelease(snap[r].op)
        /\ UNCHANGED <<state, booting, override>> /\ RecUnchanged
        /\ admitted' = (admitted \/ Unlocked \/ LockIs(snap[r].op))
    BY <1>5 DEF RecRelease
  <2>2. admitted' = admitted \/ admitted' = TRUE
    BY <1>2, <2>1
  <2>3. snap[r] \in Records /\ snap[r] # None /\ snap[r].op \in Ops
        /\ (state # None /\ state.op = snap[r].op => Terminal(state))
    BY <1>1, <2>1 DEF ReleasingOK, Records
  <2>4. state' \in Records \cup {None} /\ lock' \in Locks \cup {None}
    BY <1>2, <2>1 DEF TypeOK, AfterRelease
  <2>5. pc["workflow"] \in EarlyPcs => snap["workflow"].op # snap[r].op
    BY <1>1, <2>3 DEF IInv, NewOpUnknown
  <2> QED
    BY <1>1, <1>3, <2>1, <2>2, <2>3, <2>4, <2>5, UnlockStep
<1>6. CASE RecUncertain(r)
  <2>1. /\ pc[r] = "uncertain" /\ Return(r) /\ UNCHANGED <<booting, override>> /\ RecUnchanged
    BY <1>6 DEF RecUncertain
  <2>2. snap[r] \in Records /\ snap[r] # None
    BY <1>1, <2>1
  <2>3. snap[r].op \in Ops /\ RecoveryLock(snap[r].op) \in Locks \cup {None}
    BY <1>2, <2>2 DEF RecoveryLock, Locks, Owners, ReleaseOwners, TypeOK, Records
  <2>4. CASE CanReconcileUncertain(snap[r]) /\ state.rev < MaxRev
             /\ lock' = RecoveryLock(snap[r].op)
             /\ state' = [snap[r] EXCEPT !.phase = "uncertain", !.rev = state.rev + 1]
             /\ Admit
    <3>1. Current(snap[r]) /\ ~state.ack
      BY <2>4 DEF CanReconcileUncertain
    <3>2. ~snap[r].ack /\ state \in Records
      BY <1>1, <2>2, <3>1, AgreedCopy
    <3>3. state' \in Records
      <4>1. state.rev + 1 \in 1..MaxRev /\ "uncertain" \in Phases
        BY <2>4, <3>2, MaxRevNat DEF Records, Phases, TerminalPhases
      <4>2. [snap[r] EXCEPT !.phase = "uncertain", !.rev = state.rev + 1] \in Records
        BY ONLY <2>2, <4>1 DEF Records
      <4> QED
        BY <2>4, <4>2
    <3>4. TypeOK' /\ AdmissionMoves(r) /\ helper' = helper /\ used' = used
      BY <1>3, <2>1, <2>3, <2>4, <3>3 DEF Admit
    <3>5. lock' = lock \/ lock = None
      BY <2>4 DEF RecoveryLock, Unlocked
    <3> QED
      BY <1>1, <2>1, <2>2, <2>4, <3>1, <3>2, <3>4, <3>5, UncertainStep
  <2>5. CASE UNCHANGED state /\ (lock' = lock \/ lock' = RecoveryLock(snap[r].op))
             /\ (Admit \/ Refuse)
    <3>1. state' \in Records \cup {None} /\ lock' \in Locks \cup {None}
          /\ (admitted' = admitted \/ admitted' = TRUE)
      BY <1>2, <2>3, <2>5 DEF TypeOK, Admit, Refuse
    <3>2. TypeOK' /\ AdmissionMoves(r) /\ helper' = helper /\ used' = used
      BY <1>3, <2>1, <3>1
    <3>3. Moves(r) /\ ProcessOK(r, snap[r], pc[r])'
      BY <1>1, <2>1, <3>2, ReturnMoves
    <3>4. lock' = lock \/ lock = None
      BY <2>5 DEF RecoveryLock, Unlocked
    <3>5. StoreMoves
      BY <2>5, <3>4 DEF StoreMoves
    <3>6. ActiveHoldsLock'
      BY <2>5, <3>4 DEF IInv, ActiveHoldsLock, Unresolved, HoldsUpdateLock, LockIs, Terminal
    <3> QED
      BY <1>1, <3>2, <3>3, <3>5, <3>6, OneProcessStep
  <2> QED
    BY <1>6, <2>4, <2>5 DEF RecUncertain, store
<1> QED
  BY <1>4, <1>5, <1>6

\* Every step of a reconciler preserves the invariant.
LEMMA ReconcileSafe ==
    ASSUME IInv, NEW r \in Reconcilers, Reconcile(r)
    PROVE  IInv' /\ AckStep
<1>0. r # "operator"
  BY ReconcilersApart
<1>1. CASE RecBegin(r)
  BY <1>0, <1>1, ReadStep DEF RecBegin, RecordRead, Refuse
<1>2. CASE RecFinish(r)
  BY <1>2, FinishSafe DEF RecFinish
<1> QED
  BY <1>1, <1>2, StartupSafe, OrphanSafe, ReconcilerLocal, ReconcilerStore
  DEF Reconcile, ReconcileStep

-----------------------------------------------------------------------------
\* What is known of the operator's command.
LEMMA OperatorFacts ==
    ASSUME IInv, pc["operator"] # "idle"
    PROVE  /\ "operator" \in Processes \ {"prune"} /\ "operator" \notin Reconcilers
           /\ snap["operator"] \in Records /\ snap["operator"] # None
           /\ Terminal(snap["operator"]) /\ CopyOK(snap["operator"]) /\ RecordOK(snap["operator"])
           /\ pc["operator"] \in OperatorPcs
BY ReconcilersApart DEF IInv, ProcessOK, TypeOK, Processes

\* The operator's command returns without touching the store.
LEMMA OperatorReturns ==
    ASSUME IInv, Return("operator"),
           UNCHANGED <<store, used, admitted, booting, override, docker, manual>>, crashes' \in Nat
    PROVE  IInv' /\ AckStep
<1>1. "operator" \in Processes /\ TypeOK /\ AdmissionMoves("operator") /\ helper' = helper
  BY DEF Processes, IInv, AdmissionMoves, docker
<1>2. pc' \in [Processes -> Pcs] /\ snap' \in [Processes -> Records \cup {None}]
  BY <1>1, ReturnMoves
<1>3. TypeOK'
  BY <1>1, <1>2 DEF TypeOK, store, docker
<1> QED
  BY <1>1, <1>3, ReturnStep

\* Every step of the operator's command preserves the invariant.
LEMMA OperatorSafe ==
    ASSUME IInv, Operator
    PROVE  IInv' /\ AckStep
<1>1. TypeOK /\ crashes \in Nat /\ crashes + 1 \in Nat
  BY DEF IInv, TypeOK
<1>2. CASE OpRead
  BY <1>2, ReadStep DEF OpRead
<1>3. CASE OpFinish
  BY <1>3, FinishSafe DEF OpFinish
<1>4. CASE OpCrash
  BY <1>1, <1>4, OperatorReturns DEF OpCrash
<1>5. CASE OpCheckHelper
  <2>1. /\ pc["operator"] = "helper"
        /\ UNCHANGED <<store, admitted, booting, override>> /\ RecUnchanged
    BY <1>5 DEF OpCheckHelper
  <2>2. CASE Return("operator")
    BY <1>1, <2>1, <2>2, OperatorReturns DEF RecUnchanged, bounds
  <2>3. CASE Goto("operator", "acknowledge") /\ UNCHANGED snap
    <3>1. /\ "operator" \in Processes \ {"prune"} /\ "operator" \notin Reconcilers
          /\ snap["operator"] # None /\ Terminal(snap["operator"])
          /\ CopyOK(snap["operator"]) /\ RecordOK(snap["operator"])
      BY <2>1, OperatorFacts
    <3>2. TypeOK'
      BY <1>1, <2>1, <2>3, <3>1, TypedStep DEF TypeOK, store, Pcs, OperatorPcs
    <3>3. pc'["operator"] = "acknowledge" /\ used' = used /\ helper' = helper
          /\ \A y \in Processes \ {"operator"} : pc'[y] = pc[y]
      BY <1>1, <2>1, <2>3, <3>1 DEF TypeOK, Goto, RecUnchanged, docker
    <3>4. Moves("operator")
      BY <2>1, <2>3, <3>1, <3>3, HelperAlive DEF Moves, HelperRunning
    <3>5. ProcessOK("operator", snap["operator"], pc["operator"])'
      <4>1. CopyOK(snap["operator"])' /\ RecordOK(snap["operator"])'
        BY <2>1, <2>3, <3>1, <3>3 DEF CopyOK, RecordOK, Terminal, store
      <4> QED
        BY <2>3, <3>1, <3>3, <4>1 DEF ProcessOK, ReleasingOK, OperatorPcs, Terminal
    <3> QED
      BY <2>1, <3>1, <3>2, <3>4, <3>5, LocalStep
  <2> QED
    BY <1>5, <2>2, <2>3 DEF OpCheckHelper
<1>6. CASE OpAcknowledge
  <2>1. /\ pc["operator"] = "acknowledge"
        /\ UNCHANGED <<lock, admitted, booting, override>> /\ RecUnchanged
    BY <1>6 DEF OpAcknowledge
  <2>2. CASE Return("operator") /\ UNCHANGED state
    BY <1>1, <2>1, <2>2, OperatorReturns DEF RecUnchanged, bounds, store
  <2>3. CASE Current(snap["operator"])
             /\ Write("operator", [snap["operator"] EXCEPT !.ack = TRUE], "finish")
    <3> DEFINE s == [snap["operator"] EXCEPT !.ack = TRUE]
    <3>1. /\ "operator" \in Processes \ {"prune"} /\ "operator" \notin Reconcilers
          /\ snap["operator"] \in Records /\ snap["operator"] # None /\ Terminal(snap["operator"])
      BY <2>1, OperatorFacts
    <3>2. /\ s \in Records /\ s.op = snap["operator"].op /\ s.rev = snap["operator"].rev
          /\ s.phase = snap["operator"].phase /\ s.ack = TRUE
      BY ONLY <3>1 DEF Records
    <3>3. Write("operator", s, "finish")
      BY <2>3
    <3> HIDE DEF s
    <3>4. state.op = snap["operator"].op /\ state # None
      BY <2>3 DEF Current
    <3>5. /\ Current(snap["operator"]) /\ state.rev < MaxRev
          /\ Written(s) = [s EXCEPT !.rev = state.rev + 1]
      BY <3>1, <3>2, <3>3, <3>4, OwnWrite DEF Write
    <3>6. WriterGoes("operator", s, "finish") /\ Terminal(s)
      BY <3>1, <3>2 DEF WriterGoes, Terminal
    <3>7. state' = [s EXCEPT !.rev = state.rev + 1] /\ snap' = [snap EXCEPT !["operator"] = state']
          /\ pc' = [pc EXCEPT !["operator"] = "finish"]
      BY <3>3, <3>5 DEF Write, Keep, Goto
    <3>8. "finish" \in Pcs /\ pc["operator"] # "idle"
          /\ UNCHANGED <<lock, used, admitted, booting, override, docker, bounds>>
      BY <2>1 DEF Pcs, OperatorPcs, RecUnchanged
    <3> QED
      BY <3>1, <3>2, <3>5, <3>6, <3>7, <3>8, WriteStep
  <2> QED
    BY <1>6, <2>2, <2>3 DEF OpAcknowledge
<1> QED
  BY <1>2, <1>3, <1>4, <1>5, <1>6 DEF Operator

\* Image pruning preserves the invariant.
LEMMA PruneSafe ==
    ASSUME IInv, PruneAcquire \/ Prune \/ PruneRelease
    PROVE  IInv' /\ AckStep
<1>1. "prune" \in Processes /\ "prune" \notin Reconcilers /\ TypeOK /\ "workflow" \in Processes
  BY ReconcilersApart DEF Processes, IInv
<1>2. PICK l \in {"pruning", "release", "idle"} :
        /\ Goto("prune", l)
        /\ UNCHANGED <<state, snap, used, admitted, booting, override, container, helper, bounds>>
  BY DEF PruneAcquire, Prune, PruneRelease, store, docker
<1>3. \/ lock' = lock
      \/ lock = None /\ lock' = [op |-> PruneOp, owner |-> "prune"]
      \/ lock' = None /\ LockIs(PruneOp)
  BY DEF PruneAcquire, Prune, PruneRelease, store, CreateLock, Unlocked, AfterRelease
<1>4. lock' \in Locks \cup {None}
  BY <1>1, <1>3 DEF TypeOK, Locks, Owners
<1>5. loaded' \subseteq Images /\ tag' \in Images \cup {None}
  BY <1>1 DEF PruneAcquire, Prune, PruneRelease, TypeOK, docker
<1>6. TypeOK'
  <2>1. pc' \in [Processes -> Pcs]
    BY <1>1, <1>2 DEF TypeOK, Goto, Pcs, PrunePcs
  <2> QED
    BY <1>1, <1>2, <1>4, <1>5, <2>1 DEF TypeOK, bounds
<1>7. pc'["prune"] = l /\ \A y \in Processes \ {"prune"} : pc'[y] = pc[y]
  BY <1>1, <1>2 DEF TypeOK, Goto
<1>8. snap["prune"] = None
  BY <1>1 DEF IInv, ProcessOK
<1>9. Moves("prune")
  BY <1>1, <1>2, <1>7, <1>8, HelperAlive DEF Moves, HelperRunning
<1>10. ActiveHoldsLock'
  <2>1. state # None => state.op # PruneOp
    BY <1>1, PruneOpApart DEF TypeOK, Records
  <2> QED
    BY <1>2, <1>3, <2>1 DEF IInv, ActiveHoldsLock, Unresolved, HoldsUpdateLock, LockIs, Terminal
<1>11. StoreMoves
  <2>1. ASSUME pc'["workflow"] \in EarlyPcs PROVE ~LockIs(PruneOp)
    <3>1. lock = [op |-> snap["workflow"].op, owner |-> "manager"] /\ snap["workflow"] # None
      BY <1>1, <1>7, <2>1 DEF IInv, ProcessOK, WorkflowOK, EarlyPcs
    <3>2. snap["workflow"].op \in Ops
      BY <1>1, <3>1 DEF TypeOK, Records
    <3> QED
      BY <3>1, <3>2, PruneOpApart DEF LockIs
  <2> QED
    BY <1>2, <1>3, <2>1 DEF StoreMoves
<1>12. ProcessOK("prune", snap["prune"], pc["prune"])'
  BY <1>1, <1>2, <1>8 DEF ProcessOK
<1> QED
  BY <1>1, <1>6, <1>9, <1>10, <1>11, <1>12, OneProcessStep

\* The invariant holds at the start.
LEMMA InitIInv == Init => IInv
<1> SUFFICES ASSUME Init PROVE IInv
  OBVIOUS
<1>1. TypeOK
  <2>1. PICK i \in Images : /\ loaded = {i} /\ tag = i
                            /\ container = [image |-> i, running |-> TRUE]
    BY DEF Init
  <2>2. loaded \subseteq Images /\ tag \in Images \cup {None}
        /\ container \in [image : Images \cup {None}, running : BOOLEAN]
    BY ONLY <2>1
  <2>3. pc \in [Processes -> Pcs] /\ snap \in [Processes -> Records \cup {None}]
    BY DEF Init, Pcs
  <2> QED
    BY <2>2, <2>3 DEF Init, TypeOK
<1>2. ASSUME NEW x \in Processes PROVE ProcessOK(x, snap[x], pc[x])
  BY DEF Init, ProcessOK, WorkflowOK, HelperOK, ReconcilerOK, ReleasingOK, EarlyPcs, WorkflowPcs
<1>3. ActiveHoldsLock /\ NewOpUnknown /\ StartupAlone
  BY ReconcilersApart DEF Init, ActiveHoldsLock, Unresolved, NewOpUnknown, EarlyPcs,
     StartupAlone, Processes
<1> QED
  BY <1>1, <1>2, <1>3 DEF Init, IInv

\* Every step preserves the invariant and leaves acknowledged history closed.
LEMMA NextIInv == IInv /\ [Next]_vars => IInv' /\ (AckStep \/ UNCHANGED state)
<1> SUFFICES ASSUME IInv, [Next]_vars PROVE IInv' /\ (AckStep \/ UNCHANGED state)
  OBVIOUS
<1>1. CASE Next
  BY <1>1, WorkflowSafe, HelperSafe, ReconcileSafe, OperatorSafe, PruneSafe, RestartsSafe DEF Next
<1>2. CASE UNCHANGED vars
  <2>1. TypeOK'
    BY <1>2 DEF IInv, TypeOK, vars
  <2>3. "prune" \in Processes /\ "prune" \notin Reconcilers
    BY ReconcilersApart DEF Processes
  <2>4. Moves("prune")
    BY <1>2, <2>3, HelperAlive DEF Moves, HelperRunning, vars
  <2>5. ProcessOK("prune", snap["prune"], pc["prune"])'
    BY <1>2, <2>3 DEF IInv, ProcessOK, vars
  <2> QED
    BY <1>2, <2>1, <2>3, <2>4, <2>5, LocalStep DEF vars, store
<1> QED
  BY <1>1, <1>2

\* An operation that is not terminal owns the installation lock in every
\* reachable state, however many operations, reconcilers, crashes and
\* deployments there are (update_state.go, update.go, update_apply.go).
THEOREM ReleaseUpdateSafe == Spec => [](TypeOK /\ ActiveHoldsLock)
<1>1. Init => IInv
  BY InitIInv
<1>2. IInv /\ [Next]_vars => IInv'
  BY NextIInv
<1>3. IInv => TypeOK /\ ActiveHoldsLock
  BY DEF IInv
<1> QED
  BY <1>1, <1>2, <1>3, PTL DEF Spec

\* No step of any process reopens an acknowledged operation or changes its
\* outcome; only the first record of a new operation replaces it.
THEOREM AcknowledgedStaysFinal == Spec => AcknowledgedIsFinal
<1>1. Init => IInv
  BY InitIInv
<1>2. IInv /\ [Next]_vars => IInv'
  BY NextIInv
<1>3. IInv /\ [Next]_vars =>
        [state # None /\ state.ack
           => /\ state' # None
              /\ \/ state'.op = state.op /\ state'.ack /\ state'.phase = state.phase
                 \/ state'.op # state.op /\ state'.phase = "preparing"]_state
  BY NextIInv DEF AckStep
<1> QED
  BY <1>1, <1>2, <1>3, PTL DEF Spec, AcknowledgedIsFinal

-----------------------------------------------------------------------------
\* The invariant behind the other properties.  What IInv says of a process
\* and its copy, once for all the steps below.

LEMMA Parties ==
    /\ {"workflow", "helper", "operator", "prune"} \subseteq Processes /\ Reconcilers \subseteq Processes
    /\ {"workflow", "helper", "operator", "prune"} \cap Reconcilers = {}
    /\ PruneOp \notin Ops /\ None \notin Records
BY ReconcilersApart, PruneOpApart, NoneIsNoRecord DEF Processes

LEMMA Copies ==
    ASSUME IInv
    PROVE  /\ \A x \in Processes : snap[x] \in Records \cup {None}
           /\ state \in Records \cup {None}
           /\ pc \in [Processes -> Pcs] /\ snap \in [Processes -> Records \cup {None}]
BY DEF IInv, TypeOK

LEMMA WorkflowKnows ==
    ASSUME IInv
    PROVE  /\ pc["workflow"] # "idle" => snap["workflow"] \in Records
           /\ pc["workflow"] \in {"idle"} \cup WorkflowPcs
           /\ pc["workflow"] \in EarlyPcs
                => snap["workflow"].phase = "preparing" /\ ~OwnRecord("workflow") /\ lock # None
                   /\ lock.op = snap["workflow"].op
           /\ pc["workflow"] \notin EarlyPcs \cup {"idle"} => OwnRecord("workflow")
           /\ pc["workflow"] # "idle" /\ Current(snap["workflow"])
                => state.phase = snap["workflow"].phase
           /\ pc["workflow"] \in {"cleanup", "release"} => Terminal(state)
<1>1. ProcessOK("workflow", snap["workflow"], pc["workflow"])
  BY Parties DEF IInv
<1>2. WorkflowOK(snap["workflow"], pc["workflow"])
  BY <1>1 DEF ProcessOK
<1>3. /\ pc["workflow"] # "idle" => snap["workflow"] \in Records
      /\ pc["workflow"] \in {"idle"} \cup WorkflowPcs
      /\ pc["workflow"] \notin EarlyPcs \cup {"idle"} => OwnRecord("workflow")
  BY <1>2, Parties, Copies DEF WorkflowOK, OwnRecord
<1>4. pc["workflow"] \in EarlyPcs
        => snap["workflow"].phase = "preparing" /\ ~OwnRecord("workflow") /\ lock # None
           /\ lock.op = snap["workflow"].op
  BY <1>2 DEF WorkflowOK, OwnRecord, Unlocked
<1>5. pc["workflow"] # "idle" /\ Current(snap["workflow"]) => state.phase = snap["workflow"].phase
  BY <1>1, <1>3, Parties DEF ProcessOK, CopyOK, Current
<1>6. pc["workflow"] \in {"cleanup", "release"} => Terminal(state)
  BY <1>1, <1>2 DEF ProcessOK, WorkflowOK, ReleasingOK, EarlyPcs
<1> QED
  BY <1>3, <1>4, <1>5, <1>6

LEMMA HelperKnows ==
    ASSUME IInv
    PROVE  /\ pc["helper"] \notin {"idle", "read"} => snap["helper"] \in Records /\ snap["helper"].rev >= 2
           /\ pc["helper"] \in {"idle"} \cup HelperPcs
           /\ pc["helper"] # "idle" => HelperRunning
           /\ pc["helper"] \notin {"idle", "read"} /\ Current(snap["helper"])
                => state.phase = snap["helper"].phase
           /\ pc["helper"] \notin {"idle", "read", "cleanup", "release"} => ~Terminal(snap["helper"])
           /\ pc["helper"] \in {"cleanup", "release"} /\ OwnRecord("helper") => Terminal(state)
<1>1. ProcessOK("helper", snap["helper"], pc["helper"])
  BY Parties DEF IInv
<1> QED
  BY <1>1, Parties, Copies DEF ProcessOK, HelperOK, OwnRecord, CopyOK, Current, ReleasingOK

LEMMA ReconcilersKnow ==
    ASSUME IInv
    PROVE  \A r \in Reconcilers :
             /\ pc[r] \notin {"idle", "request", "orphan", "unlock"} => snap[r] \in Records
             /\ pc[r] \in {"idle"} \cup ReconcilePcs
             /\ pc[r] \in {"orphan", "unlock"} => state = None
             /\ pc[r] \in {"current-complete", "complete", "current-failed", "failed"}
                  => snap[r].rev >= 2 /\ ~snap[r].ack
             /\ pc[r] = "probe" => ~snap[r].ack
             /\ pc[r] = "current-cleanup" => snap[r].phase = "failed"
             /\ snap[r] # None /\ Current(snap[r]) => state.phase = snap[r].phase /\ snap[r].ack = state.ack
             /\ pc[r] \in {"cleanup", "release"} /\ OwnRecord(r) => Terminal(state)
<1>1. \A r \in Reconcilers : ProcessOK(r, snap[r], pc[r])
  BY Parties DEF IInv
<1> QED
  BY <1>1, Parties, Copies DEF ProcessOK, ReconcilerOK, OwnRecord, CopyOK, Current, ReleasingOK

LEMMA OperatorKnows ==
    ASSUME IInv
    PROVE  /\ pc["operator"] # "idle" => snap["operator"] \in Records /\ Terminal(snap["operator"])
           /\ pc["operator"] \in {"idle"} \cup OperatorPcs
           /\ pc["operator"] # "idle" /\ Current(snap["operator"])
                => state.phase = snap["operator"].phase
<1>1. ProcessOK("operator", snap["operator"], pc["operator"])
  BY Parties DEF IInv
<1> QED
  BY <1>1, Parties, Copies DEF ProcessOK, CopyOK, Current

\* x wrote the next revision of the record it had read, and every other copy
\* of the record is out of date.
Wrote(x) ==
    /\ Current(snap[x]) /\ state.phase = snap[x].phase
    /\ state' # None /\ state'.op = state.op /\ snap'[x] = state'
    /\ \A y \in Processes \ {x} : /\ pc'[y] = pc[y] /\ snap'[y] = snap[y]
                                  /\ snap'[y] # None => ~Current(snap[y])'
    /\ UNCHANGED <<lock, loaded, tag, container, helper, manual>>

\* x gave up, with the store as it was.
GaveUp(x) ==
    /\ pc'[x] = "idle" /\ snap'[x] = None
    /\ \A y \in Processes \ {x} : pc'[y] = pc[y] /\ snap'[y] = snap[y]
    /\ UNCHANGED <<state, lock, loaded, tag, container, manual>>

LEMMA WriteShape ==
    ASSUME IInv, NEW x \in Processes, snap[x] \in Records, NEW s \in Records, NEW l \in Pcs,
           s.op = snap[x].op, s.rev = snap[x].rev, OwnRecord(x) \/ snap[x].rev >= 2,
           Write(x, s, l), UNCHANGED <<lock, loaded, tag, container, helper, manual>>
    PROVE  /\ Wrote(x) /\ pc'[x] = l
           /\ state'.phase = s.phase /\ state'.target = s.target /\ state'.ack = s.ack
<1>1. Current(snap[x]) /\ state' = [s EXCEPT !.rev = state.rev + 1]
  BY OwnWrite DEF Write, OwnRecord
<1>2. /\ state \in Records /\ state # None /\ state.phase = snap[x].phase /\ state.op = snap[x].op
      /\ state.rev = snap[x].rev
  BY <1>1, AgreedCopy, NoneIsNoRecord
<1>3. /\ state'.op = state.op /\ state'.rev = state.rev + 1 /\ state.rev \in Int
      /\ state'.phase = s.phase /\ state'.target = s.target /\ state'.ack = s.ack
  BY <1>1, <1>2 DEF Records
<1>4. state' # None
  <2>1. state.rev + 1 \in 1..MaxRev
    BY <1>1, <1>2, <1>3, MaxRevNat DEF Write, CanWrite, Records, Current
  <2>2. state' \in Records
    BY <1>1, <2>1 DEF Records
  <2> QED  BY <2>2, NoneIsNoRecord
<1>5. /\ pc'[x] = l /\ snap'[x] = state'
      /\ \A y \in Processes \ {x} : pc'[y] = pc[y] /\ snap'[y] = snap[y]
  BY Copies DEF Write, Goto, Keep
<1>6. ASSUME NEW y \in Processes, snap[y] # None PROVE snap[y].op = state.op => snap[y].rev # state.rev + 1
  <2>1. ProcessOK(y, snap[y], pc[y]) /\ snap[y] \in Records
    BY <1>6, Copies DEF IInv
  <2> QED
    BY <1>2, <1>3, <1>6, <2>1 DEF ProcessOK, CopyOK, Records
<1> QED
  BY <1>1, <1>2, <1>3, <1>4, <1>5, <1>6 DEF Wrote, Current

\* What each write turns the record into, and where its writer goes.
WorkflowWrote ==
    \/ pc["workflow"] = "inspected" /\ state'.phase = "downloading" /\ pc'["workflow"] = "downloading"
    \/ pc["workflow"] = "downloading" /\ state'.phase = "verified" /\ pc'["workflow"] = "verified"
    \/ pc["workflow"] = "loading" /\ state'.phase = "loaded" /\ pc'["workflow"] = "loaded"
    \/ pc["workflow"] = "loaded" /\ state'.phase = "restart-queued" /\ pc'["workflow"] = "queued"
    \/ pc["workflow"] \notin EarlyPcs \cup {"idle", "cleanup", "release"}
       /\ state'.phase = "failed" /\ pc'["workflow"] = "cleanup"

LEMMA WorkflowWriteShape ==
    ASSUME IInv, WfWriteDownloading \/ WfWriteVerified \/ WfWriteLoaded \/ WfWriteRestartQueued \/ WfFail
    PROVE  \/ Wrote("workflow") /\ WorkflowWrote /\ state'.target = snap["workflow"].target
           \/ GaveUp("workflow")
<1> USE DEF docker, bounds
<1>1. ASSUME NEW p \in Phases, NEW path \in BOOLEAN, NEW l \in WorkflowPcs,
             pc["workflow"] \notin EarlyPcs \cup {"idle"},
             Write("workflow", [snap["workflow"] EXCEPT !.phase = p, !.path = path], l),
             UNCHANGED <<lock, loaded, tag, container, helper, manual>>
      PROVE  /\ Wrote("workflow") /\ pc'["workflow"] = l
             /\ state'.phase = p /\ state'.target = snap["workflow"].target
  <2>1. snap["workflow"] \in Records /\ OwnRecord("workflow") /\ "workflow" \in Processes
    BY <1>1, WorkflowKnows, Parties
  <2> DEFINE s == [snap["workflow"] EXCEPT !.phase = p, !.path = path]
  <2>2. /\ s \in Records /\ s.op = snap["workflow"].op /\ s.rev = snap["workflow"].rev
        /\ s.phase = p /\ s.target = snap["workflow"].target
    BY <2>1 DEF Records
  <2>3. l \in Pcs
    BY DEF Pcs
  <2> HIDE DEF s
  <2>4. Write("workflow", s, l)
    BY <1>1 DEF s
  <2> QED
    BY <1>1, <2>1, <2>2, <2>3, <2>4, WriteShape
<1>2. /\ {"downloading", "verified", "loaded", "restart-queued", "failed"} \subseteq Phases
      /\ {"downloading", "verified", "loaded", "queued", "cleanup"} \subseteq WorkflowPcs
      /\ {"preparing", "inspected", "downloading", "verified", "loading", "loaded"}
           \cap (EarlyPcs \cup {"idle", "cleanup", "release"}) = {}
  BY DEF Phases, ManagerPhases, HelperPhases, TerminalPhases, WorkflowPcs, EarlyPcs
<1>3. pc["workflow"] # "idle" => snap["workflow"] \in Records /\ snap["workflow"].path \in BOOLEAN
  BY WorkflowKnows DEF Records
<1>4. ASSUME NEW p \in Phases, NEW l \in WorkflowPcs, pc["workflow"] \notin EarlyPcs \cup {"idle"},
             Write("workflow", [snap["workflow"] EXCEPT !.phase = p], l),
             UNCHANGED <<lock, loaded, tag, container, helper, manual>>
      PROVE  /\ Wrote("workflow") /\ pc'["workflow"] = l
             /\ state'.phase = p /\ state'.target = snap["workflow"].target
  <2> DEFINE path == snap["workflow"].path
  <2>1. [snap["workflow"] EXCEPT !.phase = p] = [snap["workflow"] EXCEPT !.phase = p, !.path = path]
    BY <1>3, <1>4 DEF Records
  <2> QED
    BY <1>1, <1>3, <1>4, <2>1
<1>5. CASE WfWriteDownloading
  BY <1>1, <1>2, <1>5 DEF WfWriteDownloading, WorkflowWrote
<1>6. CASE WfWriteVerified
  BY <1>2, <1>4, <1>6 DEF WfWriteVerified, WorkflowWrote
<1>7. CASE WfWriteLoaded
  BY <1>2, <1>4, <1>7 DEF WfWriteLoaded, WorkflowWrote
<1>8. CASE WfWriteRestartQueued
  BY <1>2, <1>4, <1>8 DEF WfWriteRestartQueued, WorkflowWrote
<1>9. CASE WfFail
  <2>1. CASE \E path \in {snap["workflow"].path, pc["workflow"] # "preparing"} :
               Write("workflow", [snap["workflow"] EXCEPT !.phase = "failed", !.path = path], "cleanup")
    BY <1>1, <1>2, <1>3, <1>9, <2>1 DEF WfFail, WorkflowWrote
  <2>2. CASE Return("workflow") /\ UNCHANGED state
    BY <1>9, <2>2, Copies, Parties DEF WfFail, GaveUp, Return, Goto, Keep
  <2> QED
    BY <1>9, <2>1, <2>2 DEF WfFail
<1> QED
  BY <1>5, <1>6, <1>7, <1>8, <1>9

HelperWrote ==
    \/ pc["helper"] = "fail" /\ state'.phase = "failed" /\ pc'["helper"] = "cleanup"
    \/ pc["helper"] = "recreating" /\ state'.phase = "recreating" /\ pc'["helper"] = "relock"
    \/ pc["helper"] = "verifying" /\ state'.phase = "verifying" /\ pc'["helper"] = "health"
    \/ pc["helper"] = "complete" /\ state'.phase = "complete" /\ pc'["helper"] = "cleanup"

LEMMA HelperWriteShape ==
    ASSUME IInv,
           \/ HpFail \/ HpWrite("recreating", "recreating", "relock")
           \/ HpWrite("verifying", "verifying", "health") \/ HpWrite("complete", "complete", "cleanup")
    PROVE  \/ Wrote("helper") /\ HelperWrote /\ state'.target = snap["helper"].target
           \/ GaveUp("helper")
<1> USE DEF docker, bounds, HelperUnchanged
<1>1. ASSUME NEW p \in Phases, NEW l \in HelperPcs, pc["helper"] \notin {"idle", "read"},
             Write("helper", [snap["helper"] EXCEPT !.phase = p], l),
             UNCHANGED <<lock, loaded, tag, container, helper, manual>>
      PROVE  /\ Wrote("helper") /\ pc'["helper"] = l
             /\ state'.phase = p /\ state'.target = snap["helper"].target
  <2>1. snap["helper"] \in Records /\ snap["helper"].rev >= 2 /\ "helper" \in Processes
    BY <1>1, HelperKnows, Parties
  <2> DEFINE s == [snap["helper"] EXCEPT !.phase = p]
  <2>2. /\ s \in Records /\ s.op = snap["helper"].op /\ s.rev = snap["helper"].rev
        /\ s.phase = p /\ s.target = snap["helper"].target
    BY <2>1 DEF Records
  <2>3. l \in Pcs
    BY DEF Pcs
  <2> HIDE DEF s
  <2>4. Write("helper", s, l)
    BY <1>1 DEF s
  <2> QED
    BY <1>1, <2>1, <2>2, <2>3, <2>4, WriteShape
<1>2. /\ {"recreating", "verifying", "complete", "failed"} \subseteq Phases
      /\ {"relock", "health", "cleanup"} \subseteq HelperPcs
  BY DEF Phases, HelperPhases, TerminalPhases, HelperPcs
<1>3. ASSUME HelperExit, UNCHANGED <<state, lock, loaded, tag, container, manual>> PROVE GaveUp("helper")
  BY <1>3, Copies, Parties DEF HelperExit, GaveUp, Return, Goto, Keep
<1>4. CASE HpFail
  BY <1>1, <1>2, <1>3, <1>4 DEF HpFail, HelperWrote
<1>5. CASE HpWrite("recreating", "recreating", "relock")
  BY <1>1, <1>2, <1>3, <1>5 DEF HpWrite, HelperWrote
<1>6. CASE HpWrite("verifying", "verifying", "health")
  BY <1>1, <1>2, <1>3, <1>6 DEF HpWrite, HelperWrote
<1>7. CASE HpWrite("complete", "complete", "cleanup")
  BY <1>1, <1>2, <1>3, <1>7 DEF HpWrite, HelperWrote
<1> QED
  BY <1>4, <1>5, <1>6, <1>7

LEMMA ReconcilerWriteShape ==
    ASSUME IInv, NEW r \in Reconcilers, RecWrite(r)
    PROVE  \/ /\ Wrote(r) /\ pc[r] \in {"complete", "failed"} /\ pc'[r] = "cleanup"
              /\ state'.phase = pc[r] /\ state'.target = snap[r].target /\ ~snap[r].ack
           \/ GaveUp(r)
<1> USE DEF docker, bounds, RecUnchanged
<1>1. snap[r] \in Records /\ snap[r].rev >= 2 /\ ~snap[r].ack /\ r \in Processes /\ pc[r] \in {"complete", "failed"}
  BY ReconcilersKnow, Parties DEF RecWrite
<1>2. CASE Write(r, [snap[r] EXCEPT !.phase = pc[r]], "cleanup")
  <2> DEFINE s == [snap[r] EXCEPT !.phase = pc[r]]
  <2>1. /\ s \in Records /\ s.op = snap[r].op /\ s.rev = snap[r].rev
        /\ s.phase = pc[r] /\ s.target = snap[r].target
    BY <1>1 DEF Records, Phases, TerminalPhases
  <2>2. "cleanup" \in Pcs
    BY DEF Pcs, WorkflowPcs
  <2> HIDE DEF s
  <2>3. Write(r, s, "cleanup")
    BY <1>2 DEF s
  <2>4. UNCHANGED <<lock, loaded, tag, container, helper, manual>>
    BY DEF RecWrite
  <2> QED
    BY <1>1, <2>1, <2>2, <2>3, <2>4, WriteShape
<1>3. CASE Return(r) /\ UNCHANGED state
  BY <1>3, Copies, Parties DEF RecWrite, GaveUp, Return, Goto, Keep
<1> QED
  BY <1>2, <1>3 DEF RecWrite

LEMMA OperatorWriteShape ==
    ASSUME IInv, OpAcknowledge
    PROVE  \/ /\ Wrote("operator") /\ pc'["operator"] = "finish"
              /\ state'.phase = snap["operator"].phase /\ state'.ack /\ Terminal(snap["operator"])
           \/ GaveUp("operator")
<1> USE DEF docker, bounds, RecUnchanged
<1>1. snap["operator"] \in Records /\ Terminal(snap["operator"]) /\ "operator" \in Processes
  BY OperatorKnows, Parties DEF OpAcknowledge
<1>2. CASE Current(snap["operator"]) /\ Write("operator", [snap["operator"] EXCEPT !.ack = TRUE], "finish")
  <2> DEFINE s == [snap["operator"] EXCEPT !.ack = TRUE]
  <2>1. /\ s \in Records /\ s.op = snap["operator"].op /\ s.rev = snap["operator"].rev
        /\ s.phase = snap["operator"].phase /\ s.ack = TRUE
    BY <1>1 DEF Records
  <2>2. "finish" \in Pcs /\ OwnRecord("operator")
    BY <1>2 DEF Pcs, OperatorPcs, OwnRecord, Current
  <2> HIDE DEF s
  <2>3. Write("operator", s, "finish")
    BY <1>2 DEF s
  <2>4. UNCHANGED <<lock, loaded, tag, container, helper, manual>>
    BY DEF OpAcknowledge
  <2> QED
    BY <1>1, <2>1, <2>2, <2>3, <2>4, WriteShape
<1>3. CASE Return("operator") /\ UNCHANGED state
  BY <1>3, Copies, Parties DEF OpAcknowledge, GaveUp, Return, Goto, Keep
<1> QED
  BY <1>2, <1>3 DEF OpAcknowledge

\* The first record of a new operation replaces a closed one, and nobody else
\* has a copy of it.
Replaced ==
    /\ pc["workflow"] = "prepare" /\ lock # None /\ lock.op = state'.op
    /\ state # None => Terminal(state) /\ state.op # state'.op
    /\ state' # None /\ state'.phase = "preparing"
    /\ pc'["workflow"] = "preparing" /\ snap'["workflow"] = state'
    /\ \A y \in Processes \ {"workflow"} :
         /\ pc'[y] = pc[y] /\ snap'[y] = snap[y]
         /\ snap'[y] # None => snap'[y].op # state'.op
    /\ UNCHANGED <<lock, loaded, tag, container, helper, manual>>

LEMMA PrepareShape ==
    ASSUME IInv, WfWritePreparing PROVE Replaced
<1> USE DEF docker, bounds
<1>1. /\ pc["workflow"] \in EarlyPcs /\ snap["workflow"] \in Records /\ snap["workflow"].phase = "preparing"
      /\ ~OwnRecord("workflow") /\ lock # None /\ lock.op = snap["workflow"].op /\ "workflow" \in Processes
  BY WorkflowKnows, Parties DEF WfWritePreparing, EarlyPcs
<1>2. /\ state' = [snap["workflow"] EXCEPT !.rev = 1]
      /\ state # None => Terminal(state) /\ state.op # snap["workflow"].op
  BY <1>1 DEF WfWritePreparing, Write, CanWrite, Written, OwnRecord
<1>3. state'.op = snap["workflow"].op /\ state'.phase = "preparing" /\ state' \in Records /\ state' # None
  BY <1>1, <1>2, MaxRevNat, NoneIsNoRecord DEF Records
<1>4. /\ pc'["workflow"] = "preparing" /\ snap'["workflow"] = state'
      /\ \A y \in Processes \ {"workflow"} : pc'[y] = pc[y] /\ snap'[y] = snap[y]
  BY <1>1, Copies DEF WfWritePreparing, Write, Goto, Keep
<1>5. \A y \in Processes \ {"workflow"} : snap[y] # None => snap[y].op # snap["workflow"].op
  BY <1>1 DEF IInv, NewOpUnknown
<1> QED
  BY <1>1, <1>2, <1>3, <1>4, <1>5 DEF Replaced, WfWritePreparing

\* A recovery that cannot tell the outcome.
LeftOpen(r) ==
    /\ pc[r] = "uncertain" /\ pc'[r] = "idle" /\ snap'[r] = None
    /\ \A y \in Processes \ {r} : pc'[y] = pc[y] /\ snap'[y] = snap[y]
    /\ UNCHANGED <<loaded, tag, container, helper, manual>>
    /\ \/ UNCHANGED <<state, lock>>
       \/ UNCHANGED state /\ Unlocked
       \/ /\ Current(snap[r]) /\ state.phase = snap[r].phase /\ ~state.ack
          /\ lock' = lock \/ Unlocked
          /\ state' # None /\ state'.op = state.op /\ state'.phase = "uncertain" /\ LockIs(state.op)'
          /\ \A y \in Processes \ {r} : snap'[y] # None => ~Current(snap[y])'

LEMMA UncertainShape ==
    ASSUME IInv, NEW r \in Reconcilers, RecUncertain(r) PROVE LeftOpen(r)
<1> USE DEF docker, bounds, RecUnchanged
<1>1. snap[r] \in Records /\ r \in Processes /\ pc[r] = "uncertain"
  BY ReconcilersKnow, Parties DEF RecUncertain
<1>2. /\ pc'[r] = "idle" /\ snap'[r] = None
      /\ \A y \in Processes \ {r} : pc'[y] = pc[y] /\ snap'[y] = snap[y]
  BY <1>1, Copies DEF RecUncertain, Return, Goto, Keep
<1>3. ASSUME CanReconcileUncertain(snap[r]), state.rev < MaxRev, lock' = RecoveryLock(snap[r].op),
             state' = [snap[r] EXCEPT !.phase = "uncertain", !.rev = state.rev + 1]
      PROVE  LeftOpen(r)
  <2>1. /\ Current(snap[r]) /\ ~state.ack /\ state # None /\ (Unlocked \/ LockIs(snap[r].op))
        /\ snap[r].op = state.op /\ snap[r].rev = state.rev /\ state \in Records
    BY <1>3, Copies DEF CanReconcileUncertain, HoldsUpdateLock, Current
  <2>2. state.phase = snap[r].phase
    BY <1>1, <2>1, ReconcilersKnow, NoneIsNoRecord
  <2>3. /\ state'.op = state.op /\ state'.rev = state.rev + 1 /\ state'.phase = "uncertain"
    BY <1>1, <1>3, <2>1 DEF Records
  <2>4. state' # None
    <3>1. state.rev + 1 \in 1..MaxRev /\ "uncertain" \in Phases
      BY <1>3, <2>1, MaxRevNat DEF Records, Phases, TerminalPhases
    <3>2. state' \in Records
      BY <1>1, <1>3, <3>1 DEF Records
    <3> QED  BY <3>2, NoneIsNoRecord
  <2>5. LockIs(state.op)' /\ (lock' = lock \/ Unlocked)
    <3>1. lock' = IF lock = None THEN [op |-> snap[r].op, owner |-> "manager"] ELSE lock
      BY <1>3 DEF RecoveryLock, Unlocked
    <3>2. [op |-> snap[r].op, owner |-> "manager"] # None
      BY <1>1, NoneIsNoRecord DEF Locks, Records, Owners, ReleaseOwners
    <3> QED
      BY <2>1, <2>3, <3>1, <3>2 DEF LockIs, Unlocked
  <2>6. ASSUME NEW y \in Processes, snap[y] # None PROVE snap[y].op = state.op => snap[y].rev # state.rev + 1
    <3>1. ProcessOK(y, snap[y], pc[y]) /\ snap[y] \in Records
      BY <2>6, Copies DEF IInv
    <3> QED
      BY <2>1, <2>6, <3>1 DEF ProcessOK, CopyOK, Records
  <2> QED
    BY <1>1, <1>2, <2>1, <2>2, <2>3, <2>4, <2>5, <2>6 DEF LeftOpen, RecUncertain, Current
<1> QED
  BY <1>1, <1>2, <1>3 DEF RecUncertain, LeftOpen, RecoveryLock, store

\* x gives up, and may record that the outcome is uncertain.
Abandons(x) ==
    /\ pc'[x] = "idle" /\ snap'[x] = None
    /\ \A y \in Processes \ {x} : pc'[y] = pc[y] /\ snap'[y] = snap[y]
    /\ UNCHANGED <<lock, loaded, tag, container, manual>>
    /\ \/ UNCHANGED state
       \/ /\ Current(snap[x]) /\ state.phase = snap[x].phase
          /\ state' # None /\ state'.op = state.op /\ state'.phase = "uncertain"
          /\ \A y \in Processes \ {x} : snap'[y] # None => ~Current(snap[y])'

LEMMA AbandonShape ==
    ASSUME IInv
    PROVE  /\ WfWriteUncertain => Abandons("workflow")
           /\ HpUncertain(UncertainPcs) => Abandons("helper")
<1> USE DEF docker, bounds, HelperUnchanged
<1>1. ASSUME NEW x \in Processes, snap[x] \in Records, OwnRecord(x) \/ snap[x].rev >= 2, Return(x),
             UNCHANGED <<lock, loaded, tag, container, manual>>,
             \/ UNCHANGED state
             \/ CanWrite(snap[x]) /\ state' = Written([snap[x] EXCEPT !.phase = "uncertain"])
      PROVE  Abandons(x)
  <2>1. pc'[x] = "idle" /\ snap'[x] = None /\ \A y \in Processes \ {x} : pc'[y] = pc[y] /\ snap'[y] = snap[y]
    BY <1>1, Copies DEF Return, Goto, Keep
  <2>2. ASSUME CanWrite(snap[x]), state' = Written([snap[x] EXCEPT !.phase = "uncertain"])
        PROVE  Abandons(x)
    <3> DEFINE s == [snap[x] EXCEPT !.phase = "uncertain"]
    <3>1. s \in Records /\ s.op = snap[x].op /\ s.rev = snap[x].rev /\ s.phase = "uncertain"
      BY <1>1 DEF Records, Phases, TerminalPhases
    <3>2. state' = Written(s) /\ CanWrite(s)
      BY <2>2, <3>1 DEF CanWrite
    <3> HIDE DEF s
    <3>3. Current(snap[x]) /\ state.rev < MaxRev /\ state' = [s EXCEPT !.rev = state.rev + 1]
      BY <1>1, <3>1, <3>2, OwnWrite DEF OwnRecord
    <3>4. /\ state \in Records /\ state # None /\ state.phase = snap[x].phase /\ state.op = snap[x].op
      BY <1>1, <3>3, AgreedCopy, NoneIsNoRecord
    <3>5. /\ state'.op = state.op /\ state'.phase = "uncertain" /\ state'.rev = state.rev + 1
      BY <3>1, <3>3, <3>4 DEF Records
    <3>6. state' # None
      <4>1. state.rev + 1 \in 1..MaxRev
        BY <3>3, <3>4, MaxRevNat DEF Records
      <4>2. state' \in Records
        BY <3>1, <3>3, <4>1 DEF Records
      <4> QED  BY <4>2, NoneIsNoRecord
    <3>7. ASSUME NEW y \in Processes, snap[y] # None PROVE snap[y].op = state.op => snap[y].rev # state.rev + 1
      <4>1. ProcessOK(y, snap[y], pc[y]) /\ snap[y] \in Records
        BY <3>7, Copies DEF IInv
      <4> QED
        BY <3>4, <3>7, <4>1 DEF ProcessOK, CopyOK, Records
    <3> QED
      BY <1>1, <2>1, <3>3, <3>4, <3>5, <3>6, <3>7 DEF Abandons, Current
  <2> QED
    BY <1>1, <2>1, <2>2 DEF Abandons
<1>2. ASSUME WfWriteUncertain PROVE Abandons("workflow")
  <2>1. pc["workflow"] \notin EarlyPcs \cup {"idle"} /\ "workflow" \in Processes
    BY <1>2, Parties DEF WfWriteUncertain, EarlyPcs
  <2>2. snap["workflow"] \in Records /\ OwnRecord("workflow")
    BY <2>1, WorkflowKnows DEF EarlyPcs
  <2> QED
    BY <1>1, <1>2, <2>1, <2>2 DEF WfWriteUncertain
<1>3. ASSUME HpUncertain(UncertainPcs) PROVE Abandons("helper")
  <2>1. pc["helper"] \notin {"idle", "read"} /\ "helper" \in Processes
    BY <1>3, Parties DEF HpUncertain, UncertainPcs
  <2>2. snap["helper"] \in Records /\ snap["helper"].rev >= 2
    BY <2>1, HelperKnows
  <2> QED
    BY <1>1, <1>3, <2>1, <2>2 DEF HpUncertain, HelperExit
<1> QED
  BY <1>2, <1>3

-----------------------------------------------------------------------------
\* Every step preserves the second invariant.

\* The workflow's steps that do not write the record.
LEMMA WorkflowStepsKeep ==
    ASSUME IInv, SInv,
           \/ (\E o \in Ops : WfAcquire(o)) \/ WfAbort \/ WfInspectHelper \/ WfRemoveHelper
           \/ WfInspectContainer \/ (\E i \in Images : WfLoadImage(i)) \/ WfWriteRejected
           \/ Cleanup("workflow") \/ WfRelease \/ WfStartHelper \/ WfStartHelperError
    PROVE  SInv'
<1> USE DEF store, docker, bounds, Goto, Keep, Return, HelperUnchanged, RecUnchanged, Admit, Refuse,
            WfAcquire, CreateLock, WfAbort, AfterRelease, LockIs, WfInspectHelper, WfRemoveHelper,
            WfInspectContainer, WfLoadImage, WfWriteRejected, Cleanup, WfRelease, WfStartHelper,
            StartedHelper, WfStartHelperError, HelperRunning, Unlocked, OperatorPcs, WorkflowPcs, EarlyPcs,
            HelperPcs, ReconcilePcs, ManagerPhases, HelperPhases, TerminalPhases, Terminal, OwnRecord,
            Current, Unresolved
<1>2. /\ PruneHoldsLock /\ WorkflowHistory /\ ImageKept /\ HelperAlone /\ StillVerified /\ FailedIsCleaned
      /\ ActiveHoldsLock /\ manual \in Nat
  BY DEF SInv, IInv, TypeOK
<1>3. PruneHoldsLock'
  BY <1>2, Parties, Copies, WorkflowKnows
     DEF PruneHoldsLock, ReleaseOwners, HoldsUpdateLock, LockIs, Records
<1>4. WorkflowHistory'
  BY <1>2, Parties, Copies, WorkflowKnows
     DEF WorkflowHistory, FailedIsCleaned, Records
<1>5. ImageKept'
  BY <1>2, Parties, Copies, WorkflowKnows
     DEF PruneHoldsLock, ImageKept, TargetKept, WorkflowHistory, ActiveHoldsLock, HoldsUpdateLock, LockIs,
         ReleaseOwners, Records
<1>6. HelperAlone'
  BY <1>2, Parties, Copies, WorkflowKnows
     DEF HelperAlone, WorkflowHistory, ActiveHoldsLock, HoldsUpdateLock, LockIs
<1>7. StillVerified'
  BY <1>2, Parties, Copies, WorkflowKnows
     DEF StillVerified, HelperAlone, Healthy, RuntimeImageVerified
<1>8. FailedIsCleaned'
  BY <1>2, Parties, Copies, WorkflowKnows
     DEF FailedIsCleaned
<1>9. ASSUME OneReconciler PROVE ClosedByOne' /\ UncertainRetainsLock'
  <2>1. ClosedByOne /\ UncertainRetainsLock
    BY <1>9 DEF SInv
  <2>2. ClosedByOne'
    BY <1>2, <1>9, <2>1, Parties, Copies, WorkflowKnows
       DEF FailedIsCleaned, WorkflowHistory, ClosedByOne, OneReconciler
  <2>3. UncertainRetainsLock'
    BY <1>2, <1>9, <2>1, Parties, Copies, WorkflowKnows
       DEF UncertainRetainsLock, ClosedByOne, OneReconciler, WorkflowHistory, HelperAlone, ActiveHoldsLock,
           HoldsUpdateLock, LockIs
  <2> QED  BY <2>2, <2>3
<1> QED
  BY <1>3, <1>4, <1>5, <1>6, <1>7, <1>8, <1>9 DEF SInv, OneReconciler

\* The first record of an operation.
LEMMA PreparingKeeps ==
    ASSUME IInv, SInv,
           WfWritePreparing
    PROVE  SInv'
<1>1. Replaced
  BY PrepareShape
<1> USE DEF Replaced, HelperRunning, Unlocked, OperatorPcs, WorkflowPcs, EarlyPcs, HelperPcs, ReconcilePcs,
            ManagerPhases, HelperPhases, TerminalPhases, Terminal, OwnRecord, Current, Unresolved
<1>2. /\ PruneHoldsLock /\ WorkflowHistory /\ ImageKept /\ HelperAlone /\ StillVerified /\ FailedIsCleaned
      /\ ActiveHoldsLock /\ manual \in Nat
  BY DEF SInv, IInv, TypeOK
<1>3. PruneHoldsLock'
  BY <1>1, <1>2, Parties, Copies, WorkflowKnows
     DEF PruneHoldsLock, ReleaseOwners, HoldsUpdateLock, LockIs, Records
<1>4. WorkflowHistory'
  BY <1>1, <1>2, Parties, Copies, WorkflowKnows
     DEF WorkflowHistory, FailedIsCleaned
<1>5. ImageKept'
  BY <1>1, <1>2, Parties, Copies, WorkflowKnows, HelperKnows
     DEF PruneHoldsLock, ImageKept, TargetKept, WorkflowHistory, ActiveHoldsLock, HoldsUpdateLock, LockIs,
         ReleaseOwners
<1>6. HelperAlone'
  BY <1>1, <1>2, Parties, Copies, WorkflowKnows, HelperKnows
     DEF HelperAlone, WorkflowHistory, ActiveHoldsLock, HoldsUpdateLock, LockIs
<1>7. StillVerified'
  BY <1>1, <1>2, Parties, Copies, WorkflowKnows, HelperKnows, ReconcilersKnow
     DEF StillVerified, HelperAlone, Healthy, RuntimeImageVerified
<1>8. FailedIsCleaned'
  BY <1>1, <1>2, Parties, Copies, WorkflowKnows
     DEF FailedIsCleaned
<1>9. ASSUME OneReconciler PROVE ClosedByOne' /\ UncertainRetainsLock'
  <2>1. ClosedByOne /\ UncertainRetainsLock
    BY <1>9 DEF SInv
  <2>2. ClosedByOne'
    BY <1>1, <1>2, <1>9, <2>1, Parties, Copies, WorkflowKnows, ReconcilersKnow
       DEF FailedIsCleaned, WorkflowHistory, ClosedByOne, OneReconciler
  <2>3. UncertainRetainsLock'
    BY <1>1, <1>2, <1>9, <2>1, Parties, Copies, WorkflowKnows
       DEF UncertainRetainsLock, ClosedByOne, OneReconciler, WorkflowHistory, HelperAlone, ActiveHoldsLock,
           HoldsUpdateLock, LockIs
  <2> QED  BY <2>2, <2>3
<1> QED
  BY <1>3, <1>4, <1>5, <1>6, <1>7, <1>8, <1>9 DEF SInv, OneReconciler

\* The workflow's writes.
LEMMA WorkflowWritesKeep ==
    ASSUME IInv, SInv,
           \/ WfWriteDownloading \/ WfWriteVerified \/ WfWriteLoaded \/ WfWriteRestartQueued
           \/ WfFail
    PROVE  SInv'
<1>1. \/ Wrote("workflow") /\ WorkflowWrote /\ state'.target = snap["workflow"].target
      \/ GaveUp("workflow")
  BY WorkflowWriteShape
<1> USE DEF Wrote, GaveUp, WorkflowWrote, HelperRunning, Unlocked, OperatorPcs, WorkflowPcs, EarlyPcs,
            HelperPcs, ReconcilePcs, ManagerPhases, HelperPhases, TerminalPhases, Terminal, OwnRecord,
            Current, Unresolved
<1>2. /\ PruneHoldsLock /\ WorkflowHistory /\ ImageKept /\ HelperAlone /\ StillVerified /\ FailedIsCleaned
      /\ ActiveHoldsLock /\ manual \in Nat
  BY DEF SInv, IInv, TypeOK
<1>3. PruneHoldsLock'
  BY <1>1, <1>2, Parties, Copies, WorkflowKnows
     DEF PruneHoldsLock, ReleaseOwners, HoldsUpdateLock, LockIs, Records
<1>4. WorkflowHistory'
  BY <1>1, <1>2, Parties, Copies, WorkflowKnows
     DEF WorkflowHistory, FailedIsCleaned
<1>5. ImageKept'
  BY <1>1, <1>2, Parties, Copies, WorkflowKnows
     DEF PruneHoldsLock, ImageKept, TargetKept, WorkflowHistory, ActiveHoldsLock, HoldsUpdateLock, LockIs,
         ReleaseOwners
<1>6. HelperAlone'
  BY <1>1, <1>2, Parties, Copies, WorkflowKnows, HelperKnows
     DEF HelperAlone, WorkflowHistory, ActiveHoldsLock, HoldsUpdateLock, LockIs
<1>7. StillVerified'
  BY <1>1, <1>2, Parties, Copies, WorkflowKnows, HelperKnows, ReconcilersKnow
     DEF StillVerified, HelperAlone, Healthy, RuntimeImageVerified
<1>8. FailedIsCleaned'
  BY <1>1, <1>2, Parties, Copies, WorkflowKnows
     DEF FailedIsCleaned
<1>9. ASSUME OneReconciler PROVE ClosedByOne' /\ UncertainRetainsLock'
  <2>1. ClosedByOne /\ UncertainRetainsLock
    BY <1>9 DEF SInv
  <2>2. ClosedByOne'
    BY <1>1, <1>2, <1>9, <2>1, Parties, Copies, WorkflowKnows
       DEF FailedIsCleaned, WorkflowHistory, ClosedByOne, OneReconciler
  <2>3. UncertainRetainsLock'
    BY <1>1, <1>2, <1>9, <2>1, Parties, Copies, WorkflowKnows
       DEF UncertainRetainsLock, ClosedByOne, OneReconciler, WorkflowHistory, HelperAlone, ActiveHoldsLock,
           HoldsUpdateLock, LockIs
  <2> QED  BY <2>2, <2>3
<1> QED
  BY <1>3, <1>4, <1>5, <1>6, <1>7, <1>8, <1>9 DEF SInv, OneReconciler

\* The workflow gives up on a helper it could not start.
LEMMA WorkflowAbandonsKeeps ==
    ASSUME IInv, SInv,
           WfWriteUncertain
    PROVE  SInv'
<1>1. pc["workflow"] = "start-failed" /\ Abandons("workflow")
  BY AbandonShape DEF WfWriteUncertain
<1> USE DEF Abandons, HelperRunning, Unlocked, OperatorPcs, WorkflowPcs, EarlyPcs, HelperPcs, ReconcilePcs,
            ManagerPhases, HelperPhases, TerminalPhases, Terminal, OwnRecord, Current, Unresolved
<1>2. /\ PruneHoldsLock /\ WorkflowHistory /\ ImageKept /\ HelperAlone /\ StillVerified /\ FailedIsCleaned
      /\ ActiveHoldsLock /\ manual \in Nat
  BY DEF SInv, IInv, TypeOK
<1>3. PruneHoldsLock'
  BY <1>1, <1>2, Parties, Copies, WorkflowKnows
     DEF PruneHoldsLock, ReleaseOwners, HoldsUpdateLock, LockIs, Records
<1>4. WorkflowHistory'
  BY <1>1, <1>2, Parties, Copies, WorkflowKnows
     DEF WorkflowHistory, FailedIsCleaned
<1>5. ImageKept'
  BY <1>1, <1>2, Parties, Copies, WorkflowKnows
     DEF PruneHoldsLock, ImageKept, TargetKept, WorkflowHistory, ActiveHoldsLock, HoldsUpdateLock, LockIs,
         ReleaseOwners
<1>6. HelperAlone'
  BY <1>1, <1>2, Parties, Copies, WorkflowKnows, HelperKnows
     DEF HelperAlone, WorkflowHistory, ActiveHoldsLock, HoldsUpdateLock, LockIs
<1>7. StillVerified'
  BY <1>1, <1>2, Parties, Copies, WorkflowKnows, HelperKnows, ReconcilersKnow
     DEF StillVerified, HelperAlone, Healthy, RuntimeImageVerified
<1>8. FailedIsCleaned'
  BY <1>1, <1>2, Parties, Copies, WorkflowKnows
     DEF FailedIsCleaned
<1>9. ASSUME OneReconciler PROVE ClosedByOne' /\ UncertainRetainsLock'
  <2>1. ClosedByOne /\ UncertainRetainsLock
    BY <1>9 DEF SInv
  <2>2. ClosedByOne'
    BY <1>1, <1>2, <1>9, <2>1, Parties, Copies, WorkflowKnows
       DEF FailedIsCleaned, WorkflowHistory, ClosedByOne, OneReconciler
  <2>3. UncertainRetainsLock'
    BY <1>1, <1>2, <1>9, <2>1, Parties, Copies, WorkflowKnows
       DEF UncertainRetainsLock, ClosedByOne, OneReconciler, WorkflowHistory, HelperAlone, ActiveHoldsLock,
           HoldsUpdateLock, LockIs
  <2> QED  BY <2>2, <2>3
<1> QED
  BY <1>3, <1>4, <1>5, <1>6, <1>7, <1>8, <1>9 DEF SInv, OneReconciler

\* The helper's steps beside the record and the manager's container.
LEMMA HelperStepsKeep ==
    ASSUME IInv, SInv,
           \/ HpRead \/ HpRequireLock("check", "inspect") \/ HpRequireLock("relock", "tag")
           \/ HpInspect \/ HpWriteOverride \/ HpConfig \/ HpReinspect \/ HpHealth
           \/ Cleanup("helper") \/ HpRelease \/ HelperCrash
    PROVE  SInv'
<1> USE DEF store, docker, bounds, Goto, Keep, Return, HelperUnchanged, RecUnchanged, Admit, Refuse,
            HpRead, HelperExit, HpRequireLock, HpInspect, HpWriteOverride, HpConfig, HpReinspect, HpHealth,
            Cleanup, HpRelease, AfterRelease, LockIs, HelperCrash, HelperRunning, Unlocked, OperatorPcs,
            WorkflowPcs, EarlyPcs, HelperPcs, ReconcilePcs, ManagerPhases, HelperPhases, TerminalPhases,
            Terminal, OwnRecord, Current, Unresolved
<1>2. /\ PruneHoldsLock /\ WorkflowHistory /\ ImageKept /\ HelperAlone /\ StillVerified /\ FailedIsCleaned
      /\ ActiveHoldsLock /\ manual \in Nat
  BY DEF SInv, IInv, TypeOK
<1>3. PruneHoldsLock'
  BY <1>2, Parties, Copies, HelperKnows
     DEF PruneHoldsLock, ReleaseOwners, HoldsUpdateLock, LockIs, Records
<1>4. WorkflowHistory'
  BY <1>2, Parties, Copies, HelperKnows
     DEF WorkflowHistory, FailedIsCleaned
<1>5. ImageKept'
  BY <1>2, Parties, Copies, HelperKnows
     DEF PruneHoldsLock, ImageKept, TargetKept, WorkflowHistory, ActiveHoldsLock, HoldsUpdateLock, LockIs,
         ReleaseOwners
<1>6. HelperAlone'
  BY <1>2, Parties, Copies, HelperKnows
     DEF HelperAlone, WorkflowHistory, ActiveHoldsLock, HoldsUpdateLock, LockIs
<1>7. StillVerified'
  BY <1>2, Parties, Copies, HelperKnows
     DEF StillVerified, HelperAlone, Healthy, RuntimeImageVerified
<1>8. FailedIsCleaned'
  BY <1>2, Parties, Copies, HelperKnows
     DEF FailedIsCleaned
<1>9. ASSUME OneReconciler PROVE ClosedByOne' /\ UncertainRetainsLock'
  <2>1. ClosedByOne /\ UncertainRetainsLock
    BY <1>9 DEF SInv
  <2>2. ClosedByOne'
    BY <1>2, <1>9, <2>1, Parties, Copies, HelperKnows
       DEF FailedIsCleaned, WorkflowHistory, ClosedByOne, OneReconciler
  <2>3. UncertainRetainsLock'
    BY <1>2, <1>9, <2>1, Parties, Copies, HelperKnows
       DEF UncertainRetainsLock, ClosedByOne, OneReconciler, WorkflowHistory, HelperAlone, ActiveHoldsLock,
           HoldsUpdateLock, LockIs
  <2> QED  BY <2>2, <2>3
<1> QED
  BY <1>3, <1>4, <1>5, <1>6, <1>7, <1>8, <1>9 DEF SInv, OneReconciler

\* The helper gives up on an outcome it cannot tell.
LEMMA HelperAbandonsKeeps ==
    ASSUME IInv, SInv,
           HpUncertain(UncertainPcs)
    PROVE  SInv'
<1>1. pc["helper"] \in UncertainPcs /\ Abandons("helper")
  BY AbandonShape DEF HpUncertain
<1> USE DEF Abandons, UncertainPcs, HelperRunning, Unlocked, OperatorPcs, WorkflowPcs, EarlyPcs, HelperPcs,
            ReconcilePcs, ManagerPhases, HelperPhases, TerminalPhases, Terminal, OwnRecord, Current,
            Unresolved
<1>2. /\ PruneHoldsLock /\ WorkflowHistory /\ ImageKept /\ HelperAlone /\ StillVerified /\ FailedIsCleaned
      /\ ActiveHoldsLock /\ manual \in Nat
  BY DEF SInv, IInv, TypeOK
<1>3. PruneHoldsLock'
  BY <1>1, <1>2, Parties, Copies, HelperKnows
     DEF PruneHoldsLock, ReleaseOwners, HoldsUpdateLock, LockIs, Records
<1>4. WorkflowHistory'
  BY <1>1, <1>2, Parties, Copies, HelperKnows
     DEF WorkflowHistory, FailedIsCleaned
<1>5. ImageKept'
  BY <1>1, <1>2, Parties, Copies, HelperKnows
     DEF PruneHoldsLock, ImageKept, TargetKept, WorkflowHistory, ActiveHoldsLock, HoldsUpdateLock, LockIs,
         ReleaseOwners
<1>6. HelperAlone'
  BY <1>1, <1>2, Parties, Copies, HelperKnows
     DEF HelperAlone, WorkflowHistory, ActiveHoldsLock, HoldsUpdateLock, LockIs
<1>7. StillVerified'
  BY <1>1, <1>2, Parties, Copies, HelperKnows, ReconcilersKnow
     DEF StillVerified, HelperAlone, Healthy, RuntimeImageVerified
<1>8. FailedIsCleaned'
  BY <1>1, <1>2, Parties, Copies, HelperKnows
     DEF FailedIsCleaned
<1>9. ASSUME OneReconciler PROVE ClosedByOne' /\ UncertainRetainsLock'
  <2>1. ClosedByOne /\ UncertainRetainsLock
    BY <1>9 DEF SInv
  <2>2. ClosedByOne'
    BY <1>1, <1>2, <1>9, <2>1, Parties, Copies, HelperKnows
       DEF FailedIsCleaned, WorkflowHistory, ClosedByOne, OneReconciler
  <2>3. UncertainRetainsLock'
    BY <1>1, <1>2, <1>9, <2>1, Parties, Copies, HelperKnows
       DEF UncertainRetainsLock, ClosedByOne, OneReconciler, WorkflowHistory, HelperAlone, ActiveHoldsLock,
           HoldsUpdateLock, LockIs
  <2> QED  BY <2>2, <2>3
<1> QED
  BY <1>3, <1>4, <1>5, <1>6, <1>7, <1>8, <1>9 DEF SInv, OneReconciler

\* The helper's writes.
LEMMA HelperWritesKeep ==
    ASSUME IInv, SInv,
           \/ HpFail \/ HpWrite("recreating", "recreating", "relock")
           \/ HpWrite("verifying", "verifying", "health")
           \/ HpWrite("complete", "complete", "cleanup")
    PROVE  SInv'
<1>1. \/ Wrote("helper") /\ HelperWrote /\ state'.target = snap["helper"].target
      \/ GaveUp("helper")
  BY HelperWriteShape
<1> USE DEF Wrote, GaveUp, HelperWrote, HelperRunning, Unlocked, OperatorPcs, WorkflowPcs, EarlyPcs,
            HelperPcs, ReconcilePcs, ManagerPhases, HelperPhases, TerminalPhases, Terminal, OwnRecord,
            Current, Unresolved
<1>2. /\ PruneHoldsLock /\ WorkflowHistory /\ ImageKept /\ HelperAlone /\ StillVerified /\ FailedIsCleaned
      /\ ActiveHoldsLock /\ manual \in Nat
  BY DEF SInv, IInv, TypeOK
<1>3. PruneHoldsLock'
  BY <1>1, <1>2, Parties, Copies, HelperKnows
     DEF PruneHoldsLock, ReleaseOwners, HoldsUpdateLock, LockIs, Records
<1>4. WorkflowHistory'
  BY <1>1, <1>2, Parties, Copies, HelperKnows
     DEF WorkflowHistory, FailedIsCleaned
<1>5. ImageKept'
  BY <1>1, <1>2, Parties, Copies, HelperKnows
     DEF PruneHoldsLock, ImageKept, TargetKept, WorkflowHistory, ActiveHoldsLock, HoldsUpdateLock, LockIs,
         ReleaseOwners
<1>6. HelperAlone'
  BY <1>1, <1>2, Parties, Copies, HelperKnows
     DEF HelperAlone, WorkflowHistory, ActiveHoldsLock, HoldsUpdateLock, LockIs
<1>7. StillVerified'
  BY <1>1, <1>2, Parties, Copies, HelperKnows, ReconcilersKnow
     DEF StillVerified, HelperAlone, Healthy, RuntimeImageVerified
<1>8. FailedIsCleaned'
  BY <1>1, <1>2, Parties, Copies, HelperKnows
     DEF FailedIsCleaned
<1>9. ASSUME OneReconciler PROVE ClosedByOne' /\ UncertainRetainsLock'
  <2>1. ClosedByOne /\ UncertainRetainsLock
    BY <1>9 DEF SInv
  <2>2. ClosedByOne'
    BY <1>1, <1>2, <1>9, <2>1, Parties, Copies, HelperKnows
       DEF FailedIsCleaned, WorkflowHistory, ClosedByOne, OneReconciler
  <2>3. UncertainRetainsLock'
    BY <1>1, <1>2, <1>9, <2>1, Parties, Copies, HelperKnows
       DEF UncertainRetainsLock, ClosedByOne, OneReconciler, WorkflowHistory, HelperAlone, ActiveHoldsLock,
           HoldsUpdateLock, LockIs
  <2> QED  BY <2>2, <2>3
<1> QED
  BY <1>3, <1>4, <1>5, <1>6, <1>7, <1>8, <1>9 DEF SInv, OneReconciler

\* The helper's work on the tag and on the manager's container.
LEMMA RecreatingKeeps ==
    ASSUME IInv, SInv,
           \/ HpTag \/ HpRecreate \/ HpRecreateError
    PROVE  SInv'
<1> USE DEF store, docker, bounds, Goto, Keep, Return, HelperUnchanged, RecUnchanged, Admit, Refuse, HpTag,
            HpRecreate, ManagerRestarts, HpRecreateError, HelperRunning, Unlocked, OperatorPcs,
            WorkflowPcs, EarlyPcs, HelperPcs, ReconcilePcs, ManagerPhases, HelperPhases, TerminalPhases,
            Terminal, OwnRecord, Current, Unresolved
<1>2. /\ PruneHoldsLock /\ WorkflowHistory /\ ImageKept /\ HelperAlone /\ StillVerified /\ FailedIsCleaned
      /\ ActiveHoldsLock /\ manual \in Nat
  BY DEF SInv, IInv, TypeOK
<1>3. PruneHoldsLock'
  BY <1>2, Parties, Copies, HelperKnows
     DEF PruneHoldsLock, ReleaseOwners, HoldsUpdateLock, LockIs, Records
<1>4. WorkflowHistory'
  BY <1>2, Parties, Copies, HelperKnows
     DEF WorkflowHistory, FailedIsCleaned
<1>5. ImageKept'
  BY <1>2, Parties, Copies, HelperKnows
     DEF PruneHoldsLock, ImageKept, TargetKept, WorkflowHistory, ActiveHoldsLock, HoldsUpdateLock, LockIs,
         ReleaseOwners
<1>6. HelperAlone'
  BY <1>2, Parties, Copies, HelperKnows
     DEF HelperAlone, WorkflowHistory, ActiveHoldsLock, HoldsUpdateLock, LockIs
<1>7. StillVerified'
  BY <1>2, Parties, Copies, HelperKnows, ReconcilersKnow
     DEF StillVerified, HelperAlone, Healthy, RuntimeImageVerified
<1>8. FailedIsCleaned'
  BY <1>2, Parties, Copies, HelperKnows
     DEF FailedIsCleaned
<1>9. ASSUME OneReconciler PROVE ClosedByOne' /\ UncertainRetainsLock'
  <2>1. ClosedByOne /\ UncertainRetainsLock
    BY <1>9 DEF SInv
  <2>2. ClosedByOne'
    BY <1>2, <1>9, <2>1, Parties, Copies, HelperKnows
       DEF FailedIsCleaned, WorkflowHistory, ClosedByOne, OneReconciler
  <2>3. UncertainRetainsLock'
    BY <1>2, <1>9, <2>1, Parties, Copies, HelperKnows
       DEF UncertainRetainsLock, ClosedByOne, OneReconciler, WorkflowHistory, HelperAlone, ActiveHoldsLock,
           HoldsUpdateLock, LockIs
  <2> QED  BY <2>2, <2>3
<1> QED
  BY <1>3, <1>4, <1>5, <1>6, <1>7, <1>8, <1>9 DEF SInv, OneReconciler

\* Reconciliation, up to the point where it writes.
LEMMA ReconcilerStepsKeep ==
    ASSUME IInv, SInv, NEW r \in Reconcilers,
           \/ RecStartup(r) \/ RecRequest(r) \/ RecBegin(r) \/ RecOrphan(r) \/ RecUnlock(r)
           \/ RecHelper(r) \/ RecError(r) \/ RecProbeHealthy(r) \/ RecProbeUnhealthy(r)
           \/ RecStillCurrent(r, "current-complete", "complete")
           \/ RecStillCurrent(r, "current-failed", "failed")
           \/ RecStillCurrent(r, "current-cleanup", "cleanup") \/ Cleanup(r)
           \/ RecRelease(r) \/ RecFinish(r)
    PROVE  SInv'
<1> USE DEF store, docker, bounds, Goto, Keep, Return, HelperUnchanged, RecUnchanged, Admit, Refuse,
            RecStartup, RecordRead, RecRequest, RecBegin, RecOrphan, RecUnlock, AfterRemoveOrphan,
            ReleaseOwners, RecHelper, RecError, RecProbeHealthy, RecProbeUnhealthy, RecStillCurrent,
            Cleanup, RecRelease, AfterRelease, LockIs, RecFinish, Finish, HelperRunning, Unlocked,
            OperatorPcs, WorkflowPcs, EarlyPcs, HelperPcs, ReconcilePcs, ManagerPhases, HelperPhases,
            TerminalPhases, Terminal, OwnRecord, Current, Unresolved
<1>2. /\ PruneHoldsLock /\ WorkflowHistory /\ ImageKept /\ HelperAlone /\ StillVerified /\ FailedIsCleaned
      /\ ActiveHoldsLock /\ manual \in Nat
  BY DEF SInv, IInv, TypeOK
<1>3. PruneHoldsLock'
  BY <1>2, Parties, Copies, ReconcilersKnow
     DEF PruneHoldsLock, ReleaseOwners, HoldsUpdateLock, LockIs, Records
<1>4. WorkflowHistory'
  BY <1>2, Parties, Copies, ReconcilersKnow
     DEF WorkflowHistory, FailedIsCleaned
<1>5. ImageKept'
  BY <1>2, Parties, Copies, ReconcilersKnow
     DEF PruneHoldsLock, ImageKept, TargetKept, WorkflowHistory, ActiveHoldsLock, HoldsUpdateLock, LockIs,
         ReleaseOwners
<1>6. HelperAlone'
  BY <1>2, Parties, Copies, ReconcilersKnow, HelperKnows
     DEF HelperAlone, WorkflowHistory, ActiveHoldsLock, HoldsUpdateLock, LockIs
<1>7. StillVerified'
  BY <1>2, Parties, Copies, ReconcilersKnow
     DEF StillVerified, HelperAlone, Healthy, RuntimeImageVerified
<1>8. FailedIsCleaned'
  BY <1>2, Parties, Copies, ReconcilersKnow
     DEF FailedIsCleaned
<1>9. ASSUME OneReconciler PROVE ClosedByOne' /\ UncertainRetainsLock'
  <2>1. ClosedByOne /\ UncertainRetainsLock
    BY <1>9 DEF SInv
  <2>2. ClosedByOne'
    BY <1>2, <1>9, <2>1, Parties, Copies, ReconcilersKnow
       DEF FailedIsCleaned, WorkflowHistory, ClosedByOne, OneReconciler
  <2>3. UncertainRetainsLock'
    BY <1>2, <1>9, <2>1, Parties, Copies, ReconcilersKnow
       DEF UncertainRetainsLock, ClosedByOne, OneReconciler, WorkflowHistory, HelperAlone, ActiveHoldsLock,
           HoldsUpdateLock, LockIs
  <2> QED  BY <2>2, <2>3
<1> QED
  BY <1>3, <1>4, <1>5, <1>6, <1>7, <1>8, <1>9 DEF SInv, OneReconciler

\* Reconciliation records an outcome.
LEMMA ReconcilerWritesKeep ==
    ASSUME IInv, SInv, NEW r \in Reconcilers,
           RecWrite(r)
    PROVE  SInv'
<1>1. \/ /\ Wrote(r) /\ pc[r] \in {"complete", "failed"} /\ pc'[r] = "cleanup"
         /\ state'.phase = pc[r] /\ state'.target = snap[r].target /\ ~snap[r].ack
      \/ GaveUp(r)
  BY ReconcilerWriteShape
<1> USE DEF Wrote, GaveUp, HelperRunning, Unlocked, OperatorPcs, WorkflowPcs, EarlyPcs, HelperPcs,
            ReconcilePcs, ManagerPhases, HelperPhases, TerminalPhases, Terminal, OwnRecord, Current,
            Unresolved
<1>2. /\ PruneHoldsLock /\ WorkflowHistory /\ ImageKept /\ HelperAlone /\ StillVerified /\ FailedIsCleaned
      /\ ActiveHoldsLock /\ manual \in Nat
  BY DEF SInv, IInv, TypeOK
<1>3. PruneHoldsLock'
  BY <1>1, <1>2, Parties, Copies, ReconcilersKnow
     DEF PruneHoldsLock, ReleaseOwners, HoldsUpdateLock, LockIs, Records
<1>4. WorkflowHistory'
  BY <1>1, <1>2, Parties, Copies, ReconcilersKnow
     DEF WorkflowHistory, FailedIsCleaned
<1>5. ImageKept'
  BY <1>1, <1>2, Parties, Copies, ReconcilersKnow
     DEF PruneHoldsLock, ImageKept, TargetKept, WorkflowHistory, ActiveHoldsLock, HoldsUpdateLock, LockIs,
         ReleaseOwners
<1>6. HelperAlone'
  <2>1. CASE GaveUp(r)
    BY <2>1, <1>2, Parties, Copies, HelperKnows, ReconcilersKnow DEF HelperAlone
  <2>2. CASE Wrote(r) /\ pc[r] \in {"complete", "failed"}
    <3>1. snap[r] # None /\ r # "helper" /\ pc[r] # "helper"
      BY <2>2, Parties, ReconcilersKnow, NoneIsNoRecord
    <3>2. ~(pc["helper"] \in {"relock", "tag", "recreate", "cleanup", "release"} /\ OwnRecord("helper"))
      BY <2>2, <3>1, <1>2 DEF HelperAlone
    <3>3. pc["helper"] \notin {"relock", "tag", "recreate"}
      BY <3>2, <1>2, HelperKnows, NoneIsNoRecord DEF HelperAlone
    <3>4. pc'["helper"] = pc["helper"] /\ snap'["helper"] = snap["helper"] /\ state'.op = state.op
      BY <2>2, <3>1, Parties
    <3>5. state # None
      BY <2>2
    <3> QED
      BY <3>2, <3>3, <3>4, <3>5 DEF HelperAlone
  <2> QED  BY <1>1, <2>1, <2>2
<1>7. StillVerified'
  BY <1>1, <1>2, Parties, Copies, ReconcilersKnow, HelperKnows
     DEF StillVerified, HelperAlone, Healthy, RuntimeImageVerified
<1>8. FailedIsCleaned'
  BY <1>1, <1>2, Parties, Copies, ReconcilersKnow
     DEF FailedIsCleaned
<1>9. ASSUME OneReconciler PROVE ClosedByOne' /\ UncertainRetainsLock'
  <2>1. ClosedByOne /\ UncertainRetainsLock
    BY <1>9 DEF SInv
  <2>2. ClosedByOne'
    BY <1>1, <1>2, <1>9, <2>1, Parties, Copies, ReconcilersKnow
       DEF FailedIsCleaned, WorkflowHistory, ClosedByOne, OneReconciler
  <2>3. UncertainRetainsLock'
    BY <1>1, <1>2, <1>9, <2>1, Parties, Copies, ReconcilersKnow
       DEF UncertainRetainsLock, ClosedByOne, OneReconciler, WorkflowHistory, HelperAlone, ActiveHoldsLock,
           HoldsUpdateLock, LockIs
  <2> QED  BY <2>2, <2>3
<1> QED
  BY <1>3, <1>4, <1>5, <1>6, <1>7, <1>8, <1>9 DEF SInv, OneReconciler

\* Reconciliation leaves an operation open, under its lock.
LEMMA RecoveryKeeps ==
    ASSUME IInv, SInv, NEW r \in Reconcilers,
           RecUncertain(r)
    PROVE  SInv'
<1>1. LeftOpen(r)
  BY UncertainShape
<1> USE DEF LeftOpen, HelperRunning, Unlocked, OperatorPcs, WorkflowPcs, EarlyPcs, HelperPcs, ReconcilePcs,
            ManagerPhases, HelperPhases, TerminalPhases, Terminal, OwnRecord, Current, Unresolved
<1>2. /\ PruneHoldsLock /\ WorkflowHistory /\ ImageKept /\ HelperAlone /\ StillVerified /\ FailedIsCleaned
      /\ ActiveHoldsLock /\ manual \in Nat
  BY DEF SInv, IInv, TypeOK
<1>3. PruneHoldsLock'
  BY <1>1, <1>2, Parties, Copies, ReconcilersKnow
     DEF PruneHoldsLock, ReleaseOwners, HoldsUpdateLock, LockIs, Records
<1>4. WorkflowHistory'
  BY <1>1, <1>2, Parties, Copies, ReconcilersKnow
     DEF WorkflowHistory, FailedIsCleaned
<1>5. ImageKept'
  BY <1>1, <1>2, Parties, Copies, ReconcilersKnow
     DEF PruneHoldsLock, ImageKept, TargetKept, WorkflowHistory, ActiveHoldsLock, HoldsUpdateLock, LockIs,
         ReleaseOwners
<1>6. HelperAlone'
  BY <1>1, <1>2, Parties, Copies, ReconcilersKnow
     DEF HelperAlone, WorkflowHistory, ActiveHoldsLock, HoldsUpdateLock, LockIs
<1>7. StillVerified'
  BY <1>1, <1>2, Parties, Copies, ReconcilersKnow, HelperKnows
     DEF StillVerified, HelperAlone, Healthy, RuntimeImageVerified
<1>8. FailedIsCleaned'
  BY <1>1, <1>2, Parties, Copies, ReconcilersKnow
     DEF FailedIsCleaned
<1>9. ASSUME OneReconciler PROVE ClosedByOne' /\ UncertainRetainsLock'
  <2>1. ClosedByOne /\ UncertainRetainsLock
    BY <1>9 DEF SInv
  <2>2. ClosedByOne'
    BY <1>1, <1>2, <1>9, <2>1, Parties, Copies, ReconcilersKnow
       DEF FailedIsCleaned, WorkflowHistory, ClosedByOne, OneReconciler
  <2>3. UncertainRetainsLock'
    BY <1>1, <1>2, <1>9, <2>1, Parties, Copies, ReconcilersKnow
       DEF UncertainRetainsLock, ClosedByOne, OneReconciler, WorkflowHistory, HelperAlone, ActiveHoldsLock,
           HoldsUpdateLock, LockIs
  <2> QED  BY <2>2, <2>3
<1> QED
  BY <1>3, <1>4, <1>5, <1>6, <1>7, <1>8, <1>9 DEF SInv, OneReconciler

\* The operator's command, but for its write.
LEMMA OperatorStepsKeep ==
    ASSUME IInv, SInv,
           \/ OpRead \/ OpCheckHelper \/ OpFinish \/ OpCrash
    PROVE  SInv'
<1> USE DEF store, docker, bounds, Goto, Keep, Return, HelperUnchanged, RecUnchanged, Admit, Refuse,
            OpRead, OpCheckHelper, OpFinish, Finish, OpCrash, HelperRunning, Unlocked, OperatorPcs,
            WorkflowPcs, EarlyPcs, HelperPcs, ReconcilePcs, ManagerPhases, HelperPhases, TerminalPhases,
            Terminal, OwnRecord, Current, Unresolved
<1>2. /\ PruneHoldsLock /\ WorkflowHistory /\ ImageKept /\ HelperAlone /\ StillVerified /\ FailedIsCleaned
      /\ ActiveHoldsLock /\ manual \in Nat
  BY DEF SInv, IInv, TypeOK
<1>3. PruneHoldsLock'
  BY <1>2, Parties, Copies, OperatorKnows
     DEF PruneHoldsLock, ReleaseOwners, HoldsUpdateLock, LockIs, Records
<1>4. WorkflowHistory'
  BY <1>2, Parties, Copies, OperatorKnows
     DEF WorkflowHistory, FailedIsCleaned
<1>5. ImageKept'
  BY <1>2, Parties, Copies, OperatorKnows
     DEF PruneHoldsLock, ImageKept, TargetKept, WorkflowHistory, ActiveHoldsLock, HoldsUpdateLock, LockIs,
         ReleaseOwners
<1>6. HelperAlone'
  BY <1>2, Parties, Copies, OperatorKnows
     DEF HelperAlone, WorkflowHistory, ActiveHoldsLock, HoldsUpdateLock, LockIs
<1>7. StillVerified'
  BY <1>2, Parties, Copies, OperatorKnows
     DEF StillVerified, HelperAlone, Healthy, RuntimeImageVerified
<1>8. FailedIsCleaned'
  BY <1>2, Parties, Copies, OperatorKnows
     DEF FailedIsCleaned
<1>9. ASSUME OneReconciler PROVE ClosedByOne' /\ UncertainRetainsLock'
  <2>1. ClosedByOne /\ UncertainRetainsLock
    BY <1>9 DEF SInv
  <2>2. ClosedByOne'
    BY <1>2, <1>9, <2>1, Parties, Copies, OperatorKnows
       DEF FailedIsCleaned, WorkflowHistory, ClosedByOne, OneReconciler
  <2>3. UncertainRetainsLock'
    BY <1>2, <1>9, <2>1, Parties, Copies, OperatorKnows
       DEF UncertainRetainsLock, ClosedByOne, OneReconciler, WorkflowHistory, HelperAlone, ActiveHoldsLock,
           HoldsUpdateLock, LockIs
  <2> QED  BY <2>2, <2>3
<1> QED
  BY <1>3, <1>4, <1>5, <1>6, <1>7, <1>8, <1>9 DEF SInv, OneReconciler

\* The operator acknowledges an operation.
LEMMA AcknowledgingKeeps ==
    ASSUME IInv, SInv,
           OpAcknowledge
    PROVE  SInv'
<1>1. \/ /\ Wrote("operator") /\ pc'["operator"] = "finish"
         /\ state'.phase = snap["operator"].phase /\ state'.ack /\ Terminal(snap["operator"])
      \/ GaveUp("operator")
  BY OperatorWriteShape
<1> USE DEF Wrote, GaveUp, HelperRunning, Unlocked, OperatorPcs, WorkflowPcs, EarlyPcs, HelperPcs,
            ReconcilePcs, ManagerPhases, HelperPhases, TerminalPhases, Terminal, OwnRecord, Current,
            Unresolved
<1>2. /\ PruneHoldsLock /\ WorkflowHistory /\ ImageKept /\ HelperAlone /\ StillVerified /\ FailedIsCleaned
      /\ ActiveHoldsLock /\ manual \in Nat
  BY DEF SInv, IInv, TypeOK
<1>3. PruneHoldsLock'
  BY <1>1, <1>2, Parties, Copies, OperatorKnows
     DEF PruneHoldsLock, ReleaseOwners, HoldsUpdateLock, LockIs, Records
<1>4. WorkflowHistory'
  BY <1>1, <1>2, Parties, Copies, OperatorKnows
     DEF WorkflowHistory, FailedIsCleaned
<1>5. ImageKept'
  BY <1>1, <1>2, Parties, Copies, OperatorKnows
     DEF PruneHoldsLock, ImageKept, TargetKept, WorkflowHistory, ActiveHoldsLock, HoldsUpdateLock, LockIs,
         ReleaseOwners
<1>6. HelperAlone'
  BY <1>1, <1>2, Parties, Copies, OperatorKnows, HelperKnows
     DEF HelperAlone, WorkflowHistory, ActiveHoldsLock, HoldsUpdateLock, LockIs
<1>7. StillVerified'
  BY <1>1, <1>2, Parties, Copies, OperatorKnows, HelperKnows, ReconcilersKnow
     DEF StillVerified, HelperAlone, Healthy, RuntimeImageVerified
<1>8. FailedIsCleaned'
  BY <1>1, <1>2, Parties, Copies, OperatorKnows
     DEF FailedIsCleaned
<1>9. ASSUME OneReconciler PROVE ClosedByOne' /\ UncertainRetainsLock'
  <2>1. ClosedByOne /\ UncertainRetainsLock
    BY <1>9 DEF SInv
  <2>2. ClosedByOne'
    BY <1>1, <1>2, <1>9, <2>1, Parties, Copies, OperatorKnows
       DEF FailedIsCleaned, WorkflowHistory, ClosedByOne, OneReconciler
  <2>3. UncertainRetainsLock'
    BY <1>1, <1>2, <1>9, <2>1, Parties, Copies, OperatorKnows
       DEF UncertainRetainsLock, ClosedByOne, OneReconciler, WorkflowHistory, HelperAlone, ActiveHoldsLock,
           HoldsUpdateLock, LockIs
  <2> QED  BY <2>2, <2>3
<1> QED
  BY <1>3, <1>4, <1>5, <1>6, <1>7, <1>8, <1>9 DEF SInv, OneReconciler

\* Image pruning.
LEMMA PruneKeeps ==
    ASSUME IInv, SInv,
           \/ PruneAcquire \/ Prune \/ PruneRelease
    PROVE  SInv'
<1> USE DEF store, docker, bounds, Goto, Keep, Return, HelperUnchanged, RecUnchanged, Admit, Refuse,
            PruneAcquire, CreateLock, Prune, PruneRelease, AfterRelease, LockIs, HelperRunning, Unlocked,
            OperatorPcs, WorkflowPcs, EarlyPcs, HelperPcs, ReconcilePcs, ManagerPhases, HelperPhases,
            TerminalPhases, Terminal, OwnRecord, Current, Unresolved
<1>2. /\ PruneHoldsLock /\ WorkflowHistory /\ ImageKept /\ HelperAlone /\ StillVerified /\ FailedIsCleaned
      /\ ActiveHoldsLock /\ manual \in Nat
  BY DEF SInv, IInv, TypeOK
<1>3. PruneHoldsLock'
  <2>1. CASE PruneAcquire
    <3>1. lock' = [op |-> PruneOp, owner |-> "prune"] /\ lock' # None
      BY <2>1, NoneIsNoRecord DEF Locks, Owners
    <3> QED  BY <3>1 DEF PruneHoldsLock
  <2>2. CASE Prune
    BY <2>2, <1>2 DEF PruneHoldsLock
  <2>3. CASE PruneRelease
    BY <2>3, Parties, Copies DEF PruneHoldsLock
  <2> QED  BY <2>1, <2>2, <2>3
<1>4. WorkflowHistory'
  BY <1>2, Parties, Copies
     DEF WorkflowHistory, FailedIsCleaned
<1>5. ImageKept'
  BY <1>2, Parties, Copies
     DEF PruneHoldsLock, ImageKept, TargetKept, WorkflowHistory, ActiveHoldsLock, HoldsUpdateLock, LockIs,
         ReleaseOwners
<1>6. HelperAlone'
  BY <1>2, Parties, Copies
     DEF HelperAlone, WorkflowHistory, ActiveHoldsLock, HoldsUpdateLock, LockIs
<1>7. StillVerified'
  BY <1>2, Parties, Copies
     DEF StillVerified, HelperAlone, Healthy, RuntimeImageVerified
<1>8. FailedIsCleaned'
  BY <1>2, Parties, Copies
     DEF FailedIsCleaned
<1>9. ASSUME OneReconciler PROVE ClosedByOne' /\ UncertainRetainsLock'
  <2>1. ClosedByOne /\ UncertainRetainsLock
    BY <1>9 DEF SInv
  <2>2. ClosedByOne'
    BY <1>2, <1>9, <2>1, Parties, Copies
       DEF FailedIsCleaned, WorkflowHistory, ClosedByOne, OneReconciler
  <2>3. UncertainRetainsLock'
    BY <1>2, <1>9, <2>1, Parties, Copies
       DEF UncertainRetainsLock, ClosedByOne, OneReconciler, WorkflowHistory, HelperAlone, ActiveHoldsLock,
           HoldsUpdateLock, LockIs, Records
  <2> QED  BY <2>2, <2>3
<1> QED
  BY <1>3, <1>4, <1>5, <1>6, <1>7, <1>8, <1>9 DEF SInv, OneReconciler

\* The manager dies, or the operator deploys an image.
LEMMA RestartsKeep ==
    ASSUME IInv, SInv,
           \/ ManagerCrash \/ (\E i \in Images : ManualDeploy(i))
    PROVE  SInv'
<1> USE DEF store, docker, bounds, Goto, Keep, Return, HelperUnchanged, RecUnchanged, Admit, Refuse,
            ManagerCrash, ManagerRestarts, ManualDeploy, HelperRunning, Unlocked, OperatorPcs, WorkflowPcs,
            EarlyPcs, HelperPcs, ReconcilePcs, ManagerPhases, HelperPhases, TerminalPhases, Terminal,
            OwnRecord, Current, Unresolved
<1>2. /\ PruneHoldsLock /\ WorkflowHistory /\ ImageKept /\ HelperAlone /\ StillVerified /\ FailedIsCleaned
      /\ ActiveHoldsLock /\ manual \in Nat
  BY DEF SInv, IInv, TypeOK
<1>3. PruneHoldsLock'
  BY <1>2, Parties, Copies
     DEF PruneHoldsLock, ReleaseOwners, HoldsUpdateLock, LockIs, Records
<1>4. WorkflowHistory'
  BY <1>2, Parties, Copies
     DEF WorkflowHistory, FailedIsCleaned
<1>5. ImageKept'
  BY <1>2, Parties, Copies
     DEF PruneHoldsLock, ImageKept, TargetKept, WorkflowHistory, ActiveHoldsLock, HoldsUpdateLock, LockIs,
         ReleaseOwners
<1>6. HelperAlone'
  BY <1>2, Parties, Copies
     DEF HelperAlone, WorkflowHistory, ActiveHoldsLock, HoldsUpdateLock, LockIs
<1>7. StillVerified'
  BY <1>2, Parties, Copies
     DEF StillVerified, HelperAlone, Healthy, RuntimeImageVerified
<1>8. FailedIsCleaned'
  BY <1>2, Parties, Copies
     DEF FailedIsCleaned
<1>9. ASSUME OneReconciler PROVE ClosedByOne' /\ UncertainRetainsLock'
  <2>1. ClosedByOne /\ UncertainRetainsLock
    BY <1>9 DEF SInv
  <2>2. ClosedByOne'
    BY <1>2, <1>9, <2>1, Parties, Copies
       DEF FailedIsCleaned, WorkflowHistory, ClosedByOne, OneReconciler
  <2>3. UncertainRetainsLock'
    BY <1>2, <1>9, <2>1, Parties, Copies
       DEF UncertainRetainsLock, ClosedByOne, OneReconciler, WorkflowHistory, HelperAlone, ActiveHoldsLock,
           HoldsUpdateLock, LockIs
  <2> QED  BY <2>2, <2>3
<1> QED
  BY <1>3, <1>4, <1>5, <1>6, <1>7, <1>8, <1>9 DEF SInv, OneReconciler

-----------------------------------------------------------------------------
\* The second invariant holds at the start.
LEMMA InitSInv == Init => SInv
<1> SUFFICES ASSUME Init PROVE SInv
  OBVIOUS
<1>1. state = None /\ \A x \in Processes : pc[x] = "idle"
  BY DEF Init
<1> QED
  BY <1>1, Parties
  DEF SInv, PruneHoldsLock, WorkflowHistory, ImageKept, TargetKept, Unresolved, HelperAlone, StillVerified,
      FailedIsCleaned, ClosedByOne, UncertainRetainsLock

\* Every step preserves it.
LEMMA NextSInv == IInv /\ SInv /\ [Next]_vars => SInv'
<1> SUFFICES ASSUME IInv, SInv, [Next]_vars PROVE SInv'
  OBVIOUS
<1>1. CASE Workflow
  BY <1>1, WorkflowStepsKeep, PreparingKeeps, WorkflowWritesKeep, WorkflowAbandonsKeeps
  DEF Workflow, WorkflowStep
<1>2. CASE HelperProcess \/ HelperCrash
  BY <1>2, HelperStepsKeep, HelperAbandonsKeeps, HelperWritesKeep, RecreatingKeeps DEF HelperProcess
<1>3. ASSUME NEW r \in Reconcilers, Reconcile(r) PROVE SInv'
  BY <1>3, ReconcilerStepsKeep, ReconcilerWritesKeep, RecoveryKeeps DEF Reconcile, ReconcileStep
<1>4. CASE Operator
  BY <1>4, OperatorStepsKeep, AcknowledgingKeeps DEF Operator
<1>5. CASE UNCHANGED vars
  BY <1>5 DEF vars, SInv, PruneHoldsLock, WorkflowHistory, ImageKept, TargetKept, Unresolved, HelperAlone,
      StillVerified, FailedIsCleaned, ClosedByOne, UncertainRetainsLock, Unlocked, OwnRecord, Current,
      Healthy, RuntimeImageVerified, LockIs
<1> QED
  BY <1>1, <1>2, <1>3, <1>4, <1>5, PruneKeeps, RestartsKeep DEF Next

\* The release of a record is what runs.
Installed(s) == container.running /\ container.image = s.target /\ tag = s.target

\* A step that leaves the record alone, and records nothing for anybody.
Silent ==
    UNCHANGED state /\ \A r \in Reconcilers : pc[r] = "complete" => pc'[r] # "cleanup"

\* What a step does to the record: nothing, the first record of a new
\* operation, or the next one of the same, successful only when it is.
Accounted ==
    \/ Silent
    \/ Replaced
    \/ /\ state # None /\ state' # None /\ state'.op = state.op
       /\ state'.phase = "complete" /\ ~state'.ack /\ manual = 0 => Installed(state')
       /\ \A r \in Reconcilers : pc[r] = "complete" /\ pc'[r] = "cleanup" => Installed(state')

LEMMA WorkflowAccounted == IInv /\ SInv /\ Workflow => Accounted
<1> SUFFICES ASSUME IInv, SInv, Workflow PROVE Accounted
  OBVIOUS
<1>1. CASE WfWritePreparing
  BY <1>1, PrepareShape DEF Accounted
<1>2. CASE WfWriteDownloading \/ WfWriteVerified \/ WfWriteLoaded \/ WfWriteRestartQueued \/ WfFail
  BY <1>2, WorkflowWriteShape, Parties DEF Accounted, Silent, Wrote, GaveUp, WorkflowWrote, Current
<1>3. CASE WfWriteUncertain
  BY <1>3, AbandonShape, Parties DEF Accounted, Silent, Abandons, Current
<1>4. ASSUME \/ (\E o \in Ops : WfAcquire(o)) \/ WfAbort \/ WfInspectHelper \/ WfRemoveHelper
             \/ WfInspectContainer \/ (\E i \in Images : WfLoadImage(i)) \/ WfWriteRejected
             \/ Cleanup("workflow") \/ WfRelease \/ WfStartHelper \/ WfStartHelperError
      PROVE  Silent
  BY <1>4, Parties, Copies
  DEF Silent, store, Goto, Return, WfAcquire, WfAbort, WfInspectHelper, WfRemoveHelper, WfInspectContainer,
      WfLoadImage, WfWriteRejected, Cleanup, WfRelease, WfStartHelper, StartedHelper, WfStartHelperError
<1> QED
  BY <1>1, <1>2, <1>3, <1>4 DEF Workflow, WorkflowStep, Accounted

LEMMA HelperAccounted == IInv /\ SInv /\ (HelperProcess \/ HelperCrash) => Accounted
<1> SUFFICES ASSUME IInv, SInv, HelperProcess \/ HelperCrash PROVE Accounted
  OBVIOUS
<1>1. CASE \/ HpFail \/ HpWrite("recreating", "recreating", "relock")
           \/ HpWrite("verifying", "verifying", "health") \/ HpWrite("complete", "complete", "cleanup")
  <2>1. CASE GaveUp("helper")
    BY <2>1, Parties DEF Accounted, Silent, GaveUp
  <2>2. CASE Wrote("helper") /\ HelperWrote /\ state'.target = snap["helper"].target
    <3>1. pc["helper"] = "complete" /\ manual = 0 => Installed(state')
      BY <2>2 DEF SInv, StillVerified, Wrote, Healthy, RuntimeImageVerified, Installed
    <3> QED
      BY <2>2, <3>1, Parties DEF Accounted, Wrote, HelperWrote, Current
  <2> QED
    BY <1>1, <2>1, <2>2, HelperWriteShape
<1>2. CASE HpUncertain(UncertainPcs)
  BY <1>2, AbandonShape, Parties DEF Accounted, Silent, Abandons, Current
<1>3. ASSUME \/ HpRead \/ HpRequireLock("check", "inspect") \/ HpRequireLock("relock", "tag")
             \/ HpInspect \/ HpWriteOverride \/ HpConfig \/ HpReinspect \/ HpHealth
             \/ Cleanup("helper") \/ HpRelease \/ HelperCrash \/ HpTag \/ HpRecreate \/ HpRecreateError
      PROVE  Silent
  BY <1>3, Parties, Copies
  DEF Silent, store, Goto, Return, HelperExit, HpRead, HpRequireLock, HpInspect, HpWriteOverride, HpConfig,
      HpReinspect, HpHealth, Cleanup, HpRelease, HelperCrash, HpTag, HpRecreate, ManagerRestarts,
      HpRecreateError, ReconcilePcs
<1> QED
  BY <1>1, <1>2, <1>3 DEF HelperProcess, Accounted

LEMMA ReconcilerAccounted == IInv /\ SInv /\ (\E r \in Reconcilers : Reconcile(r)) => Accounted
<1> SUFFICES ASSUME IInv, SInv, NEW r \in Reconcilers, Reconcile(r) PROVE Accounted
  OBVIOUS
<1>1. CASE RecWrite(r)
  <2>1. CASE GaveUp(r)
    BY <2>1, Parties DEF Accounted, Silent, GaveUp
  <2>2. CASE /\ Wrote(r) /\ pc[r] \in {"complete", "failed"} /\ pc'[r] = "cleanup"
             /\ state'.phase = pc[r] /\ state'.target = snap[r].target /\ ~snap[r].ack
    <3>1. pc[r] = "complete" => Installed(state')
      BY <2>2 DEF SInv, StillVerified, Wrote, Healthy, RuntimeImageVerified, Installed
    <3> QED
      BY <2>2, <3>1, Parties DEF Accounted, Wrote, Current
  <2> QED
    BY <1>1, <2>1, <2>2, ReconcilerWriteShape
<1>2. CASE RecUncertain(r)
  BY <1>2, UncertainShape, Parties DEF Accounted, Silent, LeftOpen, Current
<1>3. ASSUME \/ RecStartup(r) \/ RecRequest(r) \/ RecBegin(r) \/ RecOrphan(r) \/ RecUnlock(r)
             \/ RecHelper(r) \/ RecError(r) \/ RecProbeHealthy(r) \/ RecProbeUnhealthy(r)
             \/ RecStillCurrent(r, "current-complete", "complete")
             \/ RecStillCurrent(r, "current-failed", "failed")
             \/ RecStillCurrent(r, "current-cleanup", "cleanup") \/ Cleanup(r)
             \/ RecRelease(r) \/ RecFinish(r)
      PROVE  Silent
  BY <1>3, Parties, Copies
  DEF Silent, store, Goto, Return, RecordRead, RecStartup, RecRequest, RecBegin, RecOrphan, RecUnlock,
      RecHelper,
      RecError, RecProbeHealthy, RecProbeUnhealthy, RecStillCurrent, Cleanup, RecRelease, RecFinish, Finish
<1> QED
  BY <1>1, <1>2, <1>3 DEF Reconcile, ReconcileStep, Accounted

\* Every step is accounted for.
LEMMA StepAccounted == IInv /\ SInv /\ [Next]_vars => Accounted
<1> SUFFICES ASSUME IInv, SInv, [Next]_vars PROVE Accounted
  OBVIOUS
<1>1. CASE Operator
  <2>1. CASE OpAcknowledge
    BY <2>1, OperatorWriteShape, Parties DEF Accounted, Silent, Wrote, GaveUp, Current
  <2>2. ASSUME OpRead \/ OpCheckHelper \/ OpFinish \/ OpCrash PROVE Silent
    BY <2>2, Parties, Copies
    DEF Silent, store, Goto, Return, OpRead, OpCheckHelper, OpFinish, Finish, OpCrash
  <2> QED
    BY <1>1, <2>1, <2>2 DEF Operator, Accounted
<1>2. ASSUME PruneAcquire \/ Prune \/ PruneRelease PROVE Silent
  BY <1>2, Parties, Copies DEF Silent, store, Goto, PruneAcquire, Prune, PruneRelease
<1>3. ASSUME ManagerCrash \/ (\E i \in Images : ManualDeploy(i)) \/ UNCHANGED vars PROVE Silent
  BY <1>3, Parties, Copies DEF Silent, store, vars, ManagerCrash, ManagerRestarts, ManualDeploy
<1> QED
  BY <1>1, <1>2, <1>3, WorkflowAccounted, HelperAccounted, ReconcilerAccounted DEF Next, Accounted

\* Image pruning never removes the image that an operation has loaded and
\* still has to install, however prunes, failures of a prune half-way,
\* crashes and operations interleave (dashboard.go, update.go).
THEOREM ImagesKept == Spec => []TargetKept
<1>1. Init => IInv /\ SInv
  BY InitIInv, InitSInv
<1>2. IInv /\ SInv /\ [Next]_vars => (IInv /\ SInv)'
  BY NextIInv, NextSInv
<1>3. SInv => TargetKept
  BY DEF SInv, ImageKept
<1> QED
  BY <1>1, <1>2, <1>3, PTL DEF Spec

LEMMA MutatesLocked == IInv /\ SInv => HelperMutatesUnderLock
<1> SUFFICES ASSUME IInv, SInv, pc["helper"] \in {"tag", "recreate"}
             PROVE  HoldsUpdateLock(snap["helper"].op)
  BY DEF HelperMutatesUnderLock
<1>1. Current(snap["helper"]) /\ snap["helper"].phase = "recreating"
  BY DEF SInv, HelperAlone
<1>2. state # None /\ state.phase = "recreating" /\ state.op = snap["helper"].op
  BY <1>1, HelperKnows DEF Current
<1> QED
  BY <1>2 DEF IInv, ActiveHoldsLock, Unresolved, Terminal, TerminalPhases

\* The helper retags and recreates only while its operation holds the
\* installation lock, and nobody works on the record meanwhile
\* (update_apply.go, requireUpdateLock).
THEOREM HelperWorksLocked == Spec => []HelperMutatesUnderLock
<1>1. Init => IInv /\ SInv
  BY InitIInv, InitSInv
<1>2. IInv /\ SInv /\ [Next]_vars => (IInv /\ SInv)'
  BY NextIInv, NextSInv
<1> QED
  BY <1>1, <1>2, MutatesLocked, PTL DEF Spec

\* While one recovery runs at a time, an uncertain operation keeps the
\* installation lock until it is acknowledged (README.md).  With several the
\* code does not keep it: the run uncertain_released.
THEOREM UncertainKeepsLock ==
    ASSUME OneReconciler PROVE Spec => []UncertainRetainsLock
<1>1. Init => IInv /\ SInv
  BY InitIInv, InitSInv
<1>2. IInv /\ SInv /\ [Next]_vars => (IInv /\ SInv)'
  BY NextIInv, NextSInv
<1>3. SInv => UncertainRetainsLock
  BY OneReconciler DEF SInv
<1> QED
  BY <1>1, <1>2, <1>3, PTL DEF Spec

\* While one recovery runs at a time, a record gives way to another
\* operation's only when it is closed (update.go, claimUpdateLock).
THEOREM ReplacedWhenClosed ==
    ASSUME OneReconciler PROVE Spec => ReplacedOnlyWhenClosed
<1>1. Init => IInv /\ SInv
  BY InitIInv, InitSInv
<1>2. IInv /\ SInv /\ [Next]_vars => (IInv /\ SInv)'
  BY NextIInv, NextSInv
<1>3. IInv /\ SInv /\ [Next]_vars =>
        [state # None /\ state'.op # state.op
           => /\ Terminal(state)
              /\ state.phase = "uncertain" => state.ack]_state
  <2> SUFFICES ASSUME IInv, SInv, [Next]_vars, state' # state, state # None, state'.op # state.op
               PROVE  Terminal(state) /\ (state.phase = "uncertain" => state.ack)
    OBVIOUS
  <2>1. Replaced
    BY StepAccounted DEF Accounted, Silent
  <2>2. UncertainRetainsLock
    BY OneReconciler DEF SInv
  <2> QED
    BY <2>1, <2>2 DEF Replaced, UncertainRetainsLock, LockIs
<1> QED
  BY <1>1, <1>2, <1>3, PTL DEF Spec, ReplacedOnlyWhenClosed

\* Unless the operator deployed by hand, an operation is recorded as
\* complete only while the manager runs the target image and the runtime
\* reference resolves to it (update_apply.go, update_recovery.go).
THEOREM CompletionVerified == Spec => CompleteIsVerified
<1>1. Init => IInv /\ SInv
  BY InitIInv, InitSInv
<1>2. IInv /\ SInv /\ [Next]_vars => (IInv /\ SInv)'
  BY NextIInv, NextSInv
<1>3. IInv /\ SInv /\ [Next]_vars =>
        [/\ state' # None /\ state'.phase = "complete" /\ ~state'.ack
         /\ manual = 0
         => /\ container.running /\ container.image = state'.target
            /\ tag = state'.target]_state
  BY StepAccounted DEF Accounted, Silent, Replaced, Installed
<1> QED
  BY <1>1, <1>2, <1>3, PTL DEF Spec, CompleteIsVerified

\* A step of RecoveryIsVerified.
RecoveryStep ==
    \A r \in Reconcilers :
        pc[r] = "complete" /\ pc'[r] = "cleanup"
        => /\ container.running /\ container.image = state'.target
           /\ tag = state'.target

LEMMA RecoveryStepVerified == IInv /\ SInv /\ [Next]_vars => [RecoveryStep]_vars
BY StepAccounted, Parties DEF RecoveryStep, Accounted, Silent, Replaced, Installed

\* Startup recovery and Settings report success only for what runs,
\* whatever the operator deployed before (update_recovery.go).
THEOREM RecoveryVerified == Spec => RecoveryIsVerified
<1>1. Init => IInv /\ SInv
  BY InitIInv, InitSInv
<1>2. IInv /\ SInv /\ [Next]_vars => (IInv /\ SInv)'
  BY NextIInv, NextSInv
<1> QED
  BY <1>1, <1>2, RecoveryStepVerified, PTL DEF Spec, RecoveryIsVerified, RecoveryStep
=============================================================================
