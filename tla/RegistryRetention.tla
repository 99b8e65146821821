-------------------------- MODULE RegistryRetention --------------------------
(***************************************************************************)
(* Which versions of a repository retention removes, and in which order    *)
(* (application/registry_retention.go, applied by retainVersionsLocked in  *)
(* service/registry_maintenance.go).  A version is a manifest digest;      *)
(* digests are the numbers 1..N in the order of the listing, newest first, *)
(* those without a push time last.  An image index refers to the manifests *)
(* of its platforms.  Manifests are addressed by their content, so the     *)
(* references have no cycle.  0 is a manifest the registry does not have.  *)
(***************************************************************************)
EXTENDS Integers, Sequences, FiniteSets, SequencesExt

CONSTANTS N, Keeps

VARIABLES present,   \* digests the registry has
          tagged, protected, unknown, refs, keep,
          queue,     \* DeleteOrder, what is left of it
          phase

input == <<tagged, protected, unknown, refs, keep>>
vars == <<present, input, queue, phase>>

Digests == 1..N

TypeOK ==
    /\ present \subseteq Digests /\ keep \in Keeps /\ queue \in Seq(Digests)
    /\ refs \in [Digests -> SUBSET (0..N)]
    /\ phase \in {"plan", "delete", "done", "failed"}

Acyclic(g) == \E rank \in [Digests -> Digests] :
                 \A p \in Digests : \A c \in g[p] : rank[p] < rank[c]

Init ==
    /\ present = Digests /\ queue = <<>> /\ phase = "plan"
    /\ tagged \in SUBSET Digests /\ protected \in SUBSET Digests
    /\ \E u \in 1..N + 1 : unknown = u..N
    /\ \E g \in {h \in [Digests -> SUBSET Digests] : Acyclic(h)}, p \in 0..N :
          refs = [d \in Digests |-> IF d = p THEN g[d] \cup {0} ELSE g[d]]
    /\ keep \in Keeps
-----------------------------------------------------------------------------
(* SelectRegistryVersions and PlanRegistryRetention *)

Children == UNION {refs[d] : d \in Digests}
\* An untagged child belongs to its index.
Excluded(d) == d \in Children /\ d \notin tagged
\* Versions that are kept whatever their age and use up no quota.
Exempt(d) == d \in unknown \cup protected
Newer(d) == {e \in 1..d - 1 : ~Excluded(e) /\ ~Exempt(e)}

\* Fault: the quota counts the version itself.
WithinSmallerQuota(d) == Cardinality(Newer(d)) + 1 < keep
WithinQuota(d) == Cardinality(Newer(d)) < keep

\* Fault: protection uses up the quota of newer versions.
SelectCounted ==
    IF keep = 0 THEN Digests
    ELSE {d \in Digests : ~Excluded(d) /\ (Exempt(d) \/ d <= keep + 1)}
SelectRegistryVersions ==
    IF keep = 0 THEN Digests
    ELSE {d \in Digests : ~Excluded(d) /\ (Exempt(d) \/ WithinQuota(d))}

RECURSIVE Descendants(_)
Descendants(S) ==
    LET next == S \cup UNION {refs[d] : d \in S \cap Digests}
    IN IF next = S THEN S ELSE Descendants(next)

\* Fault: the manifests of a kept index are not kept with it.
RetainRoots == SelectRegistryVersions
RetainChildren == Descendants(SelectRegistryVersions) \cap Digests

Parents(d) == SetToSortSeq({p \in Digests : d \in refs[p]}, <)

\* Fault: an index is deleted after its manifests.
RECURSIVE ChildrenFirst(_, _)
ChildrenFirst(out, d) ==
    IF d \in RetainChildren \cup ToSet(out) THEN out
    ELSE FoldLeft(ChildrenFirst, Append(out, d), Parents(d))
RECURSIVE OrderDeletion(_, _)
OrderDeletion(out, d) ==
    IF d \in RetainChildren \cup ToSet(out) THEN out
    ELSE Append(FoldLeft(OrderDeletion, out, Parents(d)), d)

DeleteOrder == FoldLeft(OrderDeletion, <<>>, [d \in Digests |-> d])

\* Fault: references that cannot be resolved are skipped.
AlwaysComplete == TRUE
GraphComplete == 0 \notin Children

Plan ==
    /\ phase = "plan"
    /\ IF GraphComplete THEN queue' = DeleteOrder /\ phase' = "delete"
                        ELSE queue' = <<>> /\ phase' = "failed"
    /\ UNCHANGED <<present, input>>

\* DeleteRegistryVersion removes the manifest and the tags that name it.
DeleteRegistryVersion ==
    /\ phase = "delete" /\ queue # <<>>
    /\ present' = present \ {Head(queue)} /\ queue' = Tail(queue)
    /\ UNCHANGED <<input, phase>>

\* A deletion fails or the context is cancelled: the rest stays.
Interrupt ==
    /\ phase = "delete" /\ queue # <<>>
    /\ phase' = "failed" /\ queue' = <<>>
    /\ UNCHANGED <<present, input>>

Finish ==
    /\ phase = "delete" /\ queue = <<>>
    /\ phase' = "done"
    /\ UNCHANGED <<present, input, queue>>

Next == Plan \/ DeleteRegistryVersion \/ Interrupt \/ Finish
Spec == Init /\ [][Next]_vars
-----------------------------------------------------------------------------
(* Properties *)

\* At every moment of a retention run, and wherever it is interrupted, an
\* image the registry has is complete: the manifests of its platforms are there.
GraphWhole == \A d \in present : refs[d] \ {0} \subseteq present

\* When the run is over the newest versions of the quota are there.
NewestKept ==
    phase = "done" /\ keep > 0 =>
        \A d \in Digests : d \notin unknown /\ d \notin Children
                           /\ Cardinality({e \in 1..d - 1 : e \notin Children \/ e \in tagged}) < keep
                           => d \in present

\* And beyond the quota nothing is left but what is exempt or part of it.
NothingBeyondQuota ==
    phase = "done" /\ keep > 0 =>
        Cardinality({d \in present : ~Exempt(d) /\ d \notin Children}) <= keep

\* A manifest graph that is not complete stops the run before it deletes.
IncompleteKeepsAll == 0 \in Children => present = Digests

\* A version a container runs, or that a service names by tag or digest, is
\* never removed.
\* The code does not keep this: README, "Disagreements".
ProtectedKept == protected \subseteq present
=============================================================================
