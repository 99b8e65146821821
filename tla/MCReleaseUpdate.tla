--------------------------- MODULE MCReleaseUpdate ---------------------------
EXTENDS ReleaseUpdate, FiniteSets, TLC

Symmetry == Permutations(Ops) \cup Permutations(Images) \cup Permutations(Reconcilers)

(* Bound: after a deployment by hand neither a crash nor a second update.  *)
(* Run host has such a deployment beside two reconciliations.              *)
AloneByHand == manual > 0 => crashes = 0 /\ Cardinality(used) <= 1

BoundedSpec == Init /\ [][Next /\ AloneByHand']_vars
=============================================================================
