--------------------------- MODULE MCTrackedJobs ---------------------------
(* Symmetry for TLC's safety run: requests, services and callers of         *)
(* Shutdown are interchangeable.                                            *)
EXTENDS TrackedJobs, TLC

Symmetry == Permutations(Requests) \cup Permutations(Services) \cup Permutations(Callers)
=============================================================================
