----------------------------- MODULE KeyedMutex -----------------------------
(***************************************************************************)
(* What the project lock manager promises its callers: at any moment each  *)
(* project key is held by at most one caller, a caller that holds a key    *)
(* got it while nobody else had it, and keys do not interfere.             *)
(***************************************************************************)
CONSTANTS Procs,  \* the callers (one goroutine's request for one key)
          Keys    \* the project keys

VARIABLE held     \* the pairs <<p, k>> such that caller p holds key k

Init == held = {}

Take(p, k) ==
    /\ \A q \in Procs : <<q, k>> \notin held
    /\ \A j \in Keys : <<p, j>> \notin held
    /\ held' = held \cup {<<p, k>>}

Drop(p, k) ==
    /\ <<p, k>> \in held
    /\ held' = held \ {<<p, k>>}

Next == \E p \in Procs, k \in Keys : Take(p, k) \/ Drop(p, k)

Spec == Init /\ [][Next]_held
=============================================================================
