------------------------------ MODULE MCEndings -------------------------------
(***************************************************************************)
(* What is begun ends: tracked jobs and their shutdown, the jobs of the    *)
(* stores, creations, clones and deletions of applications, and changes of *)
(* the routing.  A behaviour is one of one component, the others rest;     *)
(* which says of which.  A component that rests enables none of the        *)
(* actions its fairness is about.                                          *)
(***************************************************************************)
EXTENDS Integers, TLC

CONSTANTS r1, r2, r3,  \* requests
          s1, c1,      \* a service; a caller of Shutdown
          f1, f2,      \* folders
          Nil

VARIABLES
  which,
  closed, busy, slots, workers, pc, key, state, finished, shown, shut,
  store, jobs, listed, leases, req, durable,
  stored, file, running, compose, up, appLock, proxyLock, proc, ops, crashes,
  rows, nextId, services, routes, intents, backing, dirs, containers, caddy, timers, locks,
  step, asked, deaths, failures

tracked == <<closed, busy, slots, workers, pc, key, state, finished, shown, shut>>
progress == <<store, jobs, listed, leases, req, durable>>
routing == <<stored, file, running, compose, up, appLock, proxyLock, proc, ops, crashes>>
application == <<rows, nextId, services, routes, intents, backing, dirs, containers, caddy,
                 timers, locks, step, asked, deaths, failures>>
vars == <<which, tracked, progress, routing, application>>

(* Three requests for one service, one slot, one record kept.              *)
Tracked == INSTANCE TrackedJobs WITH
  running <- busy, listed <- shown, Requests <- {r1, r2, r3}, Services <- {s1}, Callers <- {c1},
  None <- Nil, Capacity <- 1, MaxRetained <- 1

(* Two requests of one key; a store of each kind.                          *)
Progress == INSTANCE JobProgress WITH
  Requests <- {r1, r2}, Keys <- {"k1"}, Inputs <- {"i1"},
  Stores <- {"api-run", "service-action", "postgres", "application-version"}

Owner == "da" :> "a" @@ "ra" :> "a" @@ "pa" :> "a" @@ "db" :> "b" @@ "host" :> ""

(* Two requests with every fault and one crash.                            *)
Routed == INSTANCE Routing WITH
  Procs <- {r1, r2}, Apps <- {"a", "b"}, Domains <- {"da", "db"}, Routes <- {"ra"},
  Hosts <- {"host"}, Policies <- {"pa"}, NoApp <- "", Values <- {"v", "w"},
  Brotli <- {"brotli"}, Custom <- FALSE, MaxOps <- 3, MaxCrashes <- 1,
  Faults <- {"reload", "cancel", "write", "late"}

(* Two requests, two folders and two applications.                         *)
Applications == INSTANCE ApplicationLifecycle WITH
  None <- Nil, lease <- backing, pc <- step, op <- asked, crashes <- deaths, Requests <- {r1, r2},
  Folders <- {f1, f2}, MaxId <- 2, MaxCrashes <- 0, MaxFailures <- 0

Init ==
  /\ which \in {"tracked", "progress", "routing", "applications"}
  /\ Tracked!Init
  /\ Progress!Init /\ (which = "progress" \/ store = "api-run")
  /\ Routed!Init /\ (which = "routing" \/ compose = "mounted")
  /\ Applications!Init

Next ==
  \/ which = "tracked" /\ Tracked!Next
     /\ UNCHANGED <<which, progress, routing, application>>
  \/ which = "progress" /\ Progress!Next
     /\ UNCHANGED <<which, tracked, routing, application>>
  \/ which = "routing" /\ Routed!Next
     /\ UNCHANGED <<which, tracked, progress, application>>
  \/ which = "applications" /\ Applications!Next
     /\ UNCHANGED <<which, tracked, progress, routing>>

Fairness ==
  /\ Tracked!Fairness /\ Progress!Fairness /\ Routed!Fairness
  /\ Applications!Fairness

FairSpec == Init /\ [][Next]_vars /\ Fairness

(* What has begun and not ended: a tracked job whose record says running,  *)
(* a shutdown that waits for workers, a job of a store, a change of the    *)
(* routing, an operation of an application.  Requests are interchangeable: *)
(* what holds of one holds of all.                                         *)
Working ==
  CASE which = "tracked" -> state[r1] = "running" \/ (closed /\ workers # 0)
    [] which = "progress" -> jobs[r1].state = "running"
    [] which = "routing" -> proc[r1].pc # "idle"
    [] which = "applications" -> step[r1] # "idle"

(* Whatever is begun ends: no record stays at running and blocks its key,  *)
(* no shutdown waits for ever, no lock is kept, no request joins a job     *)
(* nobody works on.                                                        *)
WorkEnds == Working ~> ~Working
=============================================================================
