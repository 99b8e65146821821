------------------------------ MODULE MCRegistry ------------------------------
(***************************************************************************)
(* What the registry retains, and version deployments beside retention.  A *)
(* behaviour is one of one component, the other rests; which says of       *)
(* which, and in which instance.                                           *)
(***************************************************************************)
EXTENDS Integers, TLC

CONSTANTS r1, r2, r,  \* requests
          None

VARIABLES
  which,
  present, tagged, protected, unknown, refs, keep, queue, phase,
  tag, release, revs, local, running, exists, lock, proc, maint, latest, runs

retention == <<present, tagged, protected, unknown, refs, keep, queue, phase>>
deployment == <<tag, release, revs, local, running, exists, lock, proc, maint, latest, runs>>
vars == <<which, retention, deployment>>

Symmetry == Permutations({r1, r2})

(* Every registry of three digests, newest first, and quotas up to two.    *)
Retention == INSTANCE RegistryRetention WITH N <- 3, Keeps <- {0, 1, 2}

AppOf == "a1" :> "a" @@ "a2" :> "a" @@ "b1" :> "b"
RepositoryOf == "a1" :> "repo1" @@ "a2" :> "repo2" @@ "b1" :> "repo3"

(* Two requests deploy versions of the two services of one application,    *)
(* while pulls and container starts fail.                                  *)
Deployments == INSTANCE VersionDeployment WITH
  Apps <- {"a", "b"}, Services <- {"a1", "a2"}, Order <- <<"a1", "a2">>,
  Repositories <- {"repo1", "repo2"}, Procs <- {r1, r2}, MaxDigest <- 3,
  Faults <- {"pull", "up"}, PushDuring <- FALSE, Runs <- 3, Late <- {}, CreateDuring <- FALSE

(* Retention beside deployments and pushes, with an application created    *)
(* while the manager serves, but not while a maintenance runs.             *)
Retained == INSTANCE VersionDeployment WITH
  Apps <- {"a", "b"}, Services <- {"a1", "b1"}, Order <- <<"a1", "b1">>,
  Repositories <- {"repo1", "repo3"}, Procs <- {r}, MaxDigest <- 3,
  Faults <- {"pull", "up", "move", "cancel"}, PushDuring <- TRUE, Runs <- 3, Late <- {"b"},
  CreateDuring <- FALSE

Init ==
  /\ which \in {"retention", "deployments", "retained"}
  /\ IF which = "retention" THEN Retention!Init
     ELSE /\ present = 1..3 /\ queue = <<>> /\ phase = "plan" /\ refs = [d \in 1..3 |-> {}]
          /\ tagged = {} /\ protected = {} /\ unknown = {} /\ keep = 0
  /\ IF which = "retained" THEN Retained!Init ELSE Deployments!Init
  /\ (which \in {"deployments", "retained"} \/ \A x \in DOMAIN release : release[x] = 0)

Next ==
  \/ which = "retention" /\ Retention!Next /\ UNCHANGED <<which, deployment>>
  \/ /\ \/ which = "deployments" /\ Deployments!Next
        \/ which = "retained" /\ Retained!Next
     /\ UNCHANGED <<which, retention>>

Spec == Init /\ [][Next]_vars

(* The variables of each component have their types.                       *)
TypeOK ==
  CASE which = "retention" -> Retention!TypeOK
    [] which = "deployments" -> Deployments!TypeOK
    [] which = "retained" -> Retained!TypeOK

(* Wherever a retention run is interrupted, an index the registry has has  *)
(* the manifests of its platforms.                                         *)
GraphWhole == which = "retention" => Retention!GraphWhole

(* When a retention run is over the newest versions of the quota are left. *)
NewestKept == which = "retention" => Retention!NewestKept

(* Beyond the quota nothing is left but what is exempt or part of it.      *)
NothingBeyondQuota == which = "retention" => Retention!NothingBeyondQuota

(* A manifest graph that is not complete stops the run before it deletes.  *)
IncompleteKeepsAll == which = "retention" => Retention!IncompleteKeepsAll

(* The registry never disagrees with the running service: the deployment   *)
(* tag is the version that runs, also when a deployment failed.            *)
TagAgrees == which = "deployments" => Deployments!TagAgrees

(* A service whose deployment ends as deployed runs the selected version.  *)
DeployedIsSelected == [][which = "deployments" => Deployments!RecreatesSelected]_vars

(* Retention beside deployments never removes the version a service runs   *)
(* or is switched to.                                                      *)
RunningKept == which = "retained" => Retained!RunningKept

(* Together: a retention run deletes exactly what lies beyond the quota,   *)
(* breaks no image wherever it stops, and deletes nothing on a graph it    *)
(* could not read.                                                         *)
RetentionExact == TypeOK /\ GraphWhole /\ NewestKept /\ NothingBeyondQuota /\ IncompleteKeepsAll

(* Together: the tag, the container and the version somebody selected are  *)
(* one, and retention beside it spares that version.                       *)
VersionsAgree == [](TagAgrees /\ RunningKept) /\ DeployedIsSelected
=============================================================================
