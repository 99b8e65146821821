-------------------------- MODULE VersionDeployment --------------------------
(***************************************************************************)
(* Switching services to another version of their image: the tag a service *)
(* deploys from is moved in the registry, the image pulled and the         *)
(* container recreated, with the tag moved back on a failure               *)
(* (service/service_versions.go, MoveRegistryTag in compose/registry.go);  *)
(* beside it the retention that removes versions                           *)
(* (runRegistryMaintenance in service/registry_retention.go).              *)
(* Digests are numbers; 0 is no digest.                                    *)
(***************************************************************************)
EXTENDS Integers, FiniteSets, Sequences

CONSTANTS None, Apps, Services, Repositories,
          AppOf, RepositoryOf,  \* functions on Services
          Order,       \* the services in the order of their registration
          Procs,       \* requests that deploy
          MaxDigest,
          Faults,      \* steps that may fail: "pull", "up", "move", "cancel"
          PushDuring,  \* a push may come while a deployment runs
          Runs,        \* bound on the deployments
          Late,        \* applications that are created while the manager serves
          CreateDuring \* also while a maintenance runs

VARIABLES tag,      \* per repository: the digest of the deployment tag
          release,  \* per repository: the digest of the tag an operator selects
          revs,     \* per repository: the manifest revisions
          local,    \* per repository: the image Docker has for the deployment tag
          running,  \* per service: the digest of its container
          exists,   \* registered applications
          lock,     \* per application: the holder of its project lock
          proc,     \* per request
          maint,    \* the maintenance: step, listed applications, protected digests
          latest,   \* history: what was pushed last to the deployment tag
          runs

registry == <<tag, release, revs, latest>>
docker == <<local, running>>
vars == <<registry, docker, exists, lock, proc, maint, runs>>

Digests == 1..MaxDigest
Idle == [pc |-> "idle", app |-> None, todo |-> <<>>, digest |-> 0, previous |-> 0,
         source |-> [r \in Repositories |-> 0], outcome |-> "none"]
NoMaintenance == [pc |-> "idle", listed |-> {}, protected |-> {}]

TypeOK ==
    /\ tag \in [Repositories -> 0..MaxDigest] /\ release \in [Repositories -> 0..MaxDigest]
    /\ revs \in [Repositories -> SUBSET Digests] /\ local \in [Repositories -> 0..MaxDigest]
    /\ running \in [Services -> 0..MaxDigest] /\ exists \subseteq Apps
    /\ lock \in [Apps -> Procs \cup {"maintenance", None}]
    /\ \A p \in Procs : proc[p].pc \in {"pull", "up", "undo"} => lock[proc[p].app] = p
    /\ maint.pc \in {"idle", "lock", "protect", "delete"}

Init ==
    /\ tag = [r \in Repositories |-> 1] /\ latest = tag /\ local = tag
    /\ release \in [Repositories -> {0, 2}]
    /\ revs = [r \in Repositories |-> {1, 2}]
    /\ exists = Apps \ Late
    /\ running = [s \in Services |-> IF AppOf[s] \in exists THEN 1 ELSE 0]
    /\ lock = [a \in Apps |-> None] /\ proc = [p \in Procs |-> Idle]
    /\ maint = NoMaintenance /\ runs = 0

Set(p, f) == proc' = [proc EXCEPT ![p] = f]
Service(p) == Head(proc[p].todo)
Repo(p) == RepositoryOf[Service(p)]
ServicesOf(a) == SelectSeq(Order, LAMBDA s : AppOf[s] = a)
-----------------------------------------------------------------------------
(* Deployments *)

\* DeployServiceVersion: a digest the operator selected from the listing.
DeployServiceVersion(p, s, d) ==
    /\ proc[p].pc = "idle" /\ runs < Runs /\ runs' = runs + 1
    /\ AppOf[s] \in exists /\ d \in revs[RepositoryOf[s]]
    /\ Set(p, [Idle EXCEPT !.pc = "lock", !.app = AppOf[s], !.todo = <<s>>,
                           !.source = [r \in Repositories |-> d]])
    /\ UNCHANGED <<registry, docker, exists, lock, maint>>

\* DeployApplicationVersion: the selected tag, looked up under the lock.
DeployApplicationVersion(p, a) ==
    /\ proc[p].pc = "idle" /\ runs < Runs /\ runs' = runs + 1
    /\ a \in exists /\ ServicesOf(a) # <<>>
    /\ Set(p, [Idle EXCEPT !.pc = "lock", !.app = a, !.todo = ServicesOf(a)])
    /\ UNCHANGED <<registry, docker, exists, lock, maint>>

Acquire(p) ==
    /\ proc[p].pc = "lock" /\ lock[proc[p].app] = None
    /\ lock' = [lock EXCEPT ![proc[p].app] = p]
    /\ Set(p, [proc[p] EXCEPT !.pc = "move",
                  !.source = IF \E r \in Repositories : @[r] # 0 THEN @ ELSE release])
    /\ UNCHANGED <<registry, docker, exists, maint, runs>>

\* The next service of an application, also after a failed one; else the end.
Advance(p, outcome) ==
    IF Len(proc[p].todo) = 1
    THEN /\ Set(p, [Idle EXCEPT !.outcome = outcome])
         /\ lock' = [lock EXCEPT ![proc[p].app] = None]
    ELSE /\ Set(p, [proc[p] EXCEPT !.pc = "move", !.todo = Tail(@)])
         /\ UNCHANGED lock

\* The repository has no image of that tag, or not this revision any more.
Skip(p) ==
    /\ proc[p].pc = "move" /\ proc[p].source[Repo(p)] \notin revs[Repo(p)]
    /\ Advance(p, "skipped")
    /\ UNCHANGED <<registry, docker, exists, maint, runs>>

MoveTag(p) ==
    LET d == proc[p].source[Repo(p)] IN
    /\ proc[p].pc = "move" /\ d \in revs[Repo(p)]
    /\ tag' = [tag EXCEPT ![Repo(p)] = d]
    /\ Set(p, [proc[p] EXCEPT !.pc = "pull", !.digest = d, !.previous = tag[Repo(p)]])
    /\ UNCHANGED <<release, revs, latest, docker, exists, lock, maint, runs>>

\* An error of MoveRegistryTag: its rename may have been carried out; the
\* caller does not restore the tag.
MoveTagFails(p) ==
    /\ proc[p].pc = "move" /\ "move" \in Faults
    /\ proc[p].source[Repo(p)] \in revs[Repo(p)]
    /\ tag' \in {tag, [tag EXCEPT ![Repo(p)] = proc[p].source[Repo(p)]]}
    /\ Advance(p, "failed")
    /\ UNCHANGED <<release, revs, latest, docker, exists, maint, runs>>

\* Fault: an image that Docker has already is not pulled again.
PullCached(p) ==
    /\ proc[p].pc = "pull"
    /\ Set(p, [proc[p] EXCEPT !.pc = "up"])
    /\ UNCHANGED <<registry, docker, exists, lock, maint, runs>>
PullService(p) ==
    /\ proc[p].pc = "pull"
    /\ local' = [local EXCEPT ![Repo(p)] = tag[Repo(p)]]
    /\ Set(p, [proc[p] EXCEPT !.pc = "up"])
    /\ UNCHANGED <<registry, running, exists, lock, maint, runs>>

Recreate(p) ==
    /\ proc[p].pc = "up"
    /\ running' = [running EXCEPT ![Service(p)] = local[Repo(p)]]
    /\ Advance(p, "deployed")
    /\ UNCHANGED <<registry, local, exists, maint, runs>>

\* The pull fails, or the new container does not start and the old one is gone.
DeployFails(p) ==
    /\ \/ proc[p].pc = "pull" /\ "pull" \in Faults /\ UNCHANGED running
       \/ /\ proc[p].pc = "up" /\ "up" \in Faults
          /\ running' \in {running, [running EXCEPT ![Service(p)] = 0]}
    /\ Set(p, [proc[p] EXCEPT !.pc = "undo"])
    /\ UNCHANGED <<registry, local, exists, lock, maint, runs>>

\* Fault: the tag is left at the version that could not be deployed.
KeepMovedTag(p) == UNCHANGED tag
RestoreVersionTag(p) == tag' = [tag EXCEPT ![Repo(p)] = proc[p].previous]

Undo(p) ==
    /\ proc[p].pc = "undo" /\ proc[p].previous \in revs[Repo(p)] \cup {0}
    /\ RestoreVersionTag(p)
    /\ Advance(p, "failed")
    /\ UNCHANGED <<release, revs, latest, docker, exists, maint, runs>>

\* restoreVersionTag runs with the request's context, which has ended.
UndoFails(p) ==
    /\ proc[p].pc = "undo"
    /\ "cancel" \in Faults \/ proc[p].previous \notin revs[Repo(p)] \cup {0}
    /\ Advance(p, "failed")
    /\ UNCHANGED <<registry, docker, exists, maint, runs>>
-----------------------------------------------------------------------------
(* Retention, pushes and new applications *)

List ==
    /\ maint.pc = "idle" /\ runs < Runs /\ runs' = runs + 1
    /\ maint' = [NoMaintenance EXCEPT !.pc = "lock", !.listed = exists]
    /\ UNCHANGED <<registry, docker, exists, lock, proc>>

\* Project locks in the order of the applications.
LockProject(a) ==
    /\ maint.pc = "lock" /\ a \in maint.listed
    /\ lock[a] = None /\ lock' = [lock EXCEPT ![a] = "maintenance"]
    /\ maint' = [maint EXCEPT !.pc = IF \A b \in maint.listed : lock'[b] = "maintenance" THEN "protect" ELSE "lock"]
    /\ UNCHANGED <<registry, docker, exists, proc, runs>>

\* Fault: only what the tags name is protected, not what containers run.
ProtectTagged(r) == {tag[r]}
ProtectedRegistryVersions(r) ==
    UNION {{running[s], tag[r]} : s \in {t \in Services : AppOf[t] \in maint.listed /\ RepositoryOf[t] = r}}

Protect ==
    /\ maint.pc = "protect"
    /\ maint' = [maint EXCEPT !.pc = "delete",
                    !.protected = [r \in Repositories |-> ProtectedRegistryVersions(r)]]
    /\ UNCHANGED <<registry, docker, exists, lock, proc, runs>>

\* Some of the versions that are not protected are beyond the quota.
DeleteVersions ==
    /\ maint.pc = "delete"
    /\ \E r \in Repositories : \E D \in SUBSET (revs[r] \ maint.protected[r]) :
          /\ revs' = [revs EXCEPT ![r] = @ \ D]
          /\ tag' = [tag EXCEPT ![r] = IF @ \in D THEN 0 ELSE @]
          /\ release' = [release EXCEPT ![r] = IF @ \in D THEN 0 ELSE @]
    /\ lock' = [a \in Apps |-> IF lock[a] = "maintenance" THEN None ELSE lock[a]]
    /\ maint' = NoMaintenance
    /\ UNCHANGED <<latest, docker, exists, proc, runs>>

Deploying(r) == \E p \in Procs : proc[p].pc \in {"pull", "up", "undo"} /\ Repo(p) = r

\* docker push to the deployment tag; a maintenance window refuses it.
Push(r) ==
    /\ maint.pc # "delete" /\ (PushDuring \/ ~Deploying(r))
    /\ \E d \in Digests \ revs[r] :
          /\ revs' = [revs EXCEPT ![r] = @ \cup {d}]
          /\ tag' = [tag EXCEPT ![r] = d] /\ latest' = [latest EXCEPT ![r] = d]
    /\ UNCHANGED <<release, docker, exists, lock, proc, maint, runs>>

\* A new application starts its services from their tag.
CreateApplication(a) ==
    /\ a \in Apps \ exists /\ exists' = exists \cup {a}
    /\ CreateDuring \/ maint.pc = "idle"
    /\ running' = [s \in Services |-> IF AppOf[s] = a THEN tag[RepositoryOf[s]] ELSE running[s]]
    /\ UNCHANGED <<registry, local, lock, proc, maint, runs>>

Next ==
    \/ \E p \in Procs :
          \/ \E s \in Services, d \in Digests : DeployServiceVersion(p, s, d)
          \/ \E a \in Apps : DeployApplicationVersion(p, a)
          \/ Acquire(p) \/ Skip(p) \/ MoveTag(p) \/ MoveTagFails(p) \/ PullService(p)
          \/ Recreate(p) \/ DeployFails(p) \/ Undo(p) \/ UndoFails(p)
    \/ List \/ Protect \/ DeleteVersions
    \/ \E a \in Apps : LockProject(a) \/ CreateApplication(a)
    \/ \E r \in Repositories : Push(r)

Spec == Init /\ [][Next]_vars
-----------------------------------------------------------------------------
(* Properties *)

Working(s) == lock[AppOf[s]] \in Procs

\* "so the registry never disagrees with the running service": when no
\* deployment of the application runs, the tag of a running service names
\* its version or the image pushed since.
TagAgrees ==
    \A s \in Services : ~Working(s) /\ running[s] # 0 =>
        tag[RepositoryOf[s]] \in {running[s], latest[RepositoryOf[s]]}

\* A service whose deployment ends as deployed runs the selected version.
RecreatesSelected ==
    \A p \in Procs : Recreate(p) => running'[Service(p)] = proc[p].digest

DeployedIsSelected == [][RecreatesSelected]_vars

\* "Always keep versions used by running containers": retention beside
\* deployments never removes the version a service runs or is switched to.
RunningKept ==
    \A s \in Services :
        /\ running[s] # 0 => running[s] \in revs[RepositoryOf[s]]
        /\ \A p \in Procs : proc[p].pc \in {"pull", "up", "undo"} /\ Service(p) = s
              => {proc[p].digest, proc[p].previous} \subseteq revs[RepositoryOf[s]] \cup {0}
=============================================================================
