------------------------------ MODULE JobProgress ------------------------------
(***************************************************************************)
(* The job stores of internal/handler/*_job.go: who gets a job when two    *)
(* requests ask for the same thing, what a job remembers of its request,   *)
(* and whether the steps a job shows are the steps its operation took.     *)
(*                                                                         *)
(* Every store keeps jobs by ID and differs in its key (global, one per    *)
(* application or one per service), in what a second request with the same *)
(* key gets (the running job, or an error when it wants another            *)
(* operation), in the steps it shows and in the stages its operation       *)
(* reports.  Each store is described by two definitions, <name>Store and   *)
(* <name>Work; one behaviour is about one store, chosen in Init.           *)
(*                                                                         *)
(* An operation is a sequence of events: "do" (the operation is in a       *)
(* stage, and may fail there), "say" (it enters a stage and reports it),   *)
(* "claim" (the handler reports a stage before it calls the operation) and *)
(* "close" (the version deployment reports that one service is done).      *)
(***************************************************************************)
EXTENDS Integers, Sequences, FiniteSets, SequencesExt

CONSTANTS
  Requests,   \* HTTP requests; the job a request creates has its name
  Keys,       \* applications, or services of applications
  Inputs,     \* what a request submits besides its operation
  Stores      \* names of the stores a run looks at

VARIABLES
  store,      \* the store of this behaviour
  jobs,       \* jobs[r]: the job request r created
  listed,     \* the jobs in the store's map
  leases,     \* keys held in the tracked job runtime
  req,        \* req[r]: how far request r is
  durable     \* the installation's update state, as the handler reads it

vars == <<store, jobs, listed, leases, req, durable>>

GlobalKey == CHOOSE k \in Keys : TRUE
NoInput == "none"

Say(s) == <<"say", s>>
Do(s) == <<"do", s>>
Both(s) == <<Say(s), Do(s)>>

(* An operation that reports each stage when it enters it.                 *)
Reported(stages) ==
  [steps |-> stages, events |-> FlattenSeq([i \in DOMAIN stages |-> Both(stages[i])]),
   done |-> {}]

(* An operation of a store that shows no steps.                            *)
Unstaged == [steps |-> <<>>, events |-> <<Do("work")>>, done |-> {}]

Joining(keys, ops) == [keys |-> keys, ops |-> ops, busy |-> FALSE]
Busying(keys, ops) == [keys |-> keys, ops |-> ops, busy |-> TRUE]

-----------------------------------------------------------------------------
(* The stores.                                                             *)
ApiRunStore == Joining(Keys, {"run"})
ApiRunWork == {Unstaged}

BackupStore == Joining(Keys, {"run", "restore"})
BackupWork == {Unstaged}

ProxyActionStore == Busying({GlobalKey}, {"restart", "settings"})
ProxyActionWork == {Unstaged}

RegistryMaintenanceStore == Joining({GlobalKey}, {"collect", "retain"})
RegistryMaintenanceWork == {Unstaged}

ServiceActionStore == Busying(Keys, {"start", "run", "deploy", "credentials"})
ServiceActionWork == {Unstaged}

SetupStore == Joining({GlobalKey}, {"setup"})
SetupWork ==
  {Reported(<<"directories">> \o proxy \o registry \o <<"finalize">>) :
     proxy \in {<<>>, <<"proxy-files", "proxy-start">>},
     registry \in {<<>>, <<"registry-files", "registry-start">>}}

PostgresStore == Joining(Keys, {"create"})
PostgresWork == {Reported(<<"configuration", "files", "metadata", "start">>)}

RedisStore == Joining(Keys, {"create"})
RedisWork == {Reported(<<"configuration", "files", "metadata", "start">>)}

ManagedDatabasesStore == Joining({GlobalKey}, {"enable"})
ManagedDatabasesWork == {Reported(<<"configuration", "files", "metadata", "start">>)}

ApplicationContainerStore == Joining(Keys, {"create"})
ApplicationContainerWork ==
  {Reported(<<"configuration", "files", "metadata">> \o start) : start \in {<<>>, <<"start">>}}

(* The operation of a version job names a tag; its steps are services.     *)
ApplicationVersionStore == Busying(Keys, {"tag-1", "tag-2"})
ApplicationVersionWork ==
  {[steps |-> <<"web", "worker">>, done |-> {},
    events |-> <<Do("list"), Say("web"), <<"close", "web">>, Say("worker"), <<"close", "worker">>>>]}

(* A deletion resumes at the stage its intent records.  The routing stage  *)
(* is not reported.                                                        *)
ApplicationDeleteStore == Joining(Keys, {"delete"})
ApplicationDeleteWork ==
  LET stages == <<"schedules", "resources", "metadata", "routing", "folder">>
      part == <<<<Do("schedules")>>, Both("resources"), Both("metadata"),
                <<Do("routing")>>, Both("folder")>>
  IN {[steps |-> stages, done |-> {stages[i] : i \in 1 .. from - 1},
       events |-> <<<<"claim", "schedules">>>> \o FlattenSeq(SubSeq(part, from, 5))] :
         from \in 1 .. 5}

(* The handler claims "stop" first; the operation starts with schedules,   *)
(* checks the volumes before it reports "stop", and reports volumes and    *)
(* routing only when there are some.                                       *)
ServiceDeleteStore == Joining(Keys, {"delete"})
ServiceDeleteWork ==
  LET stages == <<"schedules", "stop", "remove", "volumes", "compose", "routing", "metadata">>
      part(v, r) == <<Both("schedules"), <<Do("stop")>> \o Both("stop"), Both("remove"),
                      IF v THEN Both("volumes") ELSE <<>>, Both("compose"),
                      <<Do("routing")>> \o (IF r THEN Both("routing") ELSE <<>>),
                      Both("metadata")>>
  IN {[steps |-> stages, done |-> {stages[i] : i \in 1 .. from - 1},
       events |-> <<<<"claim", "stop">>>> \o FlattenSeq(SubSeq(part(v, r), from, 7))] :
         from \in {1, 3}, v \in BOOLEAN, r \in BOOLEAN}

(* An update only hands over: "restart" is left to the helper.             *)
SelfUpdateStore == Joining({GlobalKey}, {"update"})
SelfUpdateWork ==
  LET stages == <<"check", "download", "verify", "load", "install">>
  IN {[Reported(stages) EXCEPT !.steps = stages \o <<"restart">>]}

Store ==
  CASE store = "api-run" -> ApiRunStore
    [] store = "backup" -> BackupStore
    [] store = "proxy-action" -> ProxyActionStore
    [] store = "registry-maintenance" -> RegistryMaintenanceStore
    [] store = "service-action" -> ServiceActionStore
    [] store = "setup" -> SetupStore
    [] store = "postgres" -> PostgresStore
    [] store = "redis" -> RedisStore
    [] store = "managed-databases" -> ManagedDatabasesStore
    [] store = "application-container" -> ApplicationContainerStore
    [] store = "application-version" -> ApplicationVersionStore
    [] store = "application-delete" -> ApplicationDeleteStore
    [] store = "service-delete" -> ServiceDeleteStore
    [] store = "self-update" -> SelfUpdateStore

Work ==
  CASE store = "api-run" -> ApiRunWork
    [] store = "backup" -> BackupWork
    [] store = "proxy-action" -> ProxyActionWork
    [] store = "registry-maintenance" -> RegistryMaintenanceWork
    [] store = "service-action" -> ServiceActionWork
    [] store = "setup" -> SetupWork
    [] store = "postgres" -> PostgresWork
    [] store = "redis" -> RedisWork
    [] store = "managed-databases" -> ManagedDatabasesWork
    [] store = "application-container" -> ApplicationContainerWork
    [] store = "application-version" -> ApplicationVersionWork
    [] store = "application-delete" -> ApplicationDeleteWork
    [] store = "service-delete" -> ServiceDeleteWork
    [] store = "self-update" -> SelfUpdateWork

-----------------------------------------------------------------------------
(* A job: its request's key, operation and input ("none" until attached),  *)
(* whether it holds credentials, the steps it shows, the stage named in    *)
(* its error, what of its operation is to come, whether it finished longer *)
(* ago than the retention, and what reconciliation told a self-update job. *)
NewJob(k, o, w) ==
  [key |-> k, op |-> o, input |-> NoInput, secret |-> FALSE, state |-> "running",
   shown |-> [i \in DOMAIN w.steps |-> "remaining"], error |-> "",
   work |-> w, next |-> 0, at |-> "", done |-> w.done,
   old |-> FALSE, finished |-> FALSE, blocked |-> FALSE, revision |-> 0]

NoJob == [key |-> GlobalKey, op |-> "", input |-> NoInput, secret |-> FALSE, state |-> "none",
          shown |-> <<>>, error |-> "", work |-> Unstaged, next |-> 0, at |-> "",
          done |-> {}, old |-> FALSE, finished |-> FALSE, blocked |-> FALSE, revision |-> 0]

NoUpdate == [op |-> "none", phase |-> "none", ack |-> FALSE, rev |-> 0]

StepStates == {"remaining", "active", "complete", "failed"}

TypeOK ==
  /\ store \in Stores
  /\ listed \subseteq Requests
  /\ leases \subseteq Keys
  /\ \A r \in Requests :
       /\ jobs[r].state \in {"none", "running", "handoff", "complete", "failed"}
       /\ jobs[r].shown \in [DOMAIN jobs[r].work.steps -> StepStates]
       /\ jobs[r].finished => jobs[r].state \in {"complete", "failed"}
       /\ jobs[r].old => jobs[r].finished

Init ==
  /\ store \in Stores
  /\ jobs = [r \in Requests |-> NoJob]
  /\ listed = {}
  /\ leases = {}
  /\ req = [r \in Requests |-> [pc |-> "idle", op |-> "", input |-> NoInput, job |-> r,
                                seen |-> NoUpdate]]
  /\ durable = NoUpdate

Goto(r, pc) == req' = [req EXCEPT ![r].pc = pc]

-----------------------------------------------------------------------------
(* Steps of a job.                                                         *)
Index(j, stage) == SelectInSeq(j.work.steps, LAMBDA s : s = stage)

(* update: the steps before a reported stage are complete, the stage is    *)
(* active.                                                                 *)
UpdateAhead(j, stage) ==
  [j EXCEPT !.shown = [i \in DOMAIN @ |-> IF i <= Index(j, stage) THEN "complete" ELSE @[i]]]

UpdateOne(j, stage) ==
  [j EXCEPT !.shown = [i \in DOMAIN @ |-> IF i = Index(j, stage) THEN "active" ELSE @[i]]]

Update(j, stage) ==
  [j EXCEPT !.shown = [i \in DOMAIN @ |->
     IF i = Index(j, stage) THEN "active"
     ELSE IF store # "application-version" /\ i < Index(j, stage) /\ @[i] \in {"remaining", "active"}
     THEN "complete" ELSE @[i]]]

Finished(j, state) == [j EXCEPT !.state = state, !.finished = TRUE]

Completed(j) ==
  IF store = "application-version" THEN Finished(j, "complete")
  ELSE [Finished(j, "complete") EXCEPT
          !.shown = [i \in DOMAIN @ |-> IF @[i] = "failed" THEN @[i] ELSE "complete"]]

(* fail: the first active step failed and names the error.                 *)
Failed(j) ==
  LET active == {i \in DOMAIN j.shown : j.shown[i] = "active"}
      first == CHOOSE i \in active : \A k \in active : i <= k
  IN IF active = {} THEN Finished(j, "failed")
     ELSE [Finished(j, "failed") EXCEPT !.shown[first] = "failed", !.error = j.work.steps[first]]

HandedOff(j) ==
  [j EXCEPT !.state = "handoff",
            !.shown = [i \in DOMAIN @ |-> IF j.work.steps[i] = "restart" THEN "active" ELSE "complete"]]

-----------------------------------------------------------------------------
(* A request.                                                              *)
NotEnded(j) == j.state = "running" \/ j.blocked

Unfinished(j) == j.state \in {"running", "handoff"} \/ j.blocked

Expired(j) == j.old /\ ~j.blocked

(* A request for a self-update reads the durable state and reconciles the  *)
(* job of that operation before it asks for a job.                         *)
Submit(r) ==
  /\ req[r].pc = "idle"
  /\ \E o \in Store.ops, i \in Inputs :
       req' = [req EXCEPT ![r].pc = IF store = "self-update" THEN "read" ELSE "create",
                          ![r].op = o, ![r].input = i]
  /\ UNCHANGED <<store, jobs, listed, leases, durable>>

Read(r) ==
  /\ req[r].pc \in {"read", "poll"}
  /\ req' = [req EXCEPT ![r].pc = IF @ = "read" THEN "reconcile" ELSE "apply", ![r].seen = durable]
  /\ UNCHANGED <<store, jobs, listed, leases, durable>>

(* reconcile takes a terminal outcome of the same operation, unless the    *)
(* job still runs or knows a later revision.                               *)
AnyRevision(j, s) == j.state # "running"

Applies(j, s) == j.state # "running" /\ s.rev >= j.revision

Reconcile(r) ==
  LET s == req[r].seen
      ok == s.op \in listed /\ s.phase \in {"complete", "failed", "uncertain"}
  IN /\ req[r].pc \in {"reconcile", "apply"}
     /\ req' = [req EXCEPT ![r].pc = IF @ = "apply" THEN "done" ELSE "create", ![r].seen = NoUpdate]
     /\ IF ok /\ Applies(jobs[s.op], s)
          THEN jobs' = [jobs EXCEPT ![s.op] =
                 [Finished(@, IF s.phase = "complete" THEN "complete" ELSE "failed")
                    EXCEPT !.blocked = s.phase = "uncertain" /\ ~s.ack, !.revision = s.rev,
                           !.shown = [i \in DOMAIN @ |-> IF i = Len(@) /\ s.phase # "complete"
                                                         THEN "failed" ELSE "complete"],
                           !.error = IF s.phase = "complete" THEN "" ELSE "restart"]]
          ELSE UNCHANGED jobs
     /\ UNCHANGED <<store, listed, leases, durable>>

(* createUnique, under the store's mutex.  The loop over the map may meet  *)
(* the running job before it met every expired one.                        *)
CreateUnique(r) ==
  LET same(k) == {j \in listed : jobs[j].key = k /\ Unfinished(jobs[j])}
  IN /\ req[r].pc = "create"
     /\ \E k \in Store.keys :
          \/ /\ same(k) = {}
             /\ \E w \in Work : jobs' = [jobs EXCEPT ![r] = NewJob(k, req[r].op, w)]
             /\ listed' = {j \in listed : ~Expired(jobs[j])} \cup {r}
             /\ Goto(r, "attach")
          \/ \E j \in same(k), kept \in SUBSET {i \in listed : Expired(jobs[i])} :
               /\ listed' = {i \in listed : ~Expired(jobs[i])} \cup kept
               /\ req' = [req EXCEPT ![r].job = j,
                            ![r].pc = IF Store.busy /\ jobs[j].op # req[r].op THEN "refused" ELSE "joined"]
               /\ UNCHANGED jobs
     /\ UNCHANGED <<store, leases, durable>>

(* What a request does with a job another request created: a deployment    *)
(* compares the target, a settings change is refused, the others answer    *)
(* with the job.                                                           *)
AcceptsAny(r) == TRUE

AcceptsJoined(r) ==
  /\ req[r].op = "deploy" => jobs[req[r].job].input = req[r].input
  /\ req[r].op # "settings"

Join(r) ==
  /\ req[r].pc = "joined"
  /\ Goto(r, IF AcceptsJoined(r) THEN "accepted" ELSE "refused")
  /\ UNCHANGED <<store, jobs, listed, leases, durable>>

(* setParameters, setCredentials, setDeployTarget, setRestoreFile, and the *)
(* input captured by the worker.                                           *)
Attach(r) ==
  /\ req[r].pc = "attach"
  /\ jobs' = [jobs EXCEPT ![r].input = req[r].input, ![r].secret = (req[r].op = "credentials")]
  /\ Goto(r, "start")
  /\ UNCHANGED <<store, listed, leases, durable>>

(* startTrackedJob.  It refuses while the key's last worker still holds    *)
(* its lease, and when the runtime is full or closing.                     *)
Start(r) ==
  /\ req[r].pc = "start"
  /\ jobs[r].key \notin leases
  /\ leases' = leases \cup {jobs[r].key}
  /\ jobs' = [jobs EXCEPT ![r].next = 1]
  /\ Goto(r, "accepted")
  /\ UNCHANGED <<store, listed, durable>>

RefusedWithSecret(j) == Failed(j)

Refused(j) == Failed([j EXCEPT !.secret = FALSE])

StartRefused(r) ==
  /\ req[r].pc = "start"
  /\ jobs' = [jobs EXCEPT ![r] = Refused(@)]
  /\ Goto(r, "refused")
  /\ UNCHANGED <<store, listed, leases, durable>>

(* A page polls a job, also after its answer: for a self-update it         *)
(* reconciles first.                                                       *)
Poll(r) ==
  /\ req[r].pc \in {"idle", "accepted", "refused", "done"}
  /\ store = "self-update"
  /\ Goto(r, "poll")
  /\ UNCHANGED <<store, jobs, listed, leases, durable>>

(* get drops a job whose retention is over.                                *)
Get(j) ==
  /\ j \in listed
  /\ Expired(jobs[j])
  /\ listed' = listed \ {j}
  /\ UNCHANGED <<store, jobs, leases, req, durable>>

RetentionPasses(j) ==
  /\ jobs[j].finished
  /\ ~jobs[j].old
  /\ jobs' = [jobs EXCEPT ![j].old = TRUE]
  /\ UNCHANGED <<store, listed, leases, req, durable>>

-----------------------------------------------------------------------------
(* The worker of a job.                                                    *)
Works(j) == jobs[j].next > 0 /\ jobs[j].state = "running"
Event(j) == jobs[j].work.events[jobs[j].next]
HasEvent(j) == jobs[j].next <= Len(jobs[j].work.events)

Enter(j, stage) ==
  IF j.at = stage THEN j ELSE [j EXCEPT !.at = stage, !.done = @ \cup {j.at}]

(* A self-update writes the durable state when it starts to download.      *)
Persist(j, stage) ==
  IF store = "self-update" /\ stage = "download"
  THEN durable' = [op |-> j, phase |-> "running", ack |-> FALSE, rev |-> durable.rev + 1]
  ELSE UNCHANGED durable

Proceed(j) ==
  LET e == Event(j)
      job == [jobs[j] EXCEPT !.next = @ + 1]
  IN /\ Works(j)
     /\ HasEvent(j)
     /\ CASE e[1] = "claim" -> jobs' = [jobs EXCEPT ![j] = Update(job, e[2])] /\ UNCHANGED durable
          [] e[1] = "say" -> /\ jobs' = [jobs EXCEPT ![j] = Update(Enter(job, e[2]), e[2])]
                             /\ Persist(j, e[2])
          [] e[1] = "do" -> jobs' = [jobs EXCEPT ![j] = Enter(job, e[2])] /\ UNCHANGED durable
          [] e[1] = "close" -> /\ \E s \in {"complete", "failed"} :
                                    jobs' = [jobs EXCEPT ![j] =
                                      [job EXCEPT !.shown[Index(job, e[2])] = s,
                                                  !.done = IF s = "complete" THEN @ \cup {e[2]} ELSE @]]
                               /\ UNCHANGED durable
     /\ UNCHANGED <<store, listed, leases, req>>

(* The worker ends: credentials are wiped, then the outcome is recorded.   *)
Fail(j) ==
  /\ Works(j)
  /\ jobs[j].next > 1 /\ jobs[j].work.events[jobs[j].next - 1][1] \in {"do", "claim", "close"}
  /\ jobs' = [jobs EXCEPT ![j] = Failed([@ EXCEPT !.secret = FALSE])]
  /\ IF store = "self-update" /\ durable.op = j
       THEN durable' = [durable EXCEPT !.phase = "failed", !.rev = @ + 1]
       ELSE UNCHANGED durable
  /\ UNCHANGED <<store, listed, leases, req>>

Complete(j) ==
  /\ Works(j)
  /\ ~HasEvent(j)
  /\ jobs' = [jobs EXCEPT ![j] = IF store = "self-update" THEN HandedOff(@)
                                 ELSE Completed([@ EXCEPT !.secret = FALSE])]
  /\ UNCHANGED <<store, listed, leases, req, durable>>

(* lease.done, after the job recorded its outcome.                         *)
ReleaseLease(j) ==
  /\ jobs[j].next > 0
  /\ jobs[j].state # "running"
  /\ leases' = leases \ {jobs[j].key}
  /\ jobs' = [jobs EXCEPT ![j].next = 0]
  /\ UNCHANGED <<store, listed, req, durable>>

(* The helper, outside the manager, and the operator's acknowledgement.    *)
HelperEnds ==
  /\ durable.phase = "running"
  /\ jobs[durable.op].state = "handoff"
  /\ \E p \in {"complete", "failed", "uncertain"} :
       durable' = [durable EXCEPT !.phase = p, !.rev = @ + 1]
  /\ UNCHANGED <<store, jobs, listed, leases, req>>

Acknowledge ==
  /\ durable.phase = "uncertain"
  /\ ~durable.ack
  /\ durable' = [durable EXCEPT !.ack = TRUE, !.rev = @ + 1]
  /\ UNCHANGED <<store, jobs, listed, leases, req>>

Next ==
  \/ \E r \in Requests :
       \/ Submit(r) \/ Read(r) \/ Reconcile(r) \/ CreateUnique(r) \/ Join(r)
       \/ Attach(r) \/ Start(r) \/ StartRefused(r) \/ Poll(r)
       \/ Get(r) \/ RetentionPasses(r)
       \/ Proceed(r) \/ Fail(r) \/ Complete(r) \/ ReleaseLease(r)
  \/ HelperEnds \/ Acknowledge

Spec == Init /\ [][Next]_vars

(* A goroutine that was started runs, and a handler runs to its response.  *)
Fairness ==
  \A r \in Requests :
    /\ WF_vars(Attach(r)) /\ WF_vars(Start(r) \/ StartRefused(r))
    /\ WF_vars(Proceed(r) \/ Complete(r)) /\ WF_vars(ReleaseLease(r))

FairSpec == Spec /\ Fairness

-----------------------------------------------------------------------------
(* At most one unfinished job per key, so that one operation's requests    *)
(* never get two jobs: createUnique, in every store.                       *)
OneUnfinished ==
  \A i, j \in listed :
    (jobs[i].key = jobs[j].key /\ {jobs[i].state, jobs[j].state} \subseteq {"running", "handoff"})
      => i = j

(* A step shown as complete is a stage the operation left behind it.       *)
CompleteMeansDone ==
  \A j \in Requests : \A i \in DOMAIN jobs[j].shown :
    (jobs[j].shown[i] = "complete" /\ jobs[j].state \in {"running", "failed"} /\ jobs[j].revision = 0)
      => jobs[j].work.steps[i] \in jobs[j].done

(* A failed job blames the stage in which its operation failed.            *)
ErrorNamesStage ==
  \A j \in Requests :
    (jobs[j].state = "failed" /\ jobs[j].at # "" /\ jobs[j].revision = 0
       /\ jobs[j].work.steps # <<>> /\ store # "application-version")
      => jobs[j].error = jobs[j].at

(* A request answered with a job gets what it asked for.                   *)
(* The code does not keep this: README, "Disagreements".                   *)
AcceptedRunsInput ==
  \A r \in Requests :
    req[r].pc = "accepted" => jobs[req[r].job].input = req[r].input

(* Version deployments and settings changes are never answered with a job  *)
(* that does something else.                                               *)
TargetHonoured ==
  \A r \in Requests :
    (req[r].pc = "accepted" /\ req[r].op \in {"deploy", "settings"})
      => jobs[req[r].job].input = req[r].input

(* A finished job holds no database credentials, however it ended.         *)
SecretsWiped == \A j \in Requests : jobs[j].finished => ~jobs[j].secret

(* A new update job is created only when the outcome of the last update is *)
(* known, and acknowledged when it is uncertain.                           *)
AdmitsAfterOutcome ==
  \A r \in Requests :
    (store = "self-update" /\ r \in listed' \ listed) =>
      \/ durable.phase \in {"none", "complete", "failed"}
      \/ durable.phase = "uncertain" /\ durable.ack

AdmittedAfterOutcome == [][AdmitsAfterOutcome]_vars

(* An acknowledged update is never blocked again by a reader that is late. *)
StaysUnblocked ==
  \A j \in Requests :
    (jobs[j].revision > 0 /\ ~jobs[j].blocked) => ~jobs'[j].blocked

NeverBlockedAgain == [][StaysUnblocked]_vars

=============================================================================
