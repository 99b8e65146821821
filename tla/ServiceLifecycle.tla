--------------------------- MODULE ServiceLifecycle ---------------------------
(***************************************************************************)
(* The services of one application: creating, editing and deleting them    *)
(* (internal/service/application_container.go, application_container_edit  *)
(* .go, postgres.go, redis.go, applications.go, compose_file.go).  Every   *)
(* operation holds the application's project lock from its first check to  *)
(* its return, so at most one is under way; backups run beside it under a  *)
(* lease per database service.  The Compose file is rewritten, validated   *)
(* by Docker and restored when a later step fails.  A deletion records a   *)
(* durable intent and is resumed by the next request.  The manager may die *)
(* between any two steps.                                                  *)
(***************************************************************************)
EXTENDS Integers, Sequences

CONSTANTS Names,        \* service names
          Databases,    \* the names used for a PostgreSQL or Redis service
          Volumes,      \* named volumes
          MaxCrashes,   \* bound: deaths of the manager and lost checkpoints
          MaxFailures,  \* bound: steps that report an error
          None

NamesAssumption == Databases \subseteq Names /\ None \notin Names

Definitions == [deps : SUBSET Names, vols : SUBSET Volumes]
Stages == <<"schedules", "stop", "remove", "volumes", "compose", "routing", "metadata", "complete">>
StageNames == {Stages[n] : n \in 1 .. Len(Stages)}
Rank(s) == CHOOSE n \in 1 .. Len(Stages) : Stages[n] = s

VARIABLES rows,        \* services: the registered names
          compose,     \* the Compose file: name -> definition, or None
          containers,  \* the names that have a container
          volumes,     \* the Docker volumes that exist
          routes,      \* names with a routing row
          caddy,       \* names the running proxy serves
          timers,      \* names with an enabled backup timer
          intents,     \* service_deletion_intents
          lease,       \* backup_leases: database -> holder
          pc, op,      \* the operation under the project lock
          crashes, failures

tables == <<rows, routes, intents, lease>>
docker == <<containers, volumes>>
vars == <<tables, compose, docker, caddy, timers, pc, op, crashes, failures>>

NoOp == [name |-> None, reg |-> FALSE, sel |-> {}, snap |-> None, staged |-> None]

TypeOK ==
    /\ rows \in SUBSET Names /\ containers \in SUBSET Names
    /\ routes \in SUBSET Names /\ caddy \in SUBSET Names
    /\ timers \in SUBSET Databases
    /\ volumes \in SUBSET Volumes
    /\ \A n \in Names : compose[n] # None => compose[n] \in Definitions
    /\ \A n \in Names : intents[n] # None =>
         /\ intents[n].stage \in StageNames
         /\ intents[n].state \in {"running", "failed", "complete"}
         /\ intents[n].vols # None => intents[n].vols \subseteq Volumes
    /\ lease \in [Databases -> {"free", "backup", "deletion", "dead"}]

\* None is none of the values it stands beside.
ConstantsOK ==
    /\ NamesAssumption
    /\ None \notin Definitions /\ \A s \in SUBSET Volumes : s # None
    /\ None \notin [Names -> Definitions \cup {None}]
    /\ None \notin [stage : StageNames, state : {"running", "failed", "complete"},
                    vols : {None} \cup SUBSET Volumes]

\* A project without services.
Init ==
    /\ rows = {} /\ containers = {} /\ volumes = {}
    /\ routes = {} /\ caddy = {} /\ timers = {}
    /\ compose = [n \in Names |-> None]
    /\ intents = [n \in Names |-> None]
    /\ lease = [d \in Databases |-> "free"]
    /\ pc = "idle" /\ op = NoOp
    /\ crashes = 0 /\ failures = 0

-----------------------------------------------------------------------------
(* The Compose file (compose_file.go).                                     *)

Defined(c) == {n \in Names : c[n] # None}

\* Docker rejects a project with a dependency on an undefined service.
ComposeValid(c) == \A n \in Defined(c) : c[n].deps \subseteq Defined(c)

\* filterComposeDependsOn: the named dependencies go, everywhere.
FilterDependsOn(c, removal) ==
    [n \in Names |-> IF c[n] = None THEN None ELSE [c[n] EXCEPT !.deps = @ \ removal]]

\* Mutant: the definition goes, the dependents keep their entry.
RemoveServiceOnly(c, n) == [c EXCEPT ![n] = None]

\* removeServiceFromCompose.
RemoveServiceFromCompose(c, n) ==
    FilterDependsOn([c EXCEPT ![n] = None], {n})

\* Mutant: a dangling dependency stays.
PruneNothing(c) == c

\* pruneDanglingComposeDependsOn.
PruneDanglingDependsOn(c) == FilterDependsOn(c, Names \ Defined(c))

\* Mutant: a volume another service mounts may be selected too.
EligibleShared(c, n) == IF c[n] = None THEN {} ELSE c[n].vols

\* serviceVolumeCandidates: the volumes that only this service mounts; none
\* when the file does not define the service (ErrServiceNotFound).
Eligible(c, n) ==
    IF c[n] = None THEN {}
    ELSE {v \in c[n].vols : \A m \in Defined(c) \ {n} : v \notin c[m].vols}

-----------------------------------------------------------------------------
(* Operations.                                                             *)

At(step) == pc = step
Go(step) == pc' = step
Fails == failures < MaxFailures /\ failures' = failures + 1

\* The deferred release of the project lock.
Return == pc' = "idle" /\ op' = NoOp

\* writeManagedFile of the new contents, after the snapshot.
Write(n, d, step) ==
    /\ compose' = [compose EXCEPT ![n] = d]
    /\ op' = [NoOp EXCEPT !.name = n, !.snap = compose]
    /\ Go(step)

\* restoreManagedFile(composeSnapshot) and return.
Restore == compose' = op.snap /\ Return

\* CreateApplicationService, CreatePostgreSQLService, CreateRedisService: the
\* name is free in the file and the dependencies are registered.
CreateService(n) ==
    \E d \in Definitions :
        /\ At("idle")
        /\ compose[n] = None
        /\ d.deps \subseteq rows \ {n}
        /\ n \in Databases => d = [deps |-> {}, vols |-> Volumes]
        /\ Write(n, d, "create_validate")
        /\ UNCHANGED <<tables, docker, caddy, timers, crashes, failures>>

\* UpdateApplicationService: a registered application container that the file
\* defines gets a new definition.
UpdateApplicationService(n) ==
    \E d \in Definitions :
        /\ At("idle")
        /\ n \in rows \ Databases /\ compose[n] # None
        /\ d.deps \subseteq rows \ {n}
        /\ Write(n, d, "update_validate")
        /\ UNCHANGED <<tables, docker, caddy, timers, crashes, failures>>

\* validateStagedCompose: docker compose config.
StagedValid == ComposeValid(compose)

\* A file that Docker rejects, a name that is registered already, or a failing
\* write restores the snapshot.
WriteUndo ==
    /\ pc \in {"create_validate", "update_validate"}
    /\ \/ Fails
       \/ ~StagedValid /\ UNCHANGED failures
       \/ At("create_validate") /\ op.name \in rows /\ UNCHANGED failures
    /\ Restore
    /\ UNCHANGED <<tables, docker, caddy, timers, crashes>>

\* CreateService and UpdateServiceImage in the store.
SaveRow ==
    /\ pc \in {"create_validate", "update_validate"}
    /\ StagedValid
    /\ At("create_validate") => op.name \notin rows
    /\ rows' = rows \cup {op.name}
    /\ Go("start")
    /\ UNCHANGED <<routes, intents, lease, compose, docker, caddy, timers, op, crashes, failures>>

\* startManagedService: up -d with the dependencies.
Up(n) ==
    LET started == {n} \cup compose[n].deps
    IN  /\ containers' = containers \cup started
        /\ volumes' = volumes \cup UNION {compose[m].vols : m \in started \cap Defined(compose)}

Start ==
    /\ At("start")
    /\ Up(op.name)
    /\ Return
    /\ UNCHANGED <<tables, compose, caddy, timers, crashes, failures>>

\* A failing start, or no AutoStart, keeps file and row.
StartLeft ==
    /\ At("start")
    /\ Return
    /\ UNCHANGED <<tables, compose, docker, caddy, timers, crashes, failures>>

\* StartService, RestartService of a registered service.
StartService(n) ==
    /\ At("idle") /\ n \in rows /\ compose[n] # None /\ ComposeValid(compose)
    /\ Up(n)
    /\ UNCHANGED <<tables, compose, caddy, timers, pc, op, crashes, failures>>

\* CreateRouting: the row and the proxy.
CreateRouting(n) ==
    /\ At("idle") /\ n \in rows
    /\ routes' = routes \cup {n} /\ caddy' = routes'
    /\ UNCHANGED <<rows, intents, lease, compose, docker, timers, pc, op, crashes, failures>>

-----------------------------------------------------------------------------
(* Backups, in the manager or in a systemd unit: the lease, no project     *)
(* lock and no look at a service deletion.                                 *)

SaveSchedule(d) ==
    /\ d \in rows /\ lease[d] = "free"
    /\ timers' = timers \cup {d}
    /\ UNCHANGED <<tables, compose, docker, caddy, pc, op, crashes, failures>>

BackupBegin(d) ==
    /\ d \in rows /\ lease[d] = "free"
    /\ lease' = [lease EXCEPT ![d] = "backup"]
    /\ UNCHANGED <<rows, routes, intents, compose, docker, caddy, timers, pc, op, crashes, failures>>

\* The end of a backup; a dead process's lease passes its thirty minutes.
LeaseEnds(d) ==
    /\ lease[d] \in {"backup", "dead"}
    /\ lease' = [lease EXCEPT ![d] = "free"]
    /\ UNCHANGED <<rows, routes, intents, compose, docker, caddy, timers, pc, op, crashes, failures>>

-----------------------------------------------------------------------------
(* DeleteServiceWithVolumes.                                               *)

NewIntent == [stage |-> "schedules", state |-> "running", vols |-> None]
Incomplete(n) == intents[n] # None /\ intents[n].state # "complete"

\* A selection is still open: no intent, a completed one, or one that stopped
\* before the selection was saved.
SelectionOpen(n) ==
    ~Incomplete(n) \/ (intents[n].vols = None /\ intents[n].stage = "schedules")

\* BeginServiceDeletion: a completed tombstone starts over; an unregistered
\* service resumes its intent.
DeleteBegin(n) ==
    \E sel \in SUBSET Volumes :
        /\ At("idle")
        /\ n \in rows \/ Incomplete(n)
        /\ n \in rows /\ SelectionOpen(n) => sel \subseteq Eligible(compose, n)
        /\ intents' = IF Incomplete(n) THEN intents ELSE [intents EXCEPT ![n] = NewIntent]
        /\ op' = [NoOp EXCEPT !.name = n, !.reg = n \in rows, !.sel = sel]
        /\ Go("delete_select")
        /\ UNCHANGED <<rows, routes, lease, compose, docker, caddy, timers, crashes, failures>>

\* Mutant: the selection of a retry replaces the saved one.
SelectionReplaced(n, sel) == [intents EXCEPT ![n].vols = sel]

\* SetServiceDeletionVolumes: only a selection that is still NULL is set.
SelectionSaved(n, sel) ==
    IF intents[n].vols = None /\ intents[n].stage = "schedules"
      THEN [intents EXCEPT ![n].vols = sel] ELSE intents

Work(n) == IF intents[n].stage = "schedules" THEN "delete_work" ELSE "delete_repair"

DeleteSelect ==
    /\ At("delete_select")
    /\ intents' = IF op.reg THEN SelectionSaved(op.name, op.sel) ELSE intents
    /\ Go("delete_lease")
    /\ UNCHANGED <<rows, routes, lease, compose, docker, caddy, timers, op, crashes, failures>>

\* UpdateServiceDeletion.
Checkpointed(n, stage, state) == [intents EXCEPT ![n].stage = stage, ![n].state = state]
NeedsLease == op.reg /\ op.name \in Databases

\* Mutant: the stages begin without the lease.
DeleteWithoutLease ==
    /\ At("delete_lease")
    /\ Go(Work(op.name))
    /\ UNCHANGED <<tables, compose, docker, caddy, timers, op, crashes, failures>>

\* AcquireBackupLease; a refusal is checkpointed as the first stage, whatever
\* stage the intent had reached.
DeleteLease ==
    /\ At("delete_lease")
    /\ IF NeedsLease /\ lease[op.name] # "free"
         THEN /\ intents' = Checkpointed(op.name, "schedules", "failed")
              /\ Return /\ UNCHANGED lease
         ELSE /\ lease' = IF NeedsLease THEN [lease EXCEPT ![op.name] = "deletion"] ELSE lease
              /\ Go(Work(op.name)) /\ UNCHANGED <<intents, op>>
    /\ UNCHANGED <<rows, routes, compose, docker, caddy, timers, crashes, failures>>

Stage == intents[op.name].stage
Vols == IF intents[op.name].vols = None THEN {} ELSE intents[op.name].vols

\* repairDanglingDependsOn and stageServiceRemoval.
DeleteRepair ==
    LET repaired == IF Stage \in {"stop", "remove", "volumes", "compose"}
                      THEN PruneDanglingDependsOn(compose) ELSE compose
        staged == RemoveServiceFromCompose(repaired, op.name)
    IN  /\ At("delete_repair")
        /\ compose' = repaired
        /\ op' = [op EXCEPT !.snap = repaired, !.staged = staged]
        /\ Go(IF staged # repaired /\ Stage \in {"stop", "remove", "compose"}
                THEN "delete_stage" ELSE "delete_work")
        /\ UNCHANGED <<tables, docker, caddy, timers, crashes, failures>>

\* The file without the service is written for Docker to validate ...
DeleteStage ==
    /\ At("delete_stage")
    /\ compose' = op.staged
    /\ Go("delete_validate")
    /\ UNCHANGED <<tables, docker, caddy, timers, op, crashes, failures>>

\* ... and the old one put back, for stop and rm to find the service.
DeleteRestage ==
    /\ At("delete_validate")
    /\ compose' = op.snap
    /\ Go("delete_work")
    /\ UNCHANGED <<tables, docker, caddy, timers, op, crashes, failures>>

\* The lease is released with every return.
DeleteReturn ==
    /\ Return
    /\ lease' = [d \in Databases |-> IF d = op.name /\ lease[d] = "deletion" THEN "free" ELSE lease[d]]

\* validateDeletionVolumes and RemoveServiceVolumes refuse a selection that
\* is not eligible (any more).
SelectionRefused == Stage \in {"stop", "volumes"} /\ ~(Vols \subseteq Eligible(compose, op.name))

\* failServiceDeletion.  A failing DeleteService puts the definition back.
DeleteFail ==
    /\ pc \in {"delete_work", "delete_validate", "delete_reload"}
    /\ Fails \/ (At("delete_work") /\ SelectionRefused /\ UNCHANGED failures)
    /\ compose' = IF op.snap # None /\ op.staged # op.snap
                     /\ (At("delete_validate") \/ Stage = "metadata")
                    THEN op.snap ELSE compose
    /\ intents' = Checkpointed(op.name, Stage, "failed")
    /\ DeleteReturn
    /\ UNCHANGED <<rows, routes, docker, caddy, timers, crashes>>

DoStage(stage) == At("delete_work") /\ Stage = stage /\ Go("delete_checkpoint")

DeleteSchedules ==
    /\ DoStage("schedules")
    /\ timers' = IF op.reg THEN timers \ {op.name} ELSE timers
    /\ UNCHANGED <<tables, compose, docker, caddy, op, crashes, failures>>

\* Stopping leaves the container; a service unknown to Docker is no error.
DeleteStop ==
    /\ DoStage("stop") /\ ~SelectionRefused
    /\ UNCHANGED <<tables, compose, docker, caddy, timers, op, crashes, failures>>

\* docker compose rm -f: "no such service" counts as removed.
Removed == IF compose[op.name] # None THEN containers \ {op.name} ELSE containers

DeleteRemove ==
    /\ DoStage("remove")
    /\ containers' = Removed
    /\ UNCHANGED <<tables, compose, volumes, caddy, timers, op, crashes, failures>>

DeleteVolumes ==
    /\ DoStage("volumes") /\ ~SelectionRefused
    /\ volumes' = volumes \ Vols
    /\ UNCHANGED <<tables, compose, containers, caddy, timers, op, crashes, failures>>

DeleteCompose ==
    /\ DoStage("compose")
    /\ compose' = op.staged
    /\ UNCHANGED <<tables, docker, caddy, timers, op, crashes, failures>>

\* removeServiceRoutings: the rows; the proxy is reloaded only when there
\* were any.
DeleteRoutings ==
    /\ At("delete_work") /\ Stage = "routing"
    /\ routes' = routes \ {op.name}
    /\ Go(IF op.name \in routes THEN "delete_reload" ELSE "delete_checkpoint")
    /\ UNCHANGED <<rows, intents, lease, compose, docker, caddy, timers, op, crashes, failures>>

DeleteReload ==
    /\ At("delete_reload")
    /\ caddy' = routes
    /\ Go("delete_checkpoint")
    /\ UNCHANGED <<tables, compose, docker, timers, op, crashes, failures>>

\* Store.DeleteService; leases and schedules cascade.
DeleteMetadata ==
    /\ DoStage("metadata")
    /\ rows' = rows \ {op.name}
    /\ lease' = [d \in Databases |-> IF d = op.name THEN "free" ELSE lease[d]]
    /\ UNCHANGED <<routes, intents, compose, docker, caddy, timers, op, crashes, failures>>

\* The stage after this one; the volumes only when some were selected.
NextStage == IF Stage = "remove" /\ Vols = {} THEN "compose" ELSE Stages[Rank(Stage) + 1]

\* checkpointServiceDeletion.
DeleteCheckpoint ==
    /\ At("delete_checkpoint")
    /\ IF NextStage = "complete"
         THEN intents' = Checkpointed(op.name, NextStage, "complete") /\ DeleteReturn
         ELSE /\ intents' = Checkpointed(op.name, NextStage, "running")
              /\ Go(IF Stage = "schedules" THEN "delete_repair" ELSE "delete_work")
              /\ UNCHANGED <<op, lease>>
    /\ UNCHANGED <<rows, routes, compose, docker, caddy, timers, crashes, failures>>

\* The checkpoint cannot be written: the stage is repeated later.
CheckpointLost ==
    /\ At("delete_checkpoint") /\ crashes < MaxCrashes
    /\ crashes' = crashes + 1
    /\ DeleteReturn
    /\ UNCHANGED <<rows, routes, intents, compose, docker, caddy, timers, failures>>

\* The manager dies; its lease row stays.
Crash ==
    /\ crashes < MaxCrashes /\ pc # "idle"
    /\ crashes' = crashes + 1
    /\ Return
    /\ lease' = [d \in Databases |-> IF lease[d] = "deletion" THEN "dead" ELSE lease[d]]
    /\ UNCHANGED <<rows, routes, intents, compose, docker, caddy, timers, failures>>

DeleteStep ==
    \/ DeleteSelect \/ DeleteLease \/ DeleteRepair \/ DeleteStage \/ DeleteRestage
    \/ DeleteSchedules \/ DeleteStop \/ DeleteRemove \/ DeleteVolumes \/ DeleteCompose
    \/ DeleteRoutings \/ DeleteReload \/ DeleteMetadata \/ DeleteCheckpoint

Next ==
    \/ \E n \in Names :
         \/ CreateService(n) \/ UpdateApplicationService(n) \/ DeleteBegin(n)
         \/ StartService(n) \/ CreateRouting(n)
    \/ \E d \in Databases : SaveSchedule(d) \/ BackupBegin(d) \/ LeaseEnds(d)
    \/ SaveRow \/ WriteUndo \/ Start \/ StartLeft
    \/ DeleteStep \/ DeleteFail \/ CheckpointLost \/ Crash

Spec == Init /\ [][Next]_vars

-----------------------------------------------------------------------------
(* Properties.                                                             *)

\* Between operations Docker can parse the project, whichever creations,
\* edits and deletions failed half-way (validateStagedCompose and the
\* restores; holds while the manager does not die between writing a file and
\* validating it).
IdleProjectParses == pc = "idle" => ComposeValid(compose)

\* When a deletion calls docker compose stop or rm the project parses, even
\* after a crash left a dependency on an undefined service behind
\* (repairDanglingDependsOn).
RepairedBeforeDocker ==
    pc = "delete_work" /\ Stage \in {"stop", "remove"} => ComposeValid(compose)

\* While a deletion of a registered database works, no backup of it runs.
DeletionExcludesBackup ==
    pc \in {"delete_work", "delete_checkpoint"} /\ NeedsLease => lease[op.name] # "backup"

\* The volume selection of an unfinished deletion never changes, so that a
\* retry cannot destroy data the operator did not select first
\* (SetServiceDeletionVolumes).
ChoiceKept ==
    \A n \in Names : Incomplete(n) /\ intents[n].vols # None =>
      intents'[n].vols = intents[n].vols
VolumeChoiceFrozen == [][ChoiceKept]_vars

\* A volume is removed only when it was selected and no other service of the
\* file mounts it, although the file may have been edited since the selection
\* was saved (RemoveServiceVolumes revalidates).
VolumesOwned ==
    \A v \in volumes \ volumes' :
      /\ v \in intents[op.name].vols
      /\ \A m \in Defined(compose) \ {op.name} : v \notin compose[m].vols
OnlyOwnVolumesRemoved == [][VolumesOwned]_vars

Completes(n) == intents'[n] # None /\ intents'[n].state = "complete" /\ intents[n] # intents'[n]

\* A deletion that nothing interrupted leaves nothing of the service:
\* definition, container, row, routing and timer are gone, although backups
\* and schedules of the same database are started beside it.  (A volume that
\* became ineligible interrupts a deletion.)
CompletesClean ==
    \A n \in Names :
      Completes(n) /\ intents[n].vols \in {None, {}} /\ crashes = 0 /\ failures = 0 =>
      /\ compose'[n] = None
      /\ n \notin rows' \cup containers' \cup routes' \cup caddy' \cup timers'
UninterruptedDeletionCleans == [][CompletesClean]_vars

\* README.md:520: "The container is stopped and removed".
\* The code does not keep this: README, "Disagreements".
CompletionRemovesContainer ==
    [][\A n \in Names : Completes(n) => n \notin rows' /\ n \notin containers']_vars

\* README.md:521: "its Compose definition and metadata are deleted".
\* The code does not keep this: README, "Disagreements".
CompletionRemovesDefinition ==
    [][\A n \in Names : Completes(n) => compose'[n] = None]_vars

\* README.md:522: "its routing ... cleaned up".
\* The code does not keep this: README, "Disagreements".
CompletionUnroutes ==
    [][\A n \in Names : Completes(n) => n \notin routes' \cup caddy']_vars

\* README.md:522: "scheduled backups are cleaned up".
\* The code does not keep this: README, "Disagreements".
CompletionDisablesTimer ==
    [][\A n \in Names : Completes(n) => n \notin timers']_vars

\* The comment of resumeServiceDeletion: "Stages completed before a crash are
\* skipped".
\* The code does not keep this: README, "Disagreements".
CompletedStagesSkipped ==
    [][\A n \in Names : Incomplete(n) => Rank(intents'[n].stage) >= Rank(intents[n].stage)]_vars
=============================================================================
