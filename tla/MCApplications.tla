--------------------------- MODULE MCApplications ---------------------------
(***************************************************************************)
(* The life of an application and of the services in it.  A behaviour is   *)
(* one of one component, the other rests; which says of which, and in      *)
(* which instance.                                                         *)
(***************************************************************************)
EXTENDS Integers, TLC

CONSTANTS
  Requests, Folders, MaxId,   \* of the applications
  Names, Databases, Volumes,  \* of the services
  MaxCrashes, MaxFailures,
  None

VARIABLES
  which,
  rows, nextId, services, routes, intents, lease, dirs, containers, caddy, timers, locks,
  pc, op, crashes, failures,
  names, compose, running, volumes, routed, served, timed, deletions, leases,
  at, work, deaths, errors

application == <<rows, nextId, services, routes, intents, lease, dirs, containers, caddy,
                 timers, locks, pc, op, crashes, failures>>
service == <<names, compose, running, volumes, routed, served, timed, deletions, leases,
             at, work, deaths, errors>>
vars == <<which, application, service>>

Symmetry == Permutations(Requests)

(* Requests create, clone and delete.                                      *)
Applications == INSTANCE ApplicationLifecycle

(* Services that may share volumes; steps fail, the manager does not die.  *)
Services == INSTANCE ServiceLifecycle WITH
  rows <- names, containers <- running, routes <- routed, caddy <- served, timers <- timed,
  intents <- deletions, lease <- leases, pc <- at, op <- work, crashes <- deaths,
  failures <- errors, MaxCrashes <- 0

(* Without volumes; steps fail and the manager dies.                       *)
Interrupted == INSTANCE ServiceLifecycle WITH
  rows <- names, containers <- running, routes <- routed, caddy <- served, timers <- timed,
  intents <- deletions, lease <- leases, pc <- at, op <- work, crashes <- deaths,
  failures <- errors, Volumes <- {}

ASSUME Constants ==
  Applications!ConstantsOK /\ Services!ConstantsOK

Init ==
  /\ which \in {"applications", "services", "interrupted"}
  /\ Applications!Init /\ Services!Init

Next ==
  \/ which = "applications" /\ Applications!Next /\ UNCHANGED <<which, service>>
  \/ /\ \/ which = "services" /\ Services!Next
        \/ which = "interrupted" /\ Interrupted!Next
     /\ UNCHANGED <<which, application>>

Spec == Init /\ [][Next]_vars

(* Each component's variables have their types.                            *)
TypeOK == IF which = "applications" THEN Applications!TypeOK ELSE Services!TypeOK

(* Every registered application that is not being deleted has the          *)
(* directory that was made for it, whatever failed or crashed between the  *)
(* directory and the row (Create, CloneApplication, their compensations).  *)
RegisteredHasFolder == which = "applications" => Applications!RegisteredHasFolder

(* A deletion reported complete left no row, directory, timer or route,    *)
(* however often it was interrupted and resumed.                           *)
CompleteIsClean == which = "applications" => Applications!CompleteIsClean

(* No backup of an application runs while a deletion works on it.          *)
ApplicationDeletionExcludesBackup == which = "applications" => Applications!DeletionExcludesBackup

(* A resumed deletion never removes the directory of a replacement.        *)
OnlyOwnFolderRemoved == Applications!OnlyOwnFolderRemoved

(* A deletion of an application only moves forward: no failure or restart  *)
(* sends its intent back or reopens it.                                    *)
StagesAdvance == Applications!StagesAdvance

(* Between operations Docker can parse the project, whatever failed        *)
(* half-way, as long as the manager did not die in one.                    *)
IdleProjectParses == which = "services" => Services!IdleProjectParses

(* When a deletion calls docker compose stop or rm the project parses,     *)
(* also after a crash left a dangling dependency (repairDanglingDependsOn).*)
RepairedBeforeDocker == which # "applications" => Services!RepairedBeforeDocker

(* While a deletion of a registered database works, no backup of it runs.  *)
ServiceDeletionExcludesBackup == which # "applications" => Services!DeletionExcludesBackup

(* The volume selection of an unfinished deletion never changes, so that a *)
(* retry destroys nothing the operator did not select first.               *)
VolumeChoiceFrozen == Services!VolumeChoiceFrozen

(* A volume is removed only when it was selected and no other service      *)
(* mounts it, although the file was edited since the selection.            *)
OnlyOwnVolumesRemoved == Services!OnlyOwnVolumesRemoved

(* A deletion of a service that nothing interrupted leaves no definition,  *)
(* container, row, routing or timer, although backups and schedules of the *)
(* same database are started beside it.                                    *)
UninterruptedDeletionCleans == Services!UninterruptedDeletionCleans

(* Together: rows, directories, containers, routes and leases of an        *)
(* application belong together through every failure and crash.            *)
ApplicationsMatch ==
  TypeOK /\ RegisteredHasFolder /\ CompleteIsClean /\ ApplicationDeletionExcludesBackup

(* Together: a service's definition, containers and backups fit whenever   *)
(* something uses them, and Docker is never given a project it rejects.    *)
ServicesMatch == IdleProjectParses /\ RepairedBeforeDocker /\ ServiceDeletionExcludesBackup

(* Together: a deletion destroys no directory of a later application and   *)
(* no volume that another service mounts or that was not selected first.   *)
OnlyOwnRemoved == OnlyOwnFolderRemoved /\ VolumeChoiceFrozen /\ OnlyOwnVolumesRemoved

(* Together: deletions only move forward and leave nothing when they are   *)
(* not interrupted.                                                        *)
DeletionsEndClean == StagesAdvance /\ UninterruptedDeletionCleans
=============================================================================
