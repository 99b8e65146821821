-------------------------------- MODULE MCHost -------------------------------
(***************************************************************************)
(* What the manager does to the host it runs on: the release update, with  *)
(* deployments by hand beside it, the access-mode restart, the maintenance *)
(* window of the registry and the SSH keys of the server; and whom it lets *)
(* in to ask for it: accounts and sessions.  A behaviour is one of one     *)
(* component, the others rest; which says of which, and in which instance. *)
(***************************************************************************)
EXTENDS Integers, TLC

CONSTANTS r1, r2,  \* reconciliations, requests
          r,       \* a request that is alone
          i1, i2,  \* images
          a,       \* an update
          l1, l2,  \* lines of the operator in authorized_keys
          None

VARIABLES
  which,
  state, locked, pc, snap, used, admitted, booting, override, loaded, tag, container, helper,
  crashes, manual,
  env, live, phase, lock, marker, recreator, change, queued, prune, nextOp, deaths,
  config, mode, gc, file, up, blocked, holder, recent, stage, opts, done, wanted, budget,
  rows, nextKey, lines, kept, revoked, keyMutex, proc, edits, faults, losses,
  users, nextID, nextPassword, clock, google, sessions, entries, signIns, slots, seen

update == <<state, locked, pc, snap, used, admitted, booting, override, loaded, tag, container,
            helper, crashes, manual>>
restart == <<env, live, phase, lock, marker, recreator, change, queued, prune, nextOp, deaths>>
maintenance == <<config, mode, gc, file, up, blocked, holder, recent, stage, opts, done, wanted,
                 budget>>
ssh == <<rows, nextKey, lines, kept, revoked, keyMutex, proc, edits, faults, losses>>
auth == <<users, nextID, nextPassword, clock, google, sessions, entries, signIns, slots, seen>>
vars == <<which, update, restart, maintenance, ssh, auth>>

Symmetry == Permutations({r1, r2}) \cup Permutations({i1, i2})

(* One update, two reconciliations and one deployment by the operator; no  *)
(* crash, which run release_update adds.                                   *)
Manual == INSTANCE ReleaseUpdate_proofs WITH
  lock <- locked, Ops <- {a}, Images <- {i1, i2}, MaxRev <- 8, Reconcilers <- {r1, r2},
  PruneOp <- "prune", MaxCrashes <- 0, MaxManual <- 1

(* The restart: five operations of the lock, any step and any helper may   *)
(* fail.  The window: two failures, a crash, an edit of the configuration  *)
(* outside of a window and a start of the registry by Docker.  The keys:   *)
(* one query that fails or one write that is refused as a whole.           *)
(* Password sessions against changes of the accounts; three accounts are   *)
(* two of an upgrade and one created later.                                *)
Common == INSTANCE HostComponents_proofs WITH
  Modes <- {"ssh", "https"}, MaxOp <- 5, Faults <- {"step", "helper"}, Updates <- TRUE,
  MaxDeaths <- 1,
  Bases <- {"v1", "v2"}, EditDuring <- FALSE, Fails <- 2, Crashes <- 1, Edits <- 1, Restarts <- 1,
  Procs <- {r1, r2}, Unmanaged <- {l1, l2}, MaxKeys <- 3, MaxEdits <- 2, MaxFaults <- 1,
  MaxLosses <- 0, WriteFaults <- {"refused"},
  now <- clock, req <- signIns, hist <- seen,
  MaxAccounts <- 3, Emails <- {"a@x", "b@x"}, Names <- {"ann"}, Addresses <- {"ip"},
  Requests <- {r1, r2}, MaxPasswords <- 3, MaxTime <- 2, SessionDuration <- 1, Window <- 2,
  UserLimit <- 1, AddressLimit <- 2, MaxEntries <- 3, HashSlots <- 1,
  Ops <- {"password", "use", "cli"}

(* The restart while the operator recreates the manager by hand at any     *)
(* time.  The window with one failure, a crash and an edit at any time,    *)
(* also between writing the configuration and restarting the registry with *)
(* it.  The keys with writes cut off or reported as failed, and deaths of  *)
(* the manager.  Google sessions, with restarts that switch Google off and *)
(* on.                                                                     *)
Adverse == INSTANCE HostComponents_proofs WITH
  Modes <- {"ssh", "https"}, MaxOp <- 5, Faults <- {"step", "helper", "operator"},
  Updates <- FALSE, MaxDeaths <- 1,
  Bases <- {"v1", "v2"}, EditDuring <- TRUE, Fails <- 1, Crashes <- 1, Edits <- 1, Restarts <- 0,
  Procs <- {r1, r2}, Unmanaged <- {l1, l2}, MaxKeys <- 3, MaxEdits <- 1, MaxFaults <- 3,
  MaxLosses <- 2, WriteFaults <- {"refused", "cut", "sync"},
  now <- clock, req <- signIns, hist <- seen,
  MaxAccounts <- 3, Emails <- {"a@x", "b@x"}, Names <- {"ann"}, Addresses <- {"ip"},
  Requests <- {r}, MaxPasswords <- 3, MaxTime <- 2, SessionDuration <- 1, Window <- 2,
  UserLimit <- 1, AddressLimit <- 2, MaxEntries <- 3, HashSlots <- 1,
  Ops <- {"google", "use", "cli", "restart"}

(* Attempts to sign in spread over two windows, at the limits; the rest as *)
(* in Common.                                                              *)
Limiter == INSTANCE HostComponents_proofs WITH
  Modes <- {"ssh", "https"}, MaxOp <- 5, Faults <- {"step", "helper"}, Updates <- TRUE,
  MaxDeaths <- 1,
  Bases <- {"v1", "v2"}, EditDuring <- FALSE, Fails <- 2, Crashes <- 1, Edits <- 1, Restarts <- 1,
  Procs <- {r1, r2}, Unmanaged <- {l1, l2}, MaxKeys <- 3, MaxEdits <- 2, MaxFaults <- 1,
  MaxLosses <- 0, WriteFaults <- {"refused"},
  now <- clock, req <- signIns, hist <- seen,
  MaxAccounts <- 3, Emails <- {"a@x", "b@x"}, Names <- {"ann"}, Addresses <- {"ip"},
  Requests <- {r1, r2}, MaxPasswords <- 3, MaxTime <- 4, SessionDuration <- 1, Window <- 2,
  UserLimit <- 1, AddressLimit <- 3, MaxEntries <- 3, HashSlots <- 1,
  Ops <- {"password"}

(* The theorems about these components hold for these constants.           *)
ASSUME UpdateConstants ==
  /\ None \notin {a} /\ None \notin {i1, i2} /\ "prune" \notin {a} /\ "prune" # None
  /\ {r1, r2} \cap {"workflow", "helper", "operator", "prune"} = {}
  /\ None \notin Manual!Records /\ None \notin Manual!Locks /\ None \notin Manual!HelperContainers

ASSUME Constants ==
  /\ Common!Access!ConstantsOK /\ Adverse!Access!ConstantsOK
  /\ Common!Maintenance!ConstantsOK /\ Adverse!Maintenance!ConstantsOK
  /\ Common!Authorized!ConstantsOK /\ Adverse!Authorized!ConstantsOK
  /\ Common!ConstantsOK /\ Adverse!ConstantsOK /\ Limiter!ConstantsOK

Init ==
  /\ which \in {"manual", "restart", "operator", "window", "collector", "keys", "torn keys",
                "sessions", "google", "limiter"}
  /\ Manual!Init
  /\ Common!Access!Init /\ (which \in {"restart", "operator"} \/ env = "ssh")
  /\ IF which = "collector" THEN Adverse!Maintenance!Init ELSE Common!Maintenance!Init
  /\ (which \in {"window", "collector"} \/ wanted = "v1")
  /\ Common!Authorized!Init /\ (which \in {"keys", "torn keys"} \/ kept = {})
  /\ CASE which = "limiter" -> Limiter!Init
       [] which = "google" -> Adverse!Init
       [] OTHER -> Common!Init
  /\ which \in {"sessions", "google", "limiter"} \/ (~google /\ users[2].email = "a@x")

Next ==
  \/ which = "manual" /\ Manual!Next /\ UNCHANGED <<which, restart, maintenance, ssh, auth>>
  \/ /\ \/ which = "restart" /\ Common!Access!Next
        \/ which = "operator" /\ Adverse!Access!Next
     /\ UNCHANGED <<which, update, maintenance, ssh, auth>>
  \/ /\ \/ which = "window" /\ Common!Maintenance!Next
        \/ which = "collector" /\ Adverse!Maintenance!Next
     /\ UNCHANGED <<which, update, restart, ssh, auth>>
  \/ /\ \/ which = "keys" /\ Common!Authorized!Next
        \/ which = "torn keys" /\ Adverse!Authorized!Next
     /\ UNCHANGED <<which, update, restart, maintenance, auth>>
  \/ /\ \/ which = "sessions" /\ Common!Next
        \/ which = "google" /\ Adverse!Next
        \/ which = "limiter" /\ Limiter!Next
     /\ UNCHANGED <<which, update, restart, maintenance, ssh>>

Spec == Init /\ [][Next]_vars

(* The variables of an update have their types.                            *)
UpdateTypes == which = "manual" => Manual!TypeOK

(* The update helper changes the runtime tag and the manager's container   *)
(* only while its own update holds the installation lock, also after two   *)
(* reconciliations and a deployment by the operator (requireUpdateLock).   *)
HelperMutatesUnderLock == which = "manual" => Manual!HelperMutatesUnderLock

(* Recovery records success only of an update whose image runs and is the  *)
(* one the runtime reference names, whatever was deployed before.          *)
RecoveryIsVerified == Manual!RecoveryIsVerified

(* The variables of a restart have their types.                            *)
RestartTypes == which \in {"restart", "operator"} => Common!Access!TypeOK

(* At rest the manager runs in the access mode that .env holds.            *)
InSync == which = "restart" => Common!Access!InSync

(* A lock the manager finds itself admitted with has an operation that     *)
(* runs or a marker that explains it.                                      *)
LockExplained == which = "restart" => Common!Access!LockExplained

(* While the helper replaces the manager the lock is its own, also when    *)
(* an operator recreates the manager beside it.                            *)
RecreatesAlone == which \in {"restart", "operator"} => Adverse!Access!RecreatesAlone

(* The variables of a window have their types.                             *)
WindowTypes ==
  /\ which = "window" => Common!Maintenance!TypeOK
  /\ which = "collector" => Adverse!Maintenance!TypeOK

(* Whenever the registry is read-only, or will be after its next start,    *)
(* the state file says how to undo it.                                     *)
ReadOnlyIsRecorded == which = "window" => Common!Maintenance!ReadOnlyIsRecorded

(* A window that could not be undone blocks the next one.                  *)
LeftWindowIsBlocked == which = "window" => Common!Maintenance!LeftWindowIsBlocked

(* What the operator wrote before or after a window, in spite of failures  *)
(* and crashes, is never replaced by an older configuration.               *)
EditsKept == which = "window" => Common!Maintenance!EditsKept

(* A scheduled window does not repeat within a day what one completed.     *)
OncePerDay == [][which = "window" => Common!Maintenance!NotRepeated]_vars

(* The collector never runs beside a registry that accepts pushes.         *)
GCReadOnly == which = "collector" => Adverse!Maintenance!GCReadOnly

(* The variables of the keys have their types.                             *)
KeyTypes == which \in {"keys", "torn keys"} => Common!Authorized!TypeOK

(* A key that was reported as revoked never opens the host again, whatever *)
(* fails, is retried or dies afterwards.                                   *)
RevokedOut == which \in {"keys", "torn keys"} => Common!Authorized!RevokedOut

(* The operator's own lines survive creating and revoking keys, unless a   *)
(* write is cut off.                                                       *)
UnmanagedKept == which = "keys" => Common!Authorized!UnmanagedKept

(* Between operations the file holds exactly the keys of the table, even   *)
(* after an operation that failed, unless a write is cut off.              *)
FileMirrorsRows == which = "keys" => Common!Authorized!FileMirrorsRows

(* The variables of accounts and sessions have their types.                *)
AuthTypes ==
  /\ which = "sessions" => Common!TypeOK
  /\ which = "google" => Adverse!TypeOK
  /\ which = "limiter" => Limiter!TypeOK

(* A session is accepted only while the password it was obtained with is   *)
(* the account's, also when the sign-in overlapped the change.             *)
ChangesEndSessions == Common!ChangesEndSessions

(* No interleaving of deletions removes the last account.                  *)
AnAccountRemains ==
  /\ which = "sessions" => Common!AnAccountRemains
  /\ which = "google" => Adverse!AnAccountRemains
  /\ which = "limiter" => Limiter!AnAccountRemains

(* However attempts are spread over time, an account is tried at most      *)
(* twice its limit within a window.                                        *)
GuessesBounded == which = "limiter" => Limiter!GuessesBounded

(* The limiter remembers a bounded number of identities, whoever asks.     *)
LimiterBounded == which = "limiter" => Limiter!LimiterBounded

(* The hash slots that are taken are those of requests that compute one.   *)
SlotsAreHashes ==
  /\ which = "sessions" => Common!SlotsAreHashes
  /\ which = "limiter" => Limiter!SlotsAreHashes

(* Together: a deployment by the operator beside an update and two         *)
(* reconciliations of it neither lets the helper work without the lock nor *)
(* makes recovery report success of an image that does not run.            *)
UpdatesSafe == [](UpdateTypes /\ HelperMutatesUnderLock) /\ RecoveryIsVerified

(* Together: whichever step, helper or prune fails beside it, an           *)
(* access-mode restart ends in a mode that .env, container, lock and       *)
(* marker agree on, and replaces the manager only under its own lock.      *)
RestartSafe == RestartTypes /\ InSync /\ LockExplained /\ RecreatesAlone

(* Together: a read-only window can always be undone, loses no edit of the *)
(* operator, excludes pushes while it collects and runs once a day.        *)
WindowsSafe ==
  [](WindowTypes /\ ReadOnlyIsRecorded /\ LeftWindowIsBlocked /\ EditsKept /\ GCReadOnly)
  /\ OncePerDay

(* Together: the table and authorized_keys grant the same access, and the  *)
(* operator's own lines stay.                                              *)
KeysMatch == KeyTypes /\ RevokedOut /\ UnmanagedKept /\ FileMirrorsRows

(* Together: a change of an account ends what it granted, and somebody can *)
(* always sign in.                                                         *)
AccountsSound == AuthTypes /\ ChangesEndSessions /\ AnAccountRemains

(* Together: neither passwords nor memory nor hash slots are at the mercy  *)
(* of how attempts are spread over names and time.                         *)
AttemptsBounded == GuessesBounded /\ LimiterBounded /\ SlotsAreHashes
=============================================================================
