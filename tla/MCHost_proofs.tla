---------------------------- MODULE MCHost_proofs ----------------------------
(***************************************************************************)
(* The theorems about single components carried over to the suite, whose   *)
(* behaviours are those of one component while the others rest.  The       *)
(* invariant of a component with two instances is the one of the instance  *)
(* that runs.                                                              *)
(***************************************************************************)
EXTENDS MCHost, TLAPS

(* SSH keys: writes that are all or nothing, and torn ones.                *)

KeysInv == IF which = "torn keys" THEN Adverse!Authorized!IInv ELSE Common!Authorized!IInv

LEMMA KeysStart == ASSUME Init PROVE KeysInv
  <1>1. Common!Authorized!IInv
    BY Constants, Common!KeysInitIInv DEF Init
  <1>2. Adverse!Authorized!Init
    BY DEF Init, Common!Authorized!Init, Adverse!Authorized!Init, Common!Authorized!Idle, Adverse!Authorized!Idle
  <1>3. Adverse!Authorized!IInv
    BY <1>2, Constants, Adverse!KeysInitIInv
  <1> QED  BY <1>1, <1>3 DEF KeysInv

LEMMA KeysStep == ASSUME KeysInv, [Next]_vars PROVE KeysInv'
  <1>1. CASE which' = which /\ UNCHANGED ssh
    BY <1>1, Constants, Common!KeysNextIInv, Adverse!KeysNextIInv
       DEF ssh, Common!Authorized!vars, Adverse!Authorized!vars, KeysInv
  <1>2. CASE which = "keys" /\ Common!Authorized!Next /\ which' = which
    BY <1>2, Constants, Common!KeysNextIInv DEF KeysInv
  <1>3. CASE which = "torn keys" /\ Adverse!Authorized!Next /\ which' = which
    BY <1>3, Constants, Adverse!KeysNextIInv DEF KeysInv
  <1> QED  BY <1>1, <1>2, <1>3 DEF Next, vars, ssh

\* Run host: the table and authorized_keys grant the same access, a revoked
\* key stays out and the operator's own lines stay (ssh_keys.go).
THEOREM KeysAlwaysMatch == Spec => []KeysMatch
  <1>1. KeysInv => KeysMatch
    <2>1. Common!Authorized!AllOrNothing
      BY DEF Common!Authorized!AllOrNothing
    <2> QED
      BY <2>1 DEF KeysInv, KeysMatch, KeyTypes, RevokedOut, UnmanagedKept, FileMirrorsRows,
                  Common!Authorized!IInv, Adverse!Authorized!IInv, Common!Authorized!RevokedOut,
                     Adverse!Authorized!RevokedOut, Common!Authorized!TypeOK, Adverse!Authorized!TypeOK,
                  Common!Authorized!Ids, Adverse!Authorized!Ids
  <1> QED  BY <1>1, KeysStart, KeysStep, PTL DEF Spec
-----------------------------------------------------------------------------
(* The access-mode restart: failing steps and helpers, and an operator who *)
(* removes locks as well.                                                  *)

RestartInv == IF which = "operator" THEN Adverse!Access!IInv ELSE Common!Access!IInv

LEMMA RestartStart == ASSUME Init PROVE RestartInv
  <1>1. Common!Access!IInv
    BY Constants, Common!RestartInitIInv DEF Init
  <1>2. Adverse!Access!Init
    BY DEF Init, Common!Access!Init, Adverse!Access!Init, Common!Access!NoHelper,
           Adverse!Access!NoHelper,
           Common!Access!NoRequest, Adverse!Access!NoRequest
  <1>3. Adverse!Access!IInv
    BY <1>2, Constants, Adverse!RestartInitIInv
  <1> QED  BY <1>1, <1>3 DEF RestartInv

LEMMA RestartStep == ASSUME RestartInv, [Next]_vars PROVE RestartInv'
  <1>1. CASE which' = which /\ UNCHANGED restart
    BY <1>1, Constants, Common!RestartNextIInv, Adverse!RestartNextIInv
       DEF restart, Common!Access!vars, Common!Access!files, Common!Access!manager,
           Adverse!Access!vars, Adverse!Access!files,
           Adverse!Access!manager, RestartInv
  <1>2. CASE which = "restart" /\ Common!Access!Next /\ which' = which
    BY <1>2, Constants, Common!RestartNextIInv DEF RestartInv
  <1>3. CASE which = "operator" /\ Adverse!Access!Next /\ which' = which
    BY <1>3, Constants, Adverse!RestartNextIInv DEF RestartInv
  <1> QED  BY <1>1, <1>2, <1>3 DEF Next, vars, restart

\* Run host: an access-mode restart ends in agreement whatever step,
\* helper or prune fails beside it, and replaces the manager only under its
\* own lock, also while an operator removes locks.
THEOREM RestartAlwaysSafe == Spec => []RestartSafe
  <1>1. RestartInv => RestartSafe
    <2>1. CASE which = "operator" /\ Adverse!Access!IInv
      <3>1. Adverse!Access!TypeOK /\ Adverse!Access!RecreatesAlone
        BY <2>1, Adverse!RestartIInvAlone
      <3> QED
        BY <2>1, <3>1 DEF RestartSafe, RestartTypes, InSync, LockExplained, RecreatesAlone,
                          Common!Access!TypeOK, Adverse!Access!TypeOK
    <2>2. CASE which # "operator" /\ Common!Access!IInv
      <3>1. Common!Access!TypeOK /\ Common!Access!RecreatesAlone
        BY <2>2, Common!RestartIInvAlone
      <3>2. Common!Access!InSync
        BY <2>2, Common!RestartIInvInSync
      <3>3. Common!Access!LockExplained
        BY <2>2, Common!RestartIInvExplained
      <3> QED
        BY <3>1, <3>2, <3>3
           DEF RestartSafe, RestartTypes, InSync, LockExplained, RecreatesAlone,
               Common!Access!RecreatesAlone, Adverse!Access!RecreatesAlone, Common!Access!Owns,
                  Adverse!Access!Owns
    <2> QED  BY <2>1, <2>2 DEF RestartInv
  <1> QED  BY <1>1, RestartStart, RestartStep, PTL DEF Spec
-----------------------------------------------------------------------------
(* The release update beside deployments by the operator.                  *)

UpdateInv == Manual!IInv /\ Manual!SInv

LEMMA UpdateStart == ASSUME Init PROVE UpdateInv
  <1>1. Manual!Init
    BY DEF Init
  <1> QED  BY <1>1, UpdateConstants, Manual!InitIInv, Manual!InitSInv DEF UpdateInv

LEMMA UpdateStep ==
  ASSUME UpdateInv, [Next]_vars
  PROVE  UpdateInv' /\ [Manual!RecoveryStep]_Manual!vars
  <1>1. [Manual!Next]_Manual!vars
    BY DEF Next, vars, update, Manual!vars
  <1> QED
    BY <1>1, UpdateConstants, Manual!NextIInv, Manual!NextSInv, Manual!RecoveryStepVerified
       DEF UpdateInv

\* Run host: a deployment by the operator beside an update and two
\* reconciliations of it neither lets the helper work without the lock nor
\* makes recovery report success of an image that does not run.
THEOREM UpdatesAlwaysSafe == Spec => UpdatesSafe
  <1>1. UpdateInv => Manual!TypeOK /\ Manual!HelperMutatesUnderLock
    BY UpdateConstants, Manual!MutatesLocked DEF UpdateInv, Manual!IInv
  <1>2. Init => UpdateInv
    BY UpdateStart
  <1>3. UpdateInv /\ [Next]_vars
          => UpdateInv' /\ [Manual!RecoveryStep]_Manual!vars
    BY UpdateStep
  <1> QED
    BY <1>1, <1>2, <1>3, PTL
       DEF Spec, UpdatesSafe, UpdateTypes, HelperMutatesUnderLock, RecoveryIsVerified,
           Manual!RecoveryIsVerified, Manual!RecoveryStep
-----------------------------------------------------------------------------
(* The maintenance window: edits outside of it, and edits at any time.     *)

WindowInv == IF which = "collector" THEN Adverse!Maintenance!IInv ELSE Common!Maintenance!IInv

LEMMA WindowStart == ASSUME Init PROVE WindowInv
  BY Constants, Common!WindowInitIInv, Adverse!WindowInitIInv DEF Init, WindowInv

LEMMA WindowStep ==
  ASSUME WindowInv, [Next]_vars
  PROVE  WindowInv' /\ (which = "window" => Common!Maintenance!NotRepeated)
  <1> USE DEF maintenance, Common!Maintenance!vars, Common!Maintenance!registry, Common!Maintenance!memory,
              Common!Maintenance!window,
              Adverse!Maintenance!vars, Adverse!Maintenance!registry, Adverse!Maintenance!memory,
                 Adverse!Maintenance!window
  <1>1. CASE which' = which /\ UNCHANGED maintenance
    BY <1>1, Constants, Common!WindowNextIInv, Adverse!WindowNextIInv, Common!WindowStepOnce
       DEF WindowInv
  <1>2. CASE which = "window" /\ Common!Maintenance!Next /\ which' = which
    BY <1>2, Constants, Common!WindowNextIInv, Common!WindowStepOnce DEF WindowInv
  <1>3. CASE which = "collector" /\ Adverse!Maintenance!Next /\ which' = which
    BY <1>3, Constants, Adverse!WindowNextIInv DEF WindowInv
  <1> QED  BY <1>1, <1>2, <1>3 DEF Next, vars

\* Run host: a read-only window can always be undone, loses no edit of
\* the operator, excludes pushes while it collects and runs once a day.
THEOREM WindowsAlwaysSafe == Spec => WindowsSafe
  <1>1. WindowInv => /\ WindowTypes /\ ReadOnlyIsRecorded /\ LeftWindowIsBlocked
                     /\ EditsKept /\ GCReadOnly
    BY DEF WindowInv, WindowTypes, ReadOnlyIsRecorded, LeftWindowIsBlocked, EditsKept,
           GCReadOnly, Common!Maintenance!IInv, Adverse!Maintenance!IInv, Adverse!Maintenance!ReadOnlyWhileOpen,
           Adverse!Maintenance!GCReadOnly
  <1>2. Init => WindowInv
    BY WindowStart
  <1>3. WindowInv /\ [Next]_vars
          => WindowInv' /\ [which = "window" => Common!Maintenance!NotRepeated]_vars
    BY WindowStep
  <1> QED  BY <1>1, <1>2, <1>3, PTL DEF Spec, WindowsSafe, OncePerDay
-----------------------------------------------------------------------------
(* Accounts, sessions and the limiter of sign-ins: with a password, with   *)
(* Google and restarts, and at the limits.                                 *)

SignInInv == CASE which = "google" -> Adverse!IInv
               [] which = "limiter" -> Limiter!IInv
               [] OTHER -> Common!IInv

LEMMA SignInStart == ASSUME Init PROVE SignInInv
  <1>1. CASE which = "limiter"
    BY <1>1, Constants, Limiter!InitIInv DEF Init, SignInInv
  <1>2. CASE which = "google"
    BY <1>2, Constants, Adverse!InitIInv DEF Init, SignInInv
  <1>3. CASE which \notin {"limiter", "google"}
    BY <1>3, Constants, Common!InitIInv DEF Init, SignInInv
  <1> QED  BY <1>1, <1>2, <1>3

LEMMA SignInStep == ASSUME SignInInv, [Next]_vars PROVE SignInInv'
  <1>1. CASE which' = which /\ UNCHANGED auth
    BY <1>1, Constants, Common!NextIInv, Adverse!NextIInv, Limiter!NextIInv
       DEF auth, Common!vars, Adverse!vars, Limiter!vars, SignInInv
  <1>2. CASE which = "sessions" /\ Common!Next /\ which' = which
    BY <1>2, Constants, Common!NextIInv DEF SignInInv
  <1>3. CASE which = "google" /\ Adverse!Next /\ which' = which
    BY <1>3, Constants, Adverse!NextIInv DEF SignInInv
  <1>4. CASE which = "limiter" /\ Limiter!Next /\ which' = which
    BY <1>4, Constants, Limiter!NextIInv DEF SignInInv
  <1> QED  BY <1>1, <1>2, <1>3, <1>4 DEF Next, vars, auth

\* Run host: a change of an account ends the sessions that rest on what it
\* was, also of a sign-in that overlaps the change, and an account remains
\* (auth/auth.go, store/local_users.go).
THEOREM AccountsAlwaysSound == Spec => []AccountsSound
  <1>1. SignInInv => AccountsSound
    <2> USE DEF AccountsSound, AuthTypes, ChangesEndSessions, AnAccountRemains,
                Common!ChangesEndSessions
    <2>1. CASE which = "limiter" /\ Limiter!IInv
      <3>1. Limiter!TypeOK /\ Limiter!ChangesEndSessions /\ Limiter!AnAccountRemains
        BY <2>1 DEF Limiter!IInv, Limiter!Typed
      <3> QED  BY <2>1, <3>1, Zenon DEF Limiter!ChangesEndSessions
    <2>2. CASE which = "google" /\ Adverse!IInv
      <3>1. Adverse!TypeOK /\ Adverse!ChangesEndSessions /\ Adverse!AnAccountRemains
        BY <2>2 DEF Adverse!IInv, Adverse!Typed
      <3> QED  BY <2>2, <3>1, Zenon DEF Adverse!ChangesEndSessions
    <2>3. CASE which \notin {"google", "limiter"} /\ Common!IInv
      <3>1. Common!TypeOK /\ Common!ChangesEndSessions /\ Common!AnAccountRemains
        BY <2>3 DEF Common!IInv, Common!Typed
      <3> QED  BY <2>3, <3>1, Zenon
    <2> QED  BY <2>1, <2>2, <2>3 DEF SignInInv
  <1> QED  BY <1>1, SignInStart, SignInStep, PTL DEF Spec

\* Run host: whatever names and addresses attempts come from, the guesses
\* for a name within a window, the entries of the limiter and the hash
\* slots stay within their limits, and a slot that is taken is of a request
\* that computes a hash.
THEOREM AttemptsAlwaysBounded == Spec => []AttemptsBounded
  <1>1. SignInInv => AttemptsBounded
    <2> USE DEF AttemptsBounded, GuessesBounded, LimiterBounded, SlotsAreHashes
    <2>1. CASE which = "limiter" /\ Limiter!IInv
      <3>1. Limiter!GuessesBounded
        BY <2>1, Constants, Limiter!CountedBounds
      <3>2. Limiter!LimiterBounded /\ Limiter!SlotsAreHashes
        BY <2>1 DEF Limiter!IInv
      <3> QED  BY <2>1, <3>1, <3>2
    <2>2. CASE which # "limiter" /\ (which = "sessions" => Common!IInv)
      BY <2>2 DEF Common!IInv
    <2> QED  BY <2>1, <2>2 DEF SignInInv
  <1> QED  BY <1>1, SignInStart, SignInStep, PTL DEF Spec
=============================================================================
