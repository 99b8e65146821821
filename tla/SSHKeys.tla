------------------------------- MODULE SSHKeys --------------------------------
(***************************************************************************)
(* The keys of the host's redlaunch user: internal/service/ssh_keys.go and *)
(* its table.                                                              *)
(*                                                                         *)
(* rows is the table, lines the authorized_keys file: the identifiers of   *)
(* managed keys and the lines the operator keeps there.  The file is bind- *)
(* mounted and rewritten in place, so a write that fails may have cut it   *)
(* off.  Creating and revoking hold one mutex; the operator edits the file *)
(* at any time.                                                            *)
(***************************************************************************)
EXTENDS Integers, FiniteSets

CONSTANTS
  Procs,            \* requests
  Unmanaged,        \* lines the operator may have in the file
  MaxKeys, MaxEdits, MaxFaults, MaxCrashes,
  WriteFaults,      \* among "refused", "cut" and "sync"
  None

VARIABLES
  rows, next,       \* identifiers in the table, and the next one
  lines, wanted,    \* the file, and the operator's lines
  revoked,          \* keys reported as revoked
  mu, proc,
  edits, faults, crashes
vars == <<rows, next, lines, wanted, revoked, mu, proc, edits, faults, crashes>>

Ids == 1..MaxKeys
Idle == [pc |-> "idle", id |-> 0, keys |-> {}]

Init ==
  /\ rows = {} /\ next = 1
  /\ wanted \in SUBSET Unmanaged /\ lines = wanted
  /\ revoked = {}
  /\ mu = None /\ proc = [p \in Procs |-> Idle]
  /\ edits = 0 /\ faults = 0 /\ crashes = 0

Goto(p, pc) == proc' = [proc EXCEPT ![p].pc = pc]
Ends(p) == proc' = [proc EXCEPT ![p] = Idle] /\ mu' = None
Faulty == faults < MaxFaults /\ faults' = faults + 1

(* writeServerSSHKeysFile: the unmanaged lines of the file, then the keys. *)
ManagedOnly(keys) == keys
Contents(keys) == (lines \cap Unmanaged) \cup keys

(* What a write that does not return success may leave behind.             *)
LeftBehind(keys) ==
  UNION {CASE f = "refused" -> {lines}
           [] f = "cut" -> {{}, lines \cap Unmanaged}
           [] f = "sync" -> {Contents(keys)} : f \in WriteFaults}

Write(keys, ok) ==
  IF ok THEN lines' = Contents(keys) /\ UNCHANGED faults
  ELSE lines' \in LeftBehind(keys) /\ Faulty

StillThere(keys, id) == keys
Remaining(keys, id) == keys \ {id}

---------------------------------------------------------------------------
(* Create                                                                  *)
CreateServerSSHKey(p) ==
  /\ proc[p].pc = "idle" /\ mu = None /\ next <= MaxKeys
  /\ mu' = p
  /\ rows' = rows \cup {next} /\ next' = next + 1
  /\ proc' = [proc EXCEPT ![p] = [pc |-> "list", id |-> next, keys |-> {}]]
  /\ UNCHANGED <<lines, wanted, revoked, faults>>

ListServerSSHKeys(p) ==
  /\ proc[p].pc = "list"
  /\ \/ proc' = [proc EXCEPT ![p].pc = "write", ![p].keys = rows] /\ UNCHANGED faults
     \/ Goto(p, "undo") /\ Faulty
  /\ UNCHANGED <<rows, next, lines, wanted, revoked, mu>>

Install(p) ==
  /\ proc[p].pc = "write"
  /\ \/ Write(proc[p].keys, TRUE) /\ Ends(p)
     \/ Write(proc[p].keys, FALSE) /\ Goto(p, "undo") /\ UNCHANGED mu
  /\ UNCHANGED <<rows, next, wanted, revoked>>

UndoNothing(p) ==
  /\ proc[p].pc = "undo"
  /\ Ends(p)
  /\ UNCHANGED <<rows, faults, next, lines, wanted, revoked>>

(* The row goes again, whatever happened to the request.                   *)
Undo(p) ==
  /\ proc[p].pc = "undo"
  /\ \/ rows' = rows \ {proc[p].id} /\ UNCHANGED faults
     \/ UNCHANGED rows /\ Faulty
  /\ Ends(p)
  /\ UNCHANGED <<next, lines, wanted, revoked>>

(* Revoke; the page may show a key that is gone.                           *)
Revoke(p, id) ==
  /\ proc[p].pc = "idle" /\ mu = None /\ id \in rows
  /\ mu' = p
  /\ proc' = [proc EXCEPT ![p] = [pc |-> "remove", id |-> id, keys |-> rows]]
  /\ UNCHANGED <<rows, next, lines, wanted, revoked, faults>>

Remove(p) ==
  /\ proc[p].pc = "remove"
  /\ \/ Write(Remaining(proc[p].keys, proc[p].id), TRUE) /\ Goto(p, "delete") /\ UNCHANGED mu
     \/ Write(Remaining(proc[p].keys, proc[p].id), FALSE) /\ Ends(p)
  /\ UNCHANGED <<rows, next, wanted, revoked>>

DeleteServerSSHKey(p) ==
  /\ proc[p].pc = "delete"
  /\ \/ /\ rows' = rows \ {proc[p].id} /\ revoked' = revoked \cup {proc[p].id}
        /\ Ends(p) /\ UNCHANGED faults
     \/ /\ Goto(p, "back") /\ Faulty
        /\ UNCHANGED <<rows, revoked, mu>>
  /\ UNCHANGED <<next, lines, wanted>>

(* The outcome of putting the line back is ignored.                        *)
PutBack(p) ==
  /\ proc[p].pc = "back"
  /\ Write(proc[p].keys, TRUE) \/ Write(proc[p].keys, FALSE)
  /\ Ends(p)
  /\ UNCHANGED <<rows, next, wanted, revoked>>

(* The operator adds or removes a line.                                    *)
Edit(l) ==
  /\ edits < MaxEdits /\ edits' = edits + 1
  /\ IF l \in wanted THEN wanted' = wanted \ {l} /\ lines' = lines \ {l}
     ELSE wanted' = wanted \cup {l} /\ lines' = lines \cup {l}
  /\ UNCHANGED <<rows, next, revoked, mu, proc, faults, crashes>>

(* The manager dies, perhaps in the middle of a write.                     *)
Crash ==
  /\ crashes < MaxCrashes /\ crashes' = crashes + 1
  /\ mu # None
  /\ lines' \in {lines} \cup
       IF proc[mu].pc \in {"write", "back"} THEN LeftBehind(proc[mu].keys)
       ELSE IF proc[mu].pc = "remove" THEN LeftBehind(Remaining(proc[mu].keys, proc[mu].id)) ELSE {}
  /\ mu' = None /\ proc' = [p \in Procs |-> Idle]
  /\ UNCHANGED <<rows, next, wanted, revoked, edits, faults>>

Step(p) ==
  \/ ListServerSSHKeys(p)
  \/ Install(p)
  \/ Undo(p)
  \/ Remove(p)
  \/ DeleteServerSSHKey(p)
  \/ PutBack(p)
createServerSSHKey(p) == CreateServerSSHKey(p)
revokeServerSSHKey(p) == \E id \in Ids : Revoke(p, id)

Next ==
  \/ \E p \in Procs : (Step(p) \/ createServerSSHKey(p) \/ revokeServerSSHKey(p)) /\ UNCHANGED <<edits, crashes>>
  \/ \E l \in Unmanaged : Edit(l)
  \/ Crash

Spec == Init /\ [][Next]_vars

---------------------------------------------------------------------------
TypeOK ==
  /\ rows \cup revoked \subseteq Ids /\ next \in 1..MaxKeys + 1
  /\ lines \subseteq Ids \cup Unmanaged
  /\ mu \in Procs \cup {None}

(* A key that was reported as revoked never opens the host again, whatever *)
(* fails or is retried afterwards.                                         *)
RevokedOut == revoked \cap lines = {}

(* The operator's own lines survive creating and revoking.                 *)
UnmanagedKept == wanted \subseteq lines

(* Between operations the file holds exactly the keys of the table, even   *)
(* after one that failed.                                                  *)
FileMirrorsRows == mu = None => lines \cap Ids = rows

---------------------------------------------------------------------------
(* The inductive invariant.                                                *)

(* The operator's lines are no managed keys, and None is no request.       *)
ConstantsOK ==
  /\ MaxKeys \in Nat /\ MaxFaults \in Nat /\ MaxCrashes \in Nat
  /\ Unmanaged \cap Ids = {} /\ None \notin Procs
  /\ WriteFaults \subseteq {"refused", "cut", "sync"}

Pcs == {"idle", "list", "write", "undo", "remove", "delete", "back"}

(* Only the holder of the mutex is at work, with the table's rows in hand, *)
(* and a key it is about to report as revoked is out of the file already.  *)
AtWork(p, q) ==
  /\ q.pc # "idle" <=> mu = p
  /\ q.pc # "idle" => q.id \in Ids /\ q.id < next
  /\ q.pc \in {"write", "remove", "delete", "back"} => q.keys = rows
  /\ q.pc = "delete" => q.id \notin lines

(* Identifiers are used once: a revoked key is never a row again.          *)
IdsOnce ==
  /\ \A id \in rows \cup revoked : id < next
  /\ rows \cap revoked = {}

(* How far the file is from the table in the middle of an operation, when  *)
(* writes are all or nothing and one step fails at most: a step that has   *)
(* to succeed has no failure left.                                         *)
AllOrNothing == WriteFaults \subseteq {"refused"} /\ MaxFaults <= 1 /\ MaxCrashes = 0
Apart(q) ==
  /\ q.pc = "remove" => lines \cap Ids = rows
  /\ q.pc \in {"list", "write", "undo", "delete", "back"} => lines \cap Ids = rows \ {q.id}
  /\ q.pc \in {"undo", "back"} => faults >= MaxFaults

IInv ==
  /\ TypeOK
  /\ faults \in Nat /\ crashes \in Nat /\ wanted \subseteq Unmanaged
  /\ proc \in [Procs -> [pc : Pcs, id : 0..MaxKeys, keys : SUBSET Ids]]
  /\ \A p \in Procs : AtWork(p, proc[p])
  /\ IdsOnce
  /\ RevokedOut
  /\ "cut" \notin WriteFaults => UnmanagedKept
  /\ AllOrNothing => FileMirrorsRows /\ \A p \in Procs : Apart(proc[p])

=============================================================================
