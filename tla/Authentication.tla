---------------------------- MODULE Authentication ----------------------------
(***************************************************************************)
(* Accounts, sign-in and signed sessions: internal/auth, service/users.go, *)
(* store/local_users.go and handler/auth.go.                               *)
(*                                                                         *)
(* A session is a signed value in a cookie: nothing of it is stored, and a *)
(* request that presents it is checked against the account as it is then.  *)
(* A password is its number: every change sets one that was never used, so *)
(* the number says which change a sign-in knew of.  0 is no password.      *)
(***************************************************************************)
EXTENDS Integers, FiniteSets

CONSTANTS
  MaxAccounts,          \* accounts that are ever created
  Emails, Names,        \* names are the identifiers of older accounts
  Addresses,            \* remote addresses
  Requests,             \* requests in progress
  MaxPasswords, MaxTime,
  SessionDuration, Window,
  UserLimit, AddressLimit, MaxEntries, HashSlots,
  Ops                   \* what requests ask for in this instance

VARIABLES
  users,      \* rows of users, by id: ids are never reused
  nextID, nextPassword, now,
  google,     \* Google sign-in is configured
  sessions,   \* session values that were handed out
  entries,    \* loginLimiter.entries
  req,        \* requests in progress
  slots,      \* hashSlots taken
  hist        \* attempts let through, and sessions accepted wrongly

vars == <<users, nextID, nextPassword, now, google, sessions, entries, req, slots, hist>>

IDs == 1 .. MaxAccounts
Absent == [email |-> "none", name |-> "none", password |-> 0, version |-> 0]
Idle == [pc |-> "idle", user |-> Absent, id |-> 0, guess |-> 0, provider |-> "none"]
Keys == Emails \cup Names \cup Addresses
NoEntry == [count |-> 0, expires |-> 0]
Present(id) == users[id] # Absent
Count == Cardinality({id \in IDs : Present(id)})

(* An upgrade found an account with a username and a Google-only account:  *)
(* migration 24 copied them.                                               *)
Init ==
  /\ \E e \in Emails, n \in Names :
       users = [id \in IDs |->
         CASE id = 1 -> [email |-> "none", name |-> n, password |-> 1, version |-> 1]
           [] id = 2 -> [email |-> e, name |-> "none", password |-> 0, version |-> 1]
           [] OTHER -> Absent]
  /\ nextID = 3 /\ nextPassword = 2 /\ now = 1
  /\ google \in BOOLEAN
  /\ sessions = {}
  /\ entries = [k \in Keys |-> NoEntry]
  /\ req = [r \in Requests |-> Idle]
  /\ slots = 0
  /\ hist = [tried |-> [k \in Keys |-> [t \in 1 .. MaxTime |-> 0]], wrong |-> FALSE]

TypeOK ==
  /\ nextID \in 3 .. MaxAccounts + 1 /\ nextPassword \in 2 .. MaxPasswords + 1 /\ now \in 1 .. MaxTime
  /\ \A id \in IDs : Present(id) => /\ id < nextID /\ users[id].version > 0
                                    /\ (users[id].email = "none") # (users[id].name = "none")
  /\ \A a, b \in IDs : (Present(a) /\ Present(b) /\ a # b) =>
       \/ users[a].email # users[b].email
       \/ users[a].name # users[b].name
  /\ slots \in 0 .. HashSlots

Done(r) == req' = [req EXCEPT ![r] = Idle]
Stored == <<users, nextID, nextPassword, google>>

Tick ==
  /\ now < MaxTime
  /\ now' = now + 1
  /\ UNCHANGED <<Stored, sessions, entries, req, slots, hist>>

-----------------------------------------------------------------------------
(* loginLimiter.allow.                                                     *)
Fresh == [k \in Keys |-> IF now < entries[k].expires THEN entries[k] ELSE NoEntry]
Used(e) == {k \in Keys : e[k] # NoEntry}

AllowedAlways(who, address) ==
  Fresh[who].count < UserLimit /\ Fresh[address].count < AddressLimit

Allowed(who, address) ==
  /\ Fresh[who].count < UserLimit
  /\ Fresh[address].count < AddressLimit
  /\ Cardinality(Used(Fresh) \cup {who, address}) <= MaxEntries

CountedNew(k) == [count |-> Fresh[k].count + 1, expires |-> now]

Counted(k) ==
  [count |-> Fresh[k].count + 1,
   expires |-> IF Fresh[k].count = 0 THEN now + Window ELSE Fresh[k].expires]

(* AuthenticatePassword, up to the account: the limiter, then a slot or a  *)
(* refusal, then the account is read.                                      *)
Lookup(who) == {id \in IDs : Present(id) /\ (users[id].email = who \/ (users[id].email = "none" /\ users[id].name = who))}

TakeSlot(r, who, guess) ==
  IF slots >= HashSlots THEN UNCHANGED <<slots, req>>
  ELSE /\ slots' = slots + 1
       /\ req' = [req EXCEPT ![r] = [Idle EXCEPT !.pc = "hash", !.guess = guess, !.provider = "password",
            !.id = IF Lookup(who) = {} THEN 0 ELSE CHOOSE id \in Lookup(who) : TRUE,
            !.user = IF Lookup(who) = {} THEN Absent ELSE users[CHOOSE id \in Lookup(who) : TRUE]]]

AuthenticatePassword(r, who, address, guess) ==
  /\ req[r] = Idle /\ "password" \in Ops
  /\ IF ~Allowed(who, address)
       THEN /\ entries' = Fresh
            /\ UNCHANGED <<slots, req, hist>>
       ELSE /\ entries' = [Fresh EXCEPT ![who] = Counted(who), ![address] = Counted(address)]
            /\ hist' = [hist EXCEPT !.tried[who][now] = @ + 1]
            /\ TakeSlot(r, who, guess)
  /\ UNCHANGED <<Stored, now, sessions>>

(* The hash is computed, which takes a while, and the slot given back.  An *)
(* unknown account costs the same: the dummy hash never matches.           *)
Verified(q) == q.id # 0 /\ q.user.password # 0 /\ q.guess = q.user.password

SlotKept(r) == IF Verified(req[r]) THEN slots - 1 ELSE slots

SlotBack(r) == slots - 1

VerifyPassword(r) ==
  /\ req[r].pc = "hash"
  /\ slots' = SlotBack(r)
  /\ IF Verified(req[r]) THEN req' = [req EXCEPT ![r].pc = "session"] ELSE Done(r)
  /\ UNCHANGED <<Stored, now, sessions, entries, hist>>

(* googleCallback and CompleteLogin: a verified email of a listed user.    *)
CompleteLogin(r, email) ==
  /\ req[r] = Idle /\ "google" \in Ops
  /\ google
  /\ \E id \in IDs : /\ Present(id) /\ users[id].email = email
                     /\ req' = [req EXCEPT ![r] = [Idle EXCEPT !.pc = "session", !.id = id,
                                  !.user = users[id], !.provider = "google"]]
  /\ UNCHANGED <<Stored, now, sessions, entries, slots, hist>>

(* NewSession: what the sign-in read is signed.                            *)
SessionNow(q) ==
  [id |-> q.id, provider |-> q.provider, version |-> users[q.id].version, email |-> users[q.id].email,
   expires |-> now + SessionDuration, guess |-> q.guess]

Session(q) ==
  [id |-> q.id, provider |-> q.provider, version |-> q.user.version, email |-> q.user.email,
   expires |-> now + SessionDuration, guess |-> q.guess]

NewSession(r) ==
  /\ req[r].pc = "session"
  /\ sessions' = sessions \cup {Session(req[r])}
  /\ Done(r)
  /\ UNCHANGED <<Stored, now, entries, slots, hist>>

-----------------------------------------------------------------------------
(* ValidateSession: the account the session names is compared with it.     *)
Valid(s) ==
  LET account == users[s.id]
  IN /\ now < s.expires
     /\ Present(s.id)
     /\ account.version = s.version /\ account.email = s.email
     /\ (s.provider = "google" => google)
     /\ (s.provider = "password" => account.password # 0)

(* withAuthentication lets a request through to its handler.               *)
Wrong(s) ==
  \/ ~Present(s.id)
  \/ s.provider = "password" /\ s.guess # users[s.id].password
  \/ s.provider = "google" /\ ~google
  \/ now >= s.expires

WithAuthentication(r, s) ==
  /\ req[r] = Idle /\ Valid(s)
  /\ req' = [req EXCEPT ![r] = [Idle EXCEPT !.pc = "settings"]]
  /\ hist' = [hist EXCEPT !.wrong = @ \/ Wrong(s)]
  /\ UNCHANGED <<Stored, now, sessions, entries, slots>>

(* mutateUser, with the form of an accepted request.                       *)
CreateUser(r, email) ==
  /\ req[r].pc = "settings" /\ nextID <= MaxAccounts /\ nextPassword <= MaxPasswords
  /\ Done(r)
  /\ IF \E id \in IDs : users[id].email = email
       THEN UNCHANGED <<users, nextID, nextPassword>>
       ELSE /\ users' = [users EXCEPT ![nextID] =
                 [email |-> email, name |-> "none", password |-> nextPassword, version |-> 1]]
            /\ nextID' = nextID + 1 /\ nextPassword' = nextPassword + 1
  /\ UNCHANGED <<google, now, sessions, entries, slots, hist>>

Repassworded(id) ==
  [users EXCEPT ![id] = [users[id] EXCEPT !.password = nextPassword, !.version = @ + 1]]

ChangeUserPassword(id) ==
  /\ Present(id) /\ nextPassword <= MaxPasswords
  /\ users' = Repassworded(id)
  /\ nextPassword' = nextPassword + 1
  /\ UNCHANGED <<nextID, google, now, sessions, entries, slots, hist>>

AssignUserEmail(r, id, email) ==
  /\ req[r].pc = "settings"
  /\ Done(r)
  /\ IF ~Present(id) \/ users[id].email # "none" \/ \E x \in IDs : users[x].email = email
       THEN UNCHANGED users
       ELSE users' = [users EXCEPT ![id] =
              [users[id] EXCEPT !.email = email, !.name = "none", !.version = @ + 1]]
  /\ UNCHANGED <<nextID, nextPassword, google, now, sessions, entries, slots, hist>>

(* UserService.Delete lists the accounts and then deletes: the statement,  *)
(* and the trigger behind it, count again.                                 *)
ListUsers(r, id) ==
  /\ req[r].pc = "settings" /\ Present(id) /\ Count > 1
  /\ req' = [req EXCEPT ![r] = [req[r] EXCEPT !.pc = "delete", !.id = id]]
  /\ UNCHANGED <<Stored, now, sessions, entries, slots, hist>>

DeletedUnseen(id) == [users EXCEPT ![id] = Absent]

Deleted(id) == IF Count > 1 THEN [users EXCEPT ![id] = Absent] ELSE users

DeleteUser(r) ==
  /\ req[r].pc = "delete"
  /\ users' = Deleted(req[r].id)
  /\ Done(r)
  /\ UNCHANGED <<nextID, nextPassword, google, now, sessions, entries, slots, hist>>

(* auth-reset-password, next to the manager.                               *)
ResetLocalPassword(who) ==
  /\ "cli" \in Ops
  /\ \E id \in Lookup(who) : ChangeUserPassword(id)
  /\ UNCHANGED req

(* The manager restarts with Google configured or not; it refuses to start *)
(* when nobody could sign in.                                              *)
CheckAuthenticationReady(g) ==
  \/ \E id \in IDs : users[id].password # 0
  \/ g /\ \E id \in IDs : users[id].email # "none"

Restart ==
  /\ "restart" \in Ops
  /\ \E g \in BOOLEAN : google' = g /\ CheckAuthenticationReady(g)
  /\ entries' = [k \in Keys |-> NoEntry]
  /\ req' = [r \in Requests |-> Idle]
  /\ slots' = 0
  /\ hist' = [hist EXCEPT !.tried = [k \in Keys |-> [t \in 1 .. MaxTime |-> 0]]]
  /\ UNCHANGED <<users, nextID, nextPassword, now, sessions>>

(* The form posts a password, which the model numbers.                     *)
PasswordLogin(r) ==
  \E who \in Emails \cup Names, a \in Addresses, g \in 1 .. nextPassword - 1 :
    AuthenticatePassword(r, who, a, g)

GoogleCallback(r) == \E e \in Emails : CompleteLogin(r, e)

MutateUser(r) ==
  \/ \E e \in Emails : CreateUser(r, e)
  \/ \E id \in IDs : req[r].pc = "settings" /\ ChangeUserPassword(id) /\ Done(r)
  \/ \E id \in IDs, e \in Emails : AssignUserEmail(r, id, e)
  \/ \E id \in IDs : ListUsers(r, id)

Next ==
  \/ Tick \/ Restart
  \/ \E who \in Emails \cup Names : ResetLocalPassword(who)
  \/ \E r \in Requests :
       \/ PasswordLogin(r) \/ VerifyPassword(r) \/ GoogleCallback(r) \/ NewSession(r)
       \/ "use" \in Ops /\ \E s \in sessions : WithAuthentication(r, s)
       \/ MutateUser(r) \/ DeleteUser(r)

Spec == Init /\ [][Next]_vars

-----------------------------------------------------------------------------
(* A session is accepted only while the password it was obtained with is   *)
(* the account's password: changing a password or deleting an account ends *)
(* its sessions, the ones included whose sign-in had read the account      *)
(* before the change and was answered after it.                            *)
ChangesEndSessions == ~hist.wrong

(* No interleaving of deletions removes the last account.                  *)
AnAccountRemains == Count > 0

(* However attempts are spread over time, an account is tried at most      *)
(* twice its limit within any stretch as long as the window.               *)
TriedIn(k, t) == [d \in 0 .. Window - 1 |-> IF t + d <= MaxTime THEN hist.tried[k][t + d] ELSE 0]
GuessesBounded ==
  \A k \in Emails \cup Names, t \in 1 .. MaxTime :
    TriedIn(k, t)[0] + TriedIn(k, t)[Window - 1] <= 2 * UserLimit

(* The limiter remembers a bounded number of identities, whoever asks.     *)
LimiterBounded == Cardinality(Used(entries)) <= MaxEntries

(* The slots that are taken are those of requests that compute a hash.     *)
SlotsAreHashes == slots = Cardinality({r \in Requests : req[r].pc = "hash"})

-----------------------------------------------------------------------------
(* The inductive invariant.                                                *)

(* Names, emails and addresses are told apart and none is empty.           *)
ConstantsOK ==
  /\ MaxAccounts \in Nat /\ MaxAccounts >= 2
  /\ {MaxPasswords, MaxTime, UserLimit, AddressLimit, MaxEntries, HashSlots, SessionDuration} \subseteq Nat
  /\ MaxPasswords >= 1 /\ MaxTime >= 1 /\ Window \in Nat \ {0}
  /\ "none" \notin Emails \cup Names /\ (Emails \cup Names) \cap Addresses = {}
  /\ IsFiniteSet(Requests)

Accounts == [email : Emails \cup {"none"}, name : Names \cup {"none"}, password : Nat, version : Nat]
Pcs == {"idle", "hash", "session", "settings", "delete"}
Providers == {"password", "google"}

Typed ==
  /\ TypeOK
  /\ users \in [IDs -> Accounts]
  /\ google \in BOOLEAN
  /\ sessions \subseteq [id : IDs, provider : Providers, version : Nat, email : Emails \cup {"none"},
                        expires : Nat, guess : Nat]
  /\ entries \in [Keys -> [count : Nat, expires : Nat]]
  /\ req \in [Requests -> [pc : Pcs, user : Accounts, id : 0 .. MaxAccounts, guess : Nat,
                           provider : Providers \cup {"none"}]]
  /\ hist \in [tried : [Keys -> [1 .. MaxTime -> Nat]], wrong : BOOLEAN]

(* What was read of an account is its present version or an older one, and *)
(* of the present version the password too.  Ids are not reused.           *)
Known(id, version, password) ==
  /\ id \in IDs /\ id < nextID
  /\ Present(id) => /\ version <= users[id].version
                    /\ version = users[id].version => password = users[id].password

CopyKnown(q) ==
  /\ q.pc \in {"hash", "session"} /\ q.id # 0 => Known(q.id, q.user.version, q.user.password)
  /\ q.pc = "session" => q.id # 0 /\ q.provider \in Providers
  /\ q.pc = "hash" => q.provider = "password"
  /\ q.pc = "session" /\ q.provider = "password" => q.guess = q.user.password
  /\ q.pc = "delete" => q.id # 0
CopiesKnown ==
  /\ \A r \in Requests : CopyKnown(req[r])
  /\ \A s \in sessions : s.provider = "password" => Known(s.id, s.version, s.guess)

(* An attempt of this tick is counted in an entry that is still fresh.     *)
AttemptsCounted ==
  \A k \in Emails \cup Names, t \in 1 .. MaxTime :
    /\ hist.tried[k][t] <= UserLimit
    /\ t > now => hist.tried[k][t] = 0
    /\ t = now /\ hist.tried[k][t] > 0 => now < entries[k].expires /\ hist.tried[k][t] <= entries[k].count

IInv ==
  /\ Typed /\ CopiesKnown /\ ChangesEndSessions /\ AnAccountRemains /\ SlotsAreHashes
  /\ IsFiniteSet(Used(entries)) /\ LimiterBounded /\ AttemptsCounted
=============================================================================
