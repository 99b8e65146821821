-------------------------------- MODULE OAuth --------------------------------
(***************************************************************************)
(* The authorization server for MCP clients and the API tokens it issues:  *)
(* internal/service/oauth.go, internal/store/oauth.go, api_tokens.go and   *)
(* the handlers in front of them.                                          *)
(*                                                                         *)
(* A client registers, the owner approves a resource, and the client       *)
(* exchanges a single-use code for a pair of an access token and a refresh *)
(* token.  A refresh replaces the pair.  Pairs are numbered in the order   *)
(* they are issued; token p is access token p or refresh token p.  A grant *)
(* has the number of the code it was issued for.                           *)
(*                                                                         *)
(* A request reads the database in one step and writes it in another:      *)
(* refreshMu serialises refreshes and the removal of a connection, and     *)
(* nothing else.                                                           *)
(***************************************************************************)
EXTENDS Integers, FiniteSets

CONSTANTS
  Clients, Requests, Resources,
  NumCodes,     \* codes the owner approves
  MaxPairs,     \* token pairs that are issued
  MaxTime,      \* bound on the clock
  Grace, CodeLifetime, AccessLifetime, IdleLifetime, AbsoluteLifetime,
  MaxClients, MaxReplays, MaxPending

VARIABLES
  now, next,    \* the clock, and the next pair
  clients,      \* registered clients: "absent", "new" or "old" (past 24 hours)
  codes,        \* codes[c]: pending authorizations, in memory
  grants,       \* rows of oauth_grants
  superseded,   \* rows of oauth_superseded_refresh_tokens
  tokens,       \* rows of api_tokens, by pair
  replays,      \* rotations that may be replayed, in memory
  mu,           \* holder of refreshMu, or "free"
  req,          \* requests in progress
  hist          \* what happened: see Init

vars == <<now, next, clients, codes, grants, superseded, tokens, replays, mu, req, hist>>

ASSUME ConstantsOK ==
  /\ "free" \notin Requests /\ "none" \notin Clients
  /\ NumCodes \in Nat /\ MaxPairs \in Nat /\ MaxTime \in Nat \ {0}
  /\ Grace \in Nat /\ CodeLifetime \in Nat /\ AccessLifetime \in Nat
  /\ IdleLifetime \in Nat /\ AbsoluteLifetime \in Nat
  /\ MaxClients \in Nat /\ MaxReplays \in Nat /\ MaxPending \in Nat

Codes == 1 .. NumCodes
Pairs == 1 .. MaxPairs
NoGrant == [client |-> "none", resource |-> "none", refresh |-> 0, previous |-> 0, access |-> 0,
            idle |-> 0, absolute |-> 0]
NoToken == [live |-> FALSE, expires |-> 0, resource |-> "none", used |-> 0]
NoReplay == [to |-> 0, until |-> 0]
NoCode == [client |-> "none", resource |-> "none", expires |-> 0]
Idle == [pc |-> "idle", token |-> 0, grant |-> 0, code |-> NoCode, seen |-> NoGrant, client |-> "none"]

Live(g) == grants[g] # NoGrant
Min2(a, b) == IF a < b THEN a ELSE b

(* hist: for each pair the pair it replaced, its grant and the time it was *)
(* replaced; the pairs that were refused; per code the grants issued; per  *)
(* grant the last successful call; and whether a refresh inside the grace  *)
(* period was refused.                                                     *)
Init ==
  /\ now = 1 /\ next = 1
  /\ clients = [c \in Clients |-> "absent"]
  /\ codes = [c \in Codes |-> NoCode]
  /\ grants = [g \in Codes |-> NoGrant]
  /\ superseded = {}
  /\ tokens = [p \in Pairs |-> NoToken]
  /\ replays = [p \in Pairs |-> NoReplay]
  /\ mu = "free"
  /\ req = [r \in Requests |-> Idle]
  /\ hist = [parent |-> [p \in Pairs |-> 0], grant |-> [p \in Pairs |-> 0],
             replaced |-> [p \in Pairs |-> 0], refused |-> {}, issued |-> [c \in Codes |-> 0],
             used |-> [g \in Codes |-> 0], approved |-> {}, hurt |-> {}]

ClientNames == Clients \cup {"none"}
ResourceNames == Resources \cup {"none"}
Stages == {"idle", "register", "issue", "refresh", "replay", "rotate", "reject",
           "revoke", "touch", "audience"}
CodeRecords == [client : ClientNames, resource : ResourceNames, expires : Nat]
GrantRecords == [client : ClientNames, resource : ResourceNames, refresh : 0 .. MaxPairs,
                 previous : 0 .. MaxPairs, access : 0 .. MaxPairs, idle : Nat, absolute : Nat]
TokenRecords == [live : BOOLEAN, expires : Nat, resource : ResourceNames, used : Nat]
ReplayRecords == [to : 0 .. MaxPairs, until : Nat]
RequestRecords == [pc : Stages, token : 0 .. MaxPairs, grant : 0 .. NumCodes, code : CodeRecords,
                   seen : GrantRecords, client : ClientNames]
Histories == [parent : [Pairs -> 0 .. MaxPairs], grant : [Pairs -> 0 .. NumCodes],
              replaced : [Pairs -> Nat], refused : SUBSET Pairs, issued : [Codes -> Nat],
              used : [Codes -> Nat], approved : SUBSET Codes, hurt : SUBSET Codes]

TypeOK ==
  /\ now \in 1 .. MaxTime /\ next \in 1 .. MaxPairs + 1
  /\ clients \in [Clients -> {"absent", "new", "old"}]
  /\ codes \in [Codes -> CodeRecords]
  /\ grants \in [Codes -> GrantRecords]
  /\ superseded \subseteq Pairs \X Codes
  /\ tokens \in [Pairs -> TokenRecords]
  /\ replays \in [Pairs -> ReplayRecords]
  /\ mu \in Requests \cup {"free"}
  /\ req \in [Requests -> RequestRecords]
  /\ hist \in Histories

Done(r) == req' = [req EXCEPT ![r] = Idle]

(* The tick is one unit of the lifetimes; codes and clients age with it.   *)
Tick ==
  /\ now < MaxTime
  /\ now' = now + 1
  /\ \/ UNCHANGED clients
     \/ clients' = [c \in Clients |-> IF clients[c] = "new" THEN "old" ELSE clients[c]]
  /\ UNCHANGED <<next, codes, grants, superseded, tokens, replays, mu, req, hist>>

(* The manager restarts: what is in memory is gone.                        *)
Restart ==
  /\ \E r \in Requests : req[r] # Idle
  /\ codes' = [c \in Codes |-> NoCode]
  /\ replays' = [p \in Pairs |-> NoReplay]
  /\ mu' = "free"
  /\ req' = [r \in Requests |-> Idle]
  /\ UNCHANGED <<now, next, clients, grants, superseded, tokens, hist>>

-----------------------------------------------------------------------------
(* RegisterClient: unused old clients are pruned and the rest counted, then *)
(* the client is inserted.                                                 *)
Registered == {c \in Clients : clients[c] # "absent"}
Unused(c) == clients[c] = "old" /\ \A g \in Codes : grants[g].client # c

Register(r, c) ==
  LET kept == {x \in Registered : ~Unused(x)}
  IN /\ req[r] = Idle /\ clients[c] = "absent"
     /\ clients' = [x \in Clients |-> IF x \in kept THEN clients[x] ELSE "absent"]
     /\ IF Cardinality(kept) >= MaxClients THEN UNCHANGED req
        ELSE req' = [req EXCEPT ![r] = [Idle EXCEPT !.pc = "register", !.client = c]]
     /\ UNCHANGED <<now, next, codes, grants, superseded, tokens, replays, mu, hist>>

InsertClient(r) ==
  /\ req[r].pc = "register"
  /\ clients' = [clients EXCEPT ![req[r].client] = "new"]
  /\ Done(r)
  /\ UNCHANGED <<now, next, codes, grants, superseded, tokens, replays, mu, hist>>

(* CompleteAuthorization: the owner approved a validated request.  Expired *)
(* codes are dropped and the rest bounded.                                 *)
Pending == {c \in Codes : codes[c] # NoCode /\ codes[c].expires > now}

(* ValidateAuthorization: the client is registered, the rest of the        *)
(* request is in order.                                                    *)
Valid(client) == clients[client] # "absent"

CompleteAuthorization(c, client, resource) ==
  /\ Valid(client)
  /\ hist.issued[c] = 0 /\ codes[c] = NoCode /\ c \notin hist.approved
  /\ Cardinality(Pending) < MaxPending
  /\ codes' = [x \in Codes |->
       IF x = c THEN [client |-> client, resource |-> resource, expires |-> now + CodeLifetime]
       ELSE IF x \in Pending THEN codes[x] ELSE NoCode]
  /\ hist' = [hist EXCEPT !.approved = @ \cup {c}]
  /\ UNCHANGED <<now, next, clients, grants, superseded, tokens, replays, mu, req>>

(* exchangeAuthorizationCode, first half: the code is taken whatever       *)
(* follows.  A request with another client, redirect URI, resource or      *)
(* verifier is refused after that.                                         *)
PeekCode(r, c) ==
  /\ req[r] = Idle /\ codes[c] # NoCode
  /\ req' = [req EXCEPT ![r] = [Idle EXCEPT !.pc = "issue", !.grant = c, !.code = codes[c]]]
  /\ UNCHANGED <<now, next, clients, codes, grants, superseded, tokens, replays, mu, hist>>

TakeCode(r, c) ==
  /\ req[r] = Idle /\ codes[c] # NoCode
  /\ codes' = [codes EXCEPT ![c] = NoCode]
  /\ \/ /\ codes[c].expires > now
        /\ req' = [req EXCEPT ![r] = [Idle EXCEPT !.pc = "issue", !.grant = c, !.code = codes[c]]]
     \/ UNCHANGED req
  /\ UNCHANGED <<now, next, clients, grants, superseded, tokens, replays, mu, hist>>

Token(resource, used) ==
  [live |-> TRUE, expires |-> now + AccessLifetime, resource |-> resource, used |-> used]

FirstGrant(code) ==
  [client |-> code.client, resource |-> code.resource, refresh |-> next, previous |-> 0,
   access |-> next, idle |-> Min2(now + IdleLifetime, now + AbsoluteLifetime),
   absolute |-> now + AbsoluteLifetime]

(* Second half: the first pair and the grant in one transaction.  Foreign  *)
(* keys refuse a client that was pruned meanwhile.                         *)
CreateGrant(r) ==
  LET c == req[r].grant
      code == req[r].code
  IN /\ req[r].pc = "issue" /\ next <= MaxPairs
     /\ Done(r)
     /\ IF clients[code.client] = "absent" THEN UNCHANGED <<next, grants, tokens, hist>>
        ELSE /\ next' = next + 1
             /\ grants' = [grants EXCEPT ![c] = FirstGrant(code)]
             /\ tokens' = [tokens EXCEPT ![next] = Token(code.resource, 0)]
             /\ hist' = [hist EXCEPT !.grant[next] = c, !.issued[c] = @ + 1, !.used[c] = 0]
     /\ UNCHANGED <<now, clients, codes, superseded, replays, mu>>

-----------------------------------------------------------------------------
(* refreshAccessToken.                                                     *)
ByRefresh(p) == {g \in Codes : p > 0 /\ p \in {grants[g].refresh, grants[g].previous}}
BySuperseded(p) == {s[2] : s \in {x \in superseded : x[1] = p}}

Found(p) == IF ByRefresh(p) # {} THEN ByRefresh(p) ELSE BySuperseded(p)

LockNothing(r, p) ==
  /\ req[r] = Idle /\ p < next /\ hist.grant[p] # 0
  /\ req' = [req EXCEPT ![r] = [Idle EXCEPT !.pc = "refresh", !.token = p]]
  /\ UNCHANGED <<now, next, clients, codes, grants, superseded, tokens, replays, mu, hist>>

LockRefresh(r, p) ==
  /\ req[r] = Idle /\ p < next /\ hist.grant[p] # 0
  /\ mu = "free"
  /\ mu' = r
  /\ req' = [req EXCEPT ![r] = [Idle EXCEPT !.pc = "refresh", !.token = p]]
  /\ UNCHANGED <<now, next, clients, codes, grants, superseded, tokens, replays, hist>>

Unlock(r) == mu' = "free" /\ Done(r)
Refuse(p) == hist' = [hist EXCEPT !.refused = @ \cup {p}]

(* What the grant that was read makes of the presented token.              *)
Expired(g) == now >= grants[g].absolute \/ now >= grants[g].idle
Replayable(p) == replays[p].to # 0 /\ now < replays[p].until

ReplayFirst(p, g) ==
  IF Replayable(p) THEN "replay"
  ELSE IF Expired(g) \/ p # grants[g].refresh THEN "reject"
  ELSE "rotate"

Verdict(p, g) ==
  IF Expired(g) \/ p \notin {grants[g].refresh, grants[g].previous} THEN "reject"
  ELSE IF p = grants[g].refresh THEN "rotate"
  ELSE IF Replayable(p) THEN "replay"
  ELSE "reject"

(* p was replaced by a rotation that has not been forgotten.               *)
InGrace(p) == hist.replaced[p] > 0 /\ now < hist.replaced[p] + Grace

(* The second alternative is a request of another client, or for another   *)
(* resource.                                                               *)
ReadGrant(r) ==
  LET p == req[r].token
  IN /\ req[r].pc = "refresh"
     /\ IF Found(p) = {} THEN Unlock(r) /\ Refuse(p)
        ELSE \/ Unlock(r) /\ UNCHANGED hist
             \/ \E g \in Found(p) :
                  /\ req' = [req EXCEPT ![r] = [@ EXCEPT !.pc = Verdict(p, g), !.grant = g, !.seen = grants[g]]]
                  /\ hist' = IF Verdict(p, g) = "reject" /\ InGrace(p) /\ now < grants[g].idle
                             THEN [hist EXCEPT !.hurt = @ \cup {g}] ELSE hist
                  /\ UNCHANGED mu
     /\ UNCHANGED <<now, next, clients, codes, grants, superseded, tokens, replays>>

(* The pair of the rotation is answered once more.                         *)
Replay(r) ==
  /\ req[r].pc = "replay"
  /\ Unlock(r)
  /\ UNCHANGED <<now, next, clients, codes, grants, superseded, tokens, replays, hist>>

(* rotateRefreshToken and RotateOAuthGrant.                                *)
Fresh == [p \in Pairs |-> IF replays[p].until > now THEN replays[p] ELSE NoReplay]

CarriedNot(p) == 0

Carried(p) == tokens[p].used

StillCurrent(r) == grants[req[r].grant].refresh = req[r].seen.refresh

RefreshKept(g) ==
  [grants[g] EXCEPT !.previous = next, !.access = next,
                    !.idle = Min2(now + IdleLifetime, grants[g].absolute)]

IdleUncapped(g) ==
  [grants[g] EXCEPT !.refresh = next, !.previous = grants[g].refresh, !.access = next,
                    !.idle = now + IdleLifetime]

Rotated(g) ==
  [grants[g] EXCEPT !.refresh = next, !.previous = grants[g].refresh, !.access = next,
                    !.idle = Min2(now + IdleLifetime, grants[g].absolute)]

Rotate(r) ==
  LET g == req[r].grant
      old == grants[g].refresh
      p == req[r].token
  IN /\ req[r].pc = "rotate"
     /\ Unlock(r)
     /\ \/ /\ Cardinality({q \in Pairs : Fresh[q] # NoReplay}) >= MaxReplays \/ next > MaxPairs
           /\ replays' = Fresh
           /\ UNCHANGED <<next, grants, superseded, tokens, hist>>
        \/ /\ Cardinality({q \in Pairs : Fresh[q] # NoReplay}) < MaxReplays /\ next <= MaxPairs
           /\ IF ~StillCurrent(r)
                THEN /\ Refuse(p)
                     /\ replays' = Fresh
                     /\ UNCHANGED <<next, grants, superseded, tokens>>
                ELSE /\ next' = next + 1
                     /\ grants' = [grants EXCEPT ![g] = Rotated(g)]
                     /\ superseded' = superseded \cup {<<old, g>>}
                     /\ tokens' = [tokens EXCEPT
                          ![grants[g].access] = NoToken,
                          ![next] = Token(grants[g].resource, Carried(grants[g].access))]
                     /\ replays' = [Fresh EXCEPT ![p] = [to |-> next, until |-> now + Grace]]
                     /\ hist' = [hist EXCEPT !.parent[next] = p, !.grant[next] = g, !.replaced[p] = now]
     /\ UNCHANGED <<now, clients, codes>>

(* RevokeOAuthGrant: the grant and its current access token in one         *)
(* transaction; superseded rows go with the grant.                         *)
Ended(g) ==
  /\ grants' = [grants EXCEPT ![g] = NoGrant]
  /\ superseded' = {s \in superseded : s[2] # g}
  /\ tokens' = IF Live(g) THEN [tokens EXCEPT ![grants[g].access] = NoToken] ELSE tokens

EndedBySeen(g, seen) ==
  /\ grants' = [grants EXCEPT ![g] = NoGrant]
  /\ superseded' = {s \in superseded : s[2] # g}
  /\ tokens' = [tokens EXCEPT ![seen.access] = NoToken]

RevokeGrant(g, seen) == Ended(g)

RejectGrant(r) ==
  /\ req[r].pc = "reject"
  /\ RevokeGrant(req[r].grant, req[r].seen)
  /\ Unlock(r)
  /\ Refuse(req[r].token)
  /\ UNCHANGED <<now, next, clients, codes, replays>>

-----------------------------------------------------------------------------
(* RevokeToken takes no lock: it finds the grant of a refresh or access    *)
(* token and revokes it in a later step.                                   *)
ByAccess(p) == {g \in Codes : Live(g) /\ grants[g].access = p}

RevokeToken(r, p) ==
  /\ req[r] = Idle /\ p < next
  /\ \E g \in (IF Found(p) # {} THEN Found(p) ELSE ByAccess(p)) :
       req' = [req EXCEPT ![r] = [Idle EXCEPT !.pc = "revoke", !.token = p, !.grant = g, !.seen = grants[g]]]
  /\ UNCHANGED <<now, next, clients, codes, grants, superseded, tokens, replays, mu, hist>>

FinishRevoke(r) ==
  /\ req[r].pc = "revoke"
  /\ RevokeGrant(req[r].grant, req[r].seen)
  /\ Done(r)
  /\ UNCHANGED <<now, next, clients, codes, replays, mu, hist>>

(* RevokeConnection, from the settings page, under refreshMu.              *)
RevokeConnection(g) ==
  /\ Live(g) /\ mu = "free"
  /\ RevokeGrant(g, grants[g])
  /\ UNCHANGED <<now, next, clients, codes, replays, mu, req, hist>>

(* DeleteAPIToken of an access token, and the deletion of the application  *)
(* it is for, cascade to the grant.                                        *)
DeleteAPIToken(p) ==
  /\ tokens[p].live
  /\ tokens' = [tokens EXCEPT ![p] = NoToken]
  /\ grants' = [g \in Codes |-> IF grants[g].access = p THEN NoGrant ELSE grants[g]]
  /\ superseded' = {s \in superseded : grants[s[2]].access # p}
  /\ UNCHANGED <<now, next, clients, codes, replays, mu, req, hist>>

(* An operator issues a token of his own.                                  *)
CreateAPIToken(resource) ==
  /\ next <= MaxPairs
  /\ next' = next + 1
  /\ tokens' = [tokens EXCEPT ![next] = Token(resource, 0)]
  /\ UNCHANGED <<now, clients, codes, grants, superseded, replays, mu, req, hist>>

-----------------------------------------------------------------------------
(* A call of the MCP endpoint: Authenticate reads the token, then records  *)
(* its use, then the resource of its grant is compared.                    *)
Authenticate(r, p) ==
  /\ req[r] = Idle /\ tokens[p].live /\ now < tokens[p].expires
  /\ req' = [req EXCEPT ![r] = [Idle EXCEPT !.pc = "touch", !.token = p]]
  /\ UNCHANGED <<now, next, clients, codes, grants, superseded, tokens, replays, mu, hist>>

Touch(r) ==
  LET p == req[r].token
  IN /\ req[r].pc = "touch"
     /\ IF ~tokens[p].live THEN Done(r) /\ UNCHANGED <<tokens, hist>>
        ELSE /\ tokens' = [tokens EXCEPT ![p].used = now]
             /\ hist' = IF hist.grant[p] = 0 THEN hist ELSE [hist EXCEPT !.used[hist.grant[p]] = now]
             /\ req' = [req EXCEPT ![r] = [@ EXCEPT !.pc = "audience"]]
     /\ UNCHANGED <<now, next, clients, codes, grants, superseded, replays, mu>>

CheckAudience(r) ==
  /\ req[r].pc = "audience"
  /\ Done(r)
  /\ UNCHANGED <<now, next, clients, codes, grants, superseded, tokens, replays, mu, hist>>

(* A statement of the database fails: nothing is written.                  *)
DatabaseFails(r) ==
  /\ req[r].pc \in {"register", "issue", "refresh", "rotate", "reject", "revoke", "touch", "audience"}
  /\ mu' = IF mu = r THEN "free" ELSE mu
  /\ Done(r)
  /\ UNCHANGED <<now, next, clients, codes, grants, superseded, tokens, replays, hist>>

(* What each endpoint starts; the steps above carry it on.                 *)
OAuthRegister(r) == \E c \in Clients : Register(r, c)

OAuthAuthorizeDecision ==
  \E c \in Codes, client \in Clients, s \in Resources : CompleteAuthorization(c, client, s)

OAuthToken(r) ==
  \/ \E c \in Codes : TakeCode(r, c)
  \/ \E p \in Pairs : LockRefresh(r, p)

OAuthRevoke(r) == \E p \in Pairs : RevokeToken(r, p)

MCPCall(r) == \E p \in Pairs : Authenticate(r, p)

RevokeMCPConnection == \E g \in Codes : RevokeConnection(g)

RevokeAPIToken == \E p \in Pairs : DeleteAPIToken(p)

IssueAPIToken == \E s \in Resources : CreateAPIToken(s)

Next ==
  \/ Tick \/ Restart
  \/ OAuthAuthorizeDecision
  \/ RevokeMCPConnection \/ RevokeAPIToken \/ IssueAPIToken
  \/ \E r \in Requests :
       \/ OAuthRegister(r) \/ InsertClient(r)
       \/ OAuthToken(r) \/ CreateGrant(r)
       \/ ReadGrant(r) \/ Replay(r) \/ Rotate(r) \/ RejectGrant(r)
       \/ OAuthRevoke(r) \/ FinishRevoke(r)
       \/ MCPCall(r) \/ Touch(r) \/ CheckAudience(r)
       \/ DatabaseFails(r)

Spec == Init /\ [][Next]_vars

-----------------------------------------------------------------------------
(* The access token of every grant exists, and an access token that was    *)
(* issued to a client exists only as long as its grant has it: no rotation *)
(* or revocation, in whatever order, leaves a token that nobody can        *)
(* revoke (store/oauth.go, RotateOAuthGrant and RevokeOAuthGrant).         *)
TokensHaveGrants ==
  /\ \A g \in Codes : Live(g) => tokens[grants[g].access].live
  /\ \A p \in Pairs : (tokens[p].live /\ hist.grant[p] # 0) => grants[hist.grant[p]].access = p

(* Parallel refreshes with one token rotate it once (refreshMu and the     *)
(* expected hash).                                                         *)
RotatesOnce ==
  \A p, q \in Pairs : (hist.parent[p] # 0 /\ hist.parent[p] = hist.parent[q]) => p = q

(* Once a refresh token of a grant has been refused, the grant is over:    *)
(* no other copy of any of its tokens still works.                         *)
RefusalEndsGrant == \A p \in hist.refused : ~Live(hist.grant[p])

(* A replayed pair is the grant's current one, unless the grant was        *)
(* revoked meanwhile.                                                      *)
ReplaysCurrent ==
  \A r \in Requests :
    (req[r].pc = "replay" /\ Live(req[r].grant)) =>
      replays[req[r].token].to = grants[req[r].grant].refresh

(* An approval is exchanged for one grant at most, however many requests   *)
(* present its code.                                                       *)
CodeIssuesOnce == \A c \in Codes : hist.issued[c] <= 1

(* The last successful call is known for every connection, across          *)
(* refreshes.                                                              *)
LastUseKept == \A g \in Codes : Live(g) => tokens[grants[g].access].used = hist.used[g]

(* Unauthenticated registration stays below its limit.                     *)
(* The code does not keep this: README, "Disagreements".                   *)
ClientsCapped == Cardinality(Registered) <= MaxClients

(* A refresh inside the grace period of the rotation that replaced its     *)
(* token does not cost the grant.                                          *)
(* The code does not keep this: README, "Disagreements".                   *)
GraceKeepsGrant == hist.hurt = {}

(* Together: grants, tokens and codes keep their promises to concurrent    *)
(* clients, retries, revocations, failures and restarts (README, OAuth).   *)
GrantsSound ==
  /\ TypeOK /\ TokensHaveGrants /\ RotatesOnce /\ RefusalEndsGrant
  /\ ReplaysCurrent /\ CodeIssuesOnce /\ LastUseKept

-----------------------------------------------------------------------------
(* The inductive invariant.  A grant has its current token, and its        *)
(* previous one is another of its own.                                     *)
GrantKnown(g) ==
  Live(g) =>
    /\ grants[g].refresh \in 1 .. next - 1
    /\ grants[g].access = grants[g].refresh
    /\ hist.grant[grants[g].refresh] = g
    /\ tokens[grants[g].refresh].live
    /\ tokens[grants[g].refresh].used = hist.used[g]
    /\ grants[g].previous # grants[g].refresh
    /\ grants[g].previous = 0 \/ hist.grant[grants[g].previous] = g

(* Of a grant's tokens all but the current one are superseded; only the    *)
(* current one is live; and a token that was rotated is not current again. *)
PairKnown(p) ==
  /\ p >= next => hist.grant[p] = 0 /\ hist.parent[p] = 0 /\ ~tokens[p].live
  /\ hist.grant[p] # 0 =>
       /\ hist.issued[hist.grant[p]] = 1
       /\ Live(hist.grant[p]) =>
            p = grants[hist.grant[p]].refresh \/ <<p, hist.grant[p]>> \in superseded
       /\ tokens[p].live => grants[hist.grant[p]].access = p
  /\ hist.parent[p] < next
  /\ hist.parent[p] # 0 => \A g \in Codes : grants[g].refresh # hist.parent[p]

SupersededKnown == \A p \in Pairs, g \in Codes : <<p, g>> \in superseded => hist.grant[p] = g

(* What a replay would answer is the present pair of a grant whose         *)
(* previous token asks for it.                                             *)
ReplayKnown(p) ==
  (replays[p].to # 0 /\ hist.grant[p] # 0 /\ grants[hist.grant[p]].previous = p) =>
    replays[p].to = grants[hist.grant[p]].refresh

RefusedKnown(p) == p \in hist.refused => hist.grant[p] # 0 /\ ~Live(hist.grant[p])

(* A code is pending, taken by one request, or was exchanged: one of these. *)
CodeKnown(c) ==
  /\ hist.issued[c] <= 1
  /\ c \notin hist.approved => codes[c] = NoCode /\ hist.issued[c] = 0
  /\ codes[c] # NoCode => hist.issued[c] = 0

IssueKnown(r) ==
  req[r].pc = "issue" =>
    LET c == req[r].grant
    IN /\ c \in hist.approved /\ codes[c] = NoCode /\ hist.issued[c] = 0
       /\ \A q \in Requests : (req[q].pc = "issue" /\ req[q].grant = c) => q = r

(* What a refresh knows: the token is the grant's, and under refreshMu a   *)
(* grant may end but not rotate between its reading and its writing.       *)
Refreshing(r) == req[r].pc \in {"refresh", "replay", "rotate", "reject"}

RefreshKnown(r) ==
  /\ Refreshing(r) <=> mu = r
  /\ Refreshing(r) => req[r].token \in 1 .. next - 1 /\ hist.grant[req[r].token] # 0
  /\ req[r].pc \in {"replay", "rotate", "reject"} => req[r].grant = hist.grant[req[r].token]
  /\ req[r].pc = "rotate" =>
       /\ req[r].seen.refresh = req[r].token
       /\ Live(req[r].grant) => grants[req[r].grant].refresh = req[r].token
  /\ (req[r].pc = "replay" /\ Live(req[r].grant)) =>
       replays[req[r].token].to = grants[req[r].grant].refresh

(* The rest read what they write to.                                       *)
OthersKnown(r) ==
  /\ req[r].pc = "revoke" => req[r].grant \in Codes
  /\ req[r].pc = "touch" => req[r].token \in 1 .. next - 1

BooksKnown ==
  /\ \A g \in Codes : GrantKnown(g)
  /\ \A p \in Pairs : PairKnown(p) /\ ReplayKnown(p) /\ RefusedKnown(p)
  /\ SupersededKnown
  /\ RotatesOnce

CodesKnown ==
  /\ \A c \in Codes : CodeKnown(c)
  /\ \A r \in Requests : IssueKnown(r)

RequestsKnown == \A r \in Requests : RefreshKnown(r) /\ OthersKnown(r)

IInv == TypeOK /\ BooksKnown /\ CodesKnown /\ RequestsKnown
=============================================================================
