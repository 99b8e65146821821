----------------------------- MODULE OAuth_proofs -----------------------------
(***************************************************************************)
(* Proofs about OAuth, for any clients, requests, resources, lifetimes and *)
(* bounds, and every operation in every order: the invariant IInv of OAuth *)
(* is inductive, and GrantsSound follows from it.                          *)
(*                                                                         *)
(* A step changes the rows (grants, tokens, superseded, replays, history)  *)
(* in one of four ways: it ends grants, creates one, rotates one, or       *)
(* records a use.  Each has a lemma about BooksKnown.                      *)
(***************************************************************************)
EXTENDS OAuth, TLAPS

---------------------------------------------------------------------------
(* Records of the model and their fields.                                  *)

LEMMA EmptyRecords ==
  /\ NoGrant \in GrantRecords /\ NoGrant.refresh = 0 /\ NoGrant.previous = 0 /\ NoGrant.access = 0
  /\ NoToken \in TokenRecords /\ NoToken.live = FALSE
  /\ NoCode \in CodeRecords /\ NoReplay \in ReplayRecords /\ NoReplay.to = 0
<1>1. NoGrant \in GrantRecords /\ NoGrant.refresh = 0 /\ NoGrant.previous = 0 /\ NoGrant.access = 0
  BY ConstantsOK DEF NoGrant, GrantRecords, ClientNames, ResourceNames
<1>2. NoToken \in TokenRecords /\ NoToken.live = FALSE
  BY DEF NoToken, TokenRecords, ResourceNames
<1>3. NoCode \in CodeRecords
  BY DEF NoCode, CodeRecords, ClientNames, ResourceNames
<1>4. NoReplay \in ReplayRecords /\ NoReplay.to = 0
  BY ConstantsOK DEF NoReplay, ReplayRecords
<1> QED
  BY <1>1, <1>2, <1>3, <1>4

LEMMA IdleRecord ==
  /\ Idle \in RequestRecords /\ Idle.pc = "idle"
<1>1. "none" \in ClientNames /\ "idle" \in Stages
  BY DEF ClientNames, Stages
<1> QED
  BY <1>1, EmptyRecords, ConstantsOK DEF Idle, RequestRecords

(* A request that begins has the fields it was given.                      *)
LEMMA BegunForClient ==
  ASSUME NEW stage \in Stages, NEW client \in ClientNames
  PROVE  /\ [Idle EXCEPT !.pc = stage, !.client = client] \in RequestRecords
         /\ [Idle EXCEPT !.pc = stage, !.client = client].pc = stage
BY IdleRecord DEF RequestRecords

LEMMA BegunForCode ==
  ASSUME NEW stage \in Stages, NEW g \in 0 .. NumCodes, NEW code \in CodeRecords
  PROVE  /\ [Idle EXCEPT !.pc = stage, !.grant = g, !.code = code] \in RequestRecords
         /\ [Idle EXCEPT !.pc = stage, !.grant = g, !.code = code].pc = stage
         /\ [Idle EXCEPT !.pc = stage, !.grant = g, !.code = code].grant = g
BY IdleRecord DEF RequestRecords

LEMMA BegunForToken ==
  ASSUME NEW stage \in Stages, NEW p \in 0 .. MaxPairs
  PROVE  /\ [Idle EXCEPT !.pc = stage, !.token = p] \in RequestRecords
         /\ [Idle EXCEPT !.pc = stage, !.token = p].pc = stage
         /\ [Idle EXCEPT !.pc = stage, !.token = p].token = p
BY IdleRecord DEF RequestRecords

LEMMA BegunForGrant ==
  ASSUME NEW stage \in Stages, NEW p \in 0 .. MaxPairs, NEW g \in 0 .. NumCodes,
         NEW seen \in GrantRecords
  PROVE  /\ [Idle EXCEPT !.pc = stage, !.token = p, !.grant = g, !.seen = seen] \in RequestRecords
         /\ [Idle EXCEPT !.pc = stage, !.token = p, !.grant = g, !.seen = seen].pc = stage
         /\ [Idle EXCEPT !.pc = stage, !.token = p, !.grant = g, !.seen = seen].grant = g
BY IdleRecord DEF RequestRecords

(* A request that goes on keeps its token.                                 *)
LEMMA WentOn ==
  ASSUME NEW x \in RequestRecords, NEW stage \in Stages, NEW g \in 0 .. NumCodes,
         NEW seen \in GrantRecords
  PROVE  /\ [x EXCEPT !.pc = stage, !.grant = g, !.seen = seen] \in RequestRecords
         /\ [x EXCEPT !.pc = stage, !.grant = g, !.seen = seen].pc = stage
         /\ [x EXCEPT !.pc = stage, !.grant = g, !.seen = seen].grant = g
         /\ [x EXCEPT !.pc = stage, !.grant = g, !.seen = seen].seen = seen
         /\ [x EXCEPT !.pc = stage, !.grant = g, !.seen = seen].token = x.token
         /\ [x EXCEPT !.pc = stage] \in RequestRecords
         /\ [x EXCEPT !.pc = stage].pc = stage
         /\ [x EXCEPT !.pc = stage].token = x.token
BY DEF RequestRecords

LEMMA TokenRecord ==
  ASSUME now \in Nat, NEW resource \in ResourceNames, NEW used \in Nat
  PROVE  /\ Token(resource, used) \in TokenRecords
         /\ Token(resource, used).live = TRUE /\ Token(resource, used).used = used
BY ConstantsOK DEF Token, TokenRecords

LEMMA MinNat == ASSUME NEW a \in Nat, NEW b \in Nat PROVE Min2(a, b) \in Nat
BY DEF Min2

LEMMA FirstGrantRecord ==
  ASSUME now \in Nat, next \in 1 .. MaxPairs, NEW code \in CodeRecords
  PROVE  /\ FirstGrant(code) \in GrantRecords
         /\ FirstGrant(code).refresh = next /\ FirstGrant(code).access = next
         /\ FirstGrant(code).previous = 0
<1>0. now + IdleLifetime \in Nat /\ now + AbsoluteLifetime \in Nat
  BY ConstantsOK
<1>1. Min2(now + IdleLifetime, now + AbsoluteLifetime) \in Nat
  BY <1>0, MinNat
<1>2. code.client \in ClientNames /\ code.resource \in ResourceNames
  BY DEF CodeRecords
<1>3. next \in 0 .. MaxPairs /\ 0 \in 0 .. MaxPairs
  BY ConstantsOK
<1> QED
  BY <1>0, <1>1, <1>2, <1>3 DEF FirstGrant, GrantRecords

LEMMA RotatedRecord ==
  ASSUME now \in Nat, next \in 1 .. MaxPairs, NEW g, grants[g] \in GrantRecords
  PROVE  /\ Rotated(g) \in GrantRecords
         /\ Rotated(g).refresh = next /\ Rotated(g).access = next
         /\ Rotated(g).previous = grants[g].refresh
<1> DEFINE x == grants[g]
<1>1. x.absolute \in Nat /\ x.refresh \in 0 .. MaxPairs
  BY DEF GrantRecords
<1>0. now + IdleLifetime \in Nat
  BY ConstantsOK
<1>2. Min2(now + IdleLifetime, x.absolute) \in Nat
  BY <1>0, <1>1, MinNat
<1>3. next \in 0 .. MaxPairs
  BY ConstantsOK
<1> QED
  BY <1>1, <1>2, <1>3 DEF Rotated, GrantRecords


(* The history, field by field.                                            *)
LEMMA HistoryFields ==
  ASSUME hist \in Histories
  PROVE  /\ hist.parent \in [Pairs -> 0 .. MaxPairs] /\ hist.grant \in [Pairs -> 0 .. NumCodes]
         /\ hist.replaced \in [Pairs -> Nat] /\ hist.refused \subseteq Pairs
         /\ hist.issued \in [Codes -> Nat] /\ hist.used \in [Codes -> Nat]
         /\ hist.approved \subseteq Codes /\ hist.hurt \subseteq Codes
BY DEF Histories

(* h differs from hist in what is named.                                   *)
SameBut(h, parent, grant, refused, issued, used, approved) ==
  /\ h \in Histories
  /\ h.parent = parent /\ h.grant = grant /\ h.refused = refused
  /\ h.issued = issued /\ h.used = used /\ h.approved = approved

LEMMA Refused ==
  ASSUME hist \in Histories, NEW p \in Pairs, Refuse(p)
  PROVE  SameBut(hist', hist.parent, hist.grant, hist.refused \cup {p}, hist.issued, hist.used, hist.approved)
BY HistoryFields DEF Refuse, SameBut, Histories

LEMMA Hurt ==
  ASSUME hist \in Histories, NEW g \in Codes, hist' = [hist EXCEPT !.hurt = @ \cup {g}]
  PROVE  SameBut(hist', hist.parent, hist.grant, hist.refused, hist.issued, hist.used, hist.approved)
BY HistoryFields DEF SameBut, Histories

LEMMA Approved ==
  ASSUME hist \in Histories, NEW c \in Codes, hist' = [hist EXCEPT !.approved = @ \cup {c}]
  PROVE  SameBut(hist', hist.parent, hist.grant, hist.refused, hist.issued, hist.used, hist.approved \cup {c})
BY HistoryFields DEF SameBut, Histories

LEMMA Used ==
  ASSUME hist \in Histories, NEW g \in Codes, NEW t \in Nat, hist' = [hist EXCEPT !.used[g] = t]
  PROVE  SameBut(hist', hist.parent, hist.grant, hist.refused, hist.issued,
                 [hist.used EXCEPT ![g] = t], hist.approved)
BY HistoryFields DEF SameBut, Histories

LEMMA Issued ==
  ASSUME hist \in Histories, NEW p \in Pairs, NEW c \in Codes,
         hist' = [hist EXCEPT !.grant[p] = c, !.issued[c] = @ + 1, !.used[c] = 0]
  PROVE  SameBut(hist', hist.parent, [hist.grant EXCEPT ![p] = c], hist.refused,
                 [hist.issued EXCEPT ![c] = hist.issued[c] + 1], [hist.used EXCEPT ![c] = 0], hist.approved)
<1> DEFINE grant == [hist.grant EXCEPT ![p] = c]
           issued == [hist.issued EXCEPT ![c] = hist.issued[c] + 1]
           used == [hist.used EXCEPT ![c] = 0]
<1>0. c \in 0 .. NumCodes
  BY ConstantsOK DEF Codes
<1>1. grant \in [Pairs -> 0 .. NumCodes]
  BY <1>0, HistoryFields
<1>2. issued \in [Codes -> Nat] /\ used \in [Codes -> Nat]
  BY HistoryFields
<1>3. hist' = [hist EXCEPT !.grant = grant, !.issued = issued, !.used = used]
  BY HistoryFields DEF Histories
<1> HIDE DEF grant, issued, used
<1>4. SameBut(hist', hist.parent, grant, hist.refused, issued, used, hist.approved)
  BY <1>1, <1>2, <1>3, HistoryFields DEF SameBut, Histories
<1> QED
  BY <1>4 DEF grant, issued, used

LEMMA Replaced ==
  ASSUME hist \in Histories, NEW p \in Pairs, NEW q \in Pairs, NEW g \in Codes, now \in Nat,
         hist' = [hist EXCEPT !.parent[p] = q, !.grant[p] = g, !.replaced[q] = now]
  PROVE  SameBut(hist', [hist.parent EXCEPT ![p] = q], [hist.grant EXCEPT ![p] = g], hist.refused,
                 hist.issued, hist.used, hist.approved)
<1> DEFINE parent == [hist.parent EXCEPT ![p] = q]
           grant == [hist.grant EXCEPT ![p] = g]
           replaced == [hist.replaced EXCEPT ![q] = now]
<1>0. g \in 0 .. NumCodes /\ q \in 0 .. MaxPairs
  BY ConstantsOK DEF Codes, Pairs
<1>1. grant \in [Pairs -> 0 .. NumCodes]
  BY <1>0, HistoryFields
<1>2. parent \in [Pairs -> 0 .. MaxPairs] /\ replaced \in [Pairs -> Nat]
  BY <1>0, HistoryFields
<1>3. hist' = [hist EXCEPT !.parent = parent, !.grant = grant, !.replaced = replaced]
  BY HistoryFields DEF Histories
<1> HIDE DEF parent, grant, replaced
<1>4. SameBut(hist', parent, grant, hist.refused, hist.issued, hist.used, hist.approved)
  BY <1>1, <1>2, <1>3, HistoryFields DEF SameBut, Histories
<1> QED
  BY <1>4 DEF parent, grant, replaced

---------------------------------------------------------------------------
(* The effects of a step on the rows.                                      *)

(* Grants end, with their superseded rows and their live tokens; a token   *)
(* that is refused is of a grant that is over.                             *)
EndsGrants ==
  /\ next' = next
  /\ \A g \in Codes : grants'[g] = grants[g] \/ grants'[g] = NoGrant
  /\ \A p \in Pairs, g \in Codes :
       /\ <<p, g>> \in superseded' => <<p, g>> \in superseded
       /\ <<p, g>> \in superseded => <<p, g>> \in superseded' \/ grants'[g] = NoGrant
  /\ \A p \in Pairs : tokens'[p] = tokens[p] \/ tokens'[p].live = FALSE
  /\ \A g \in Codes : grants'[g] # NoGrant => tokens'[grants[g].refresh] = tokens[grants[g].refresh]
  /\ \A p \in Pairs : (tokens'[p].live /\ hist.grant[p] # 0) => grants'[hist.grant[p]] = grants[hist.grant[p]]
  /\ \A p \in Pairs : replays'[p] = replays[p] \/ replays'[p].to = 0
  /\ hist'.parent = hist.parent /\ hist'.grant = hist.grant
  /\ hist'.issued = hist.issued /\ hist'.used = hist.used
  /\ \A p \in hist'.refused :
       p \in hist.refused \/ (hist.grant[p] # 0 /\ grants'[hist.grant[p]] = NoGrant)

CreatesGrant(c) ==
  /\ hist.issued[c] = 0 /\ next \in Pairs /\ next' = next + 1
  /\ \E x \in GrantRecords : /\ x.refresh = next /\ x.access = next /\ x.previous = 0
                             /\ grants' = [grants EXCEPT ![c] = x]
  /\ \E t \in TokenRecords : /\ t.live = TRUE /\ t.used = 0
                             /\ tokens' = [tokens EXCEPT ![next] = t]
  /\ superseded' = superseded /\ replays' = replays
  /\ SameBut(hist', hist.parent, [hist.grant EXCEPT ![next] = c], hist.refused,
             [hist.issued EXCEPT ![c] = hist.issued[c] + 1], [hist.used EXCEPT ![c] = 0], hist.approved)

RotatesGrant(g, p) ==
  /\ Live(g) /\ grants[g].refresh = p /\ next \in Pairs /\ next' = next + 1
  /\ \E x \in GrantRecords : /\ x.refresh = next /\ x.access = next /\ x.previous = p
                             /\ grants' = [grants EXCEPT ![g] = x]
  /\ superseded' = superseded \cup {<<p, g>>}
  /\ \E t \in TokenRecords : /\ t.live = TRUE /\ t.used = tokens[p].used
                             /\ tokens' = [tokens EXCEPT ![p] = NoToken, ![next] = t]
  /\ replays'[p].to = next
  /\ \A q \in Pairs \ {p} : replays'[q] = replays[q] \/ replays'[q].to = 0
  /\ SameBut(hist', [hist.parent EXCEPT ![next] = p], [hist.grant EXCEPT ![next] = g], hist.refused,
             hist.issued, hist.used, hist.approved)

UsesToken(p) ==
  /\ tokens[p].live /\ UNCHANGED <<next, grants, superseded, replays>>
  /\ \E y \in TokenRecords : y.live = TRUE /\ y.used = now /\ tokens' = [tokens EXCEPT ![p] = y]
  /\ SameBut(hist', hist.parent, hist.grant, hist.refused, hist.issued,
             IF hist.grant[p] = 0 THEN hist.used ELSE [hist.used EXCEPT ![hist.grant[p]] = now],
             hist.approved)

(* What BooksKnown and the types say of one grant and of one pair.         *)
LEMMA GrantFacts ==
  ASSUME TypeOK, BooksKnown, NEW g \in Codes
  PROVE  /\ grants[g] \in GrantRecords /\ GrantKnown(g) /\ g # 0 /\ g \in 1 .. NumCodes
         /\ hist.used[g] \in Nat /\ hist.issued[g] \in Nat
         /\ grants[g].refresh \in 0 .. MaxPairs /\ grants[g].previous \in 0 .. MaxPairs
         /\ grants[g].refresh # 0 <=> Live(g)
<1>1. grants[g] \in GrantRecords /\ GrantKnown(g) /\ g # 0
  BY DEF TypeOK, BooksKnown, Codes
<1>2. hist.used[g] \in Nat /\ hist.issued[g] \in Nat
  BY HistoryFields DEF TypeOK
<1>3. grants[g].refresh \in 0 .. MaxPairs /\ grants[g].previous \in 0 .. MaxPairs
  BY <1>1 DEF GrantRecords
<1>4. grants[g].refresh # 0 <=> Live(g)
  BY <1>1, EmptyRecords DEF GrantKnown, Live
<1> QED
  BY <1>1, <1>2, <1>3, <1>4 DEF Codes

LEMMA PairFacts ==
  ASSUME TypeOK, BooksKnown, NEW p \in Pairs
  PROVE  /\ p \in Nat /\ p # 0 /\ p \in 1 .. MaxPairs /\ next \in 1 .. MaxPairs + 1
         /\ tokens[p] \in TokenRecords /\ PairKnown(p) /\ ReplayKnown(p) /\ RefusedKnown(p)
         /\ hist.parent[p] \in 0 .. MaxPairs /\ hist.grant[p] \in 0 .. NumCodes
         /\ hist.grant[p] # 0 => hist.grant[p] \in Codes
         /\ replays[p] \in ReplayRecords
<1>1. p \in Nat /\ p # 0 /\ p \in 1 .. MaxPairs /\ next \in 1 .. MaxPairs + 1
  BY ConstantsOK DEF TypeOK, Pairs
<1>2. tokens[p] \in TokenRecords /\ PairKnown(p) /\ ReplayKnown(p) /\ RefusedKnown(p)
  BY DEF TypeOK, BooksKnown
<1>3. hist.parent[p] \in 0 .. MaxPairs /\ hist.grant[p] \in 0 .. NumCodes
  BY HistoryFields DEF TypeOK
<1>4. hist.grant[p] # 0 => hist.grant[p] \in Codes
  BY <1>3, ConstantsOK DEF Codes
<1>5. replays[p] \in ReplayRecords
  BY DEF TypeOK
<1> QED
  BY <1>1, <1>2, <1>3, <1>4, <1>5

LEMMA EndingKeeps ==
  ASSUME TypeOK, BooksKnown, EndsGrants
  PROVE  BooksKnown'
<1>1. ASSUME NEW g \in Codes PROVE GrantKnown(g)'
  <2>1. CASE grants'[g] = NoGrant
    BY <2>1 DEF GrantKnown, Live
  <2>2. CASE grants'[g] # NoGrant
    <3>1. grants'[g] = grants[g] /\ Live(g) /\ tokens'[grants[g].refresh] = tokens[grants[g].refresh]
      BY <2>2 DEF EndsGrants, Live
    <3> QED
      BY <3>1, GrantFacts DEF GrantKnown, EndsGrants
  <2> QED
    BY <2>1, <2>2
<1>2. ASSUME NEW p \in Pairs PROVE PairKnown(p)'
  <2> DEFINE g == hist.grant[p]
  <2>0. hist'.grant = hist.grant /\ hist'.parent = hist.parent /\ hist'.issued = hist.issued /\ next' = next
    BY DEF EndsGrants
  <2>1. tokens'[p].live => tokens'[p] = tokens[p]
    BY DEF EndsGrants
  <2>2. g # 0 => g \in Codes
    BY PairFacts
  <2>3. g # 0 /\ Live(g)' => p = grants'[g].refresh \/ <<p, g>> \in superseded'
    BY <2>2, PairFacts DEF PairKnown, EndsGrants, Live
  <2>4. g # 0 /\ tokens'[p].live => grants'[g].access = p
    BY <2>1, <2>2, PairFacts DEF PairKnown, EndsGrants
  <2>5. ASSUME hist.parent[p] # 0, NEW h \in Codes PROVE grants'[h].refresh # hist.parent[p]
    BY <2>5, PairFacts, EmptyRecords DEF PairKnown, EndsGrants
  <2> HIDE DEF g
  <2> QED
    BY <2>0, <2>1, <2>3, <2>4, <2>5, PairFacts DEF PairKnown, g
<1>3. ASSUME NEW p \in Pairs PROVE ReplayKnown(p)'
  BY PairFacts, EmptyRecords DEF ReplayKnown, EndsGrants
<1>4. ASSUME NEW p \in Pairs PROVE RefusedKnown(p)'
  BY PairFacts, EmptyRecords DEF RefusedKnown, EndsGrants, Live
<1>5. SupersededKnown'
  BY DEF BooksKnown, SupersededKnown, EndsGrants
<1>6. RotatesOnce'
  BY DEF BooksKnown, RotatesOnce, EndsGrants
<1> QED
  BY <1>1, <1>2, <1>3, <1>4, <1>5, <1>6 DEF BooksKnown

(* The next pair is nobody's yet.                                          *)
LEMMA NextIsNew ==
  ASSUME TypeOK, BooksKnown, next \in Pairs
  PROVE  /\ hist.grant[next] = 0 /\ hist.parent[next] = 0
         /\ \A g \in Codes : grants[g].refresh # next /\ grants[g].previous # next
         /\ \A g \in Codes : <<next, g>> \notin superseded
         /\ next \notin hist.refused
         /\ \A p \in Pairs : hist.parent[p] # next
<1>0. PairKnown(next) /\ next \in Nat
  BY PairFacts
<1>1. hist.grant[next] = 0 /\ hist.parent[next] = 0
  BY <1>0 DEF PairKnown
<1>2. ASSUME NEW g \in Codes PROVE grants[g].refresh # next
  BY GrantFacts, PairFacts DEF GrantKnown
<1>3. ASSUME NEW g \in Codes PROVE grants[g].previous # next
  <2>1. CASE Live(g)
    BY <1>1, <2>1, GrantFacts, PairFacts DEF GrantKnown
  <2>2. CASE ~Live(g)
    BY <2>2, EmptyRecords, PairFacts DEF Live
  <2> QED
    BY <2>1, <2>2
<1>4. ASSUME NEW g \in Codes PROVE <<next, g>> \notin superseded
  BY <1>1, GrantFacts DEF BooksKnown, SupersededKnown
<1>5. next \notin hist.refused
  BY <1>1, PairFacts DEF RefusedKnown
<1>6. ASSUME NEW p \in Pairs PROVE hist.parent[p] # next
  <2>1. PairKnown(p) /\ hist.parent[p] \in Nat
    BY PairFacts
  <2> QED
    BY <1>0, <2>1 DEF PairKnown
<1> QED
  BY <1>1, <1>2, <1>3, <1>4, <1>5, <1>6

LEMMA CreatingKeeps ==
  ASSUME TypeOK, BooksKnown, NEW c \in Codes, CreatesGrant(c)
  PROVE  BooksKnown'
<1>0. next \in Pairs /\ next' = next + 1 /\ next \in Nat /\ next # 0
  BY PairFacts DEF CreatesGrant
<1>1. PICK x \in GrantRecords : /\ x.refresh = next /\ x.access = next /\ x.previous = 0
                                /\ grants' = [grants EXCEPT ![c] = x]
  BY DEF CreatesGrant
<1>2. PICK t \in TokenRecords : /\ t.live = TRUE /\ t.used = 0
                                /\ tokens' = [tokens EXCEPT ![next] = t]
  BY DEF CreatesGrant
<1>3. superseded' = superseded /\ replays' = replays /\ hist.issued[c] = 0
  BY DEF CreatesGrant
<1>4. /\ hist'.parent = hist.parent /\ hist'.grant = [hist.grant EXCEPT ![next] = c]
      /\ hist'.refused = hist.refused /\ hist'.used = [hist.used EXCEPT ![c] = 0]
      /\ hist'.issued = [hist.issued EXCEPT ![c] = hist.issued[c] + 1]
  BY DEF CreatesGrant, SameBut
<1>5. grants'[c] = x /\ tokens'[next] = t /\ hist'.grant[next] = c /\ hist'.used[c] = 0
      /\ hist'.issued[c] = 1
  BY <1>0, <1>1, <1>2, <1>3, <1>4, HistoryFields DEF TypeOK
<1>6. ASSUME NEW g \in Codes, g # c
      PROVE  grants'[g] = grants[g] /\ hist'.used[g] = hist.used[g] /\ hist'.issued[g] = hist.issued[g]
  BY <1>1, <1>4, <1>6, HistoryFields DEF TypeOK
<1>7. ASSUME NEW p \in Pairs, p # next
      PROVE  /\ tokens'[p] = tokens[p] /\ hist'.grant[p] = hist.grant[p]
             /\ hist.grant[p] # c
  <2>1. PairKnown(p)
    BY PairFacts
  <2>2. hist.grant[p] = c => hist.issued[c] = 1
    BY <2>1, GrantFacts DEF PairKnown
  <2>3. tokens'[p] = tokens[p] /\ hist'.grant[p] = hist.grant[p]
    BY <1>2, <1>4, <1>7, HistoryFields DEF TypeOK
  <2> QED
    BY <2>2, <2>3, <1>3
<1>n. x # NoGrant
  BY <1>0, <1>1, EmptyRecords
<1>a. ASSUME NEW g \in Codes PROVE GrantKnown(g)'
  <2>1. CASE g = c
    BY <2>1, <1>0, <1>1, <1>2, <1>5 DEF GrantKnown
  <2>2. CASE g # c
    <3>1. CASE Live(g)
      <4>1. /\ grants[g].refresh \in Pairs /\ grants[g].refresh # next
            /\ grants[g].previous # 0 => grants[g].previous \in Pairs /\ grants[g].previous # next
        BY <1>0, <3>1, NextIsNew, GrantFacts DEF Pairs
      <4>2. /\ tokens'[grants[g].refresh] = tokens[grants[g].refresh]
            /\ hist'.grant[grants[g].refresh] = hist.grant[grants[g].refresh]
            /\ grants[g].previous # 0 => hist'.grant[grants[g].previous] = hist.grant[grants[g].previous]
        BY <4>1, <1>7
      <4>3. grants[g].refresh \in 1 .. next' - 1
        BY <3>1, <1>0, GrantFacts DEF GrantKnown
      <4> QED
        BY <2>2, <3>1, <4>2, <4>3, <1>6, GrantFacts DEF GrantKnown
    <3>2. CASE ~Live(g)
      BY <2>2, <3>2, <1>6 DEF GrantKnown, Live
    <3> QED
      BY <3>1, <3>2
  <2> QED
    BY <2>1, <2>2
<1>b. ASSUME NEW p \in Pairs PROVE PairKnown(p)'
  <2>0. ASSUME NEW h \in Codes, hist.parent[p] # 0 PROVE grants'[h].refresh # hist.parent[p]
    <3>1. CASE h = c
      BY <3>1, <1>0, <1>1, <1>5, PairFacts, NextIsNew
    <3>2. CASE h # c
      <4>1. PairKnown(p)
        BY PairFacts
      <4> QED
        BY <2>0, <3>2, <4>1, <1>6 DEF PairKnown
    <3> QED
      BY <3>1, <3>2
  <2>1. CASE p = next
    BY <2>1, <2>0, <1>0, <1>1, <1>4, <1>5, NextIsNew DEF PairKnown
  <2>2. CASE p # next
    <3>1. hist.grant[p] # 0 => hist.grant[p] \in Codes /\ hist.grant[p] # c
      BY <2>2, <1>7, PairFacts
    <3>2. hist.grant[p] # 0 => /\ grants'[hist.grant[p]] = grants[hist.grant[p]]
                               /\ hist'.issued[hist.grant[p]] = hist.issued[hist.grant[p]]
      BY <3>1, <1>6
    <3>3. tokens'[p] = tokens[p] /\ hist'.grant[p] = hist.grant[p] /\ hist'.parent[p] = hist.parent[p]
      BY <2>2, <1>4, <1>7
    <3>4. hist.parent[p] < next' /\ (p >= next' => p >= next)
      <4>1. PairKnown(p) /\ p \in Nat /\ hist.parent[p] \in Nat
        BY PairFacts
      <4> QED
        BY <1>0, <4>1 DEF PairKnown
    <3> QED
      BY <2>0, <3>2, <3>3, <3>4, <1>3, PairFacts DEF PairKnown, Live
  <2> QED
    BY <2>1, <2>2
<1>c. ASSUME NEW p \in Pairs PROVE ReplayKnown(p)'
  <2>1. CASE p = next
    BY <2>1, <1>0, <1>1, <1>5 DEF ReplayKnown
  <2>2. CASE p # next
    BY <2>2, <1>3, <1>6, <1>7, PairFacts DEF ReplayKnown
  <2> QED
    BY <2>1, <2>2
<1>d. ASSUME NEW p \in Pairs PROVE RefusedKnown(p)'
  <2>1. CASE p = next
    BY <2>1, <1>0, <1>4, NextIsNew DEF RefusedKnown
  <2>2. CASE p # next
    BY <2>2, <1>4, <1>6, <1>7, PairFacts DEF RefusedKnown, Live
  <2> QED
    BY <2>1, <2>2
<1>e. SupersededKnown'
  BY <1>0, <1>3, <1>7, NextIsNew DEF BooksKnown, SupersededKnown
<1>f. RotatesOnce'
  BY <1>4 DEF BooksKnown, RotatesOnce
<1> QED
  BY <1>a, <1>b, <1>c, <1>d, <1>e, <1>f DEF BooksKnown

LEMMA RotatingKeeps ==
  ASSUME TypeOK, BooksKnown, NEW g \in Codes, NEW p \in Pairs, RotatesGrant(g, p)
  PROVE  BooksKnown'
<1>0. next \in Pairs /\ next' = next + 1 /\ next \in Nat /\ next # 0
  BY PairFacts DEF RotatesGrant
<1>1. PICK x \in GrantRecords : /\ x.refresh = next /\ x.access = next /\ x.previous = p
                                /\ grants' = [grants EXCEPT ![g] = x]
  BY DEF RotatesGrant
<1>2. PICK t \in TokenRecords : /\ t.live = TRUE /\ t.used = tokens[p].used
                                /\ tokens' = [tokens EXCEPT ![p] = NoToken, ![next] = t]
  BY DEF RotatesGrant
<1>3. /\ superseded' = superseded \cup {<<p, g>>} /\ replays'[p].to = next
      /\ \A q \in Pairs \ {p} : replays'[q] = replays[q] \/ replays'[q].to = 0
      /\ Live(g) /\ grants[g].refresh = p
  BY DEF RotatesGrant
<1>4. /\ hist'.parent = [hist.parent EXCEPT ![next] = p] /\ hist'.grant = [hist.grant EXCEPT ![next] = g]
      /\ hist'.refused = hist.refused /\ hist'.used = hist.used /\ hist'.issued = hist.issued
  BY DEF RotatesGrant, SameBut
<1>p. /\ GrantKnown(g) /\ p < next /\ p # next /\ hist.grant[p] = g /\ g # 0
      /\ tokens[p].used = hist.used[g]
  BY <1>0, <1>3, GrantFacts, PairFacts DEF GrantKnown
<1>q. PairKnown(p) /\ hist.issued[g] = 1
  BY <1>p, PairFacts DEF PairKnown
<1>5. grants'[g] = x /\ tokens'[next] = t /\ hist'.grant[next] = g /\ hist'.parent[next] = p
      /\ tokens'[p] = NoToken /\ hist'.grant[p] = g
  BY <1>0, <1>p, <1>1, <1>2, <1>4, HistoryFields DEF TypeOK
<1>6. ASSUME NEW h \in Codes, h # g PROVE grants'[h] = grants[h]
  BY <1>1, <1>6 DEF TypeOK
<1>7. ASSUME NEW q \in Pairs, q # next
      PROVE  hist'.grant[q] = hist.grant[q] /\ hist'.parent[q] = hist.parent[q]
  BY <1>4, <1>7, HistoryFields DEF TypeOK
<1>8. ASSUME NEW q \in Pairs, q # next, q # p PROVE tokens'[q] = tokens[q]
  BY <1>2, <1>8 DEF TypeOK
<1>n. x # NoGrant
  BY <1>0, <1>1, EmptyRecords
<1>a. ASSUME NEW h \in Codes PROVE GrantKnown(h)'
  <2>1. CASE h = g
    BY <2>1, <1>0, <1>1, <1>2, <1>4, <1>5, <1>p DEF GrantKnown
  <2>2. CASE h # g
    <3>1. CASE Live(h)
      <4>0. GrantKnown(h) /\ hist.grant[grants[h].refresh] = h
        BY <3>1, GrantFacts DEF GrantKnown
      <4>1. /\ grants[h].refresh \in Pairs /\ grants[h].refresh # next /\ grants[h].refresh # p
            /\ grants[h].previous # 0 => grants[h].previous \in Pairs /\ grants[h].previous # next
        BY <1>0, <1>p, <2>2, <3>1, <4>0, NextIsNew, GrantFacts DEF Pairs
      <4>2. /\ tokens'[grants[h].refresh] = tokens[grants[h].refresh]
            /\ hist'.grant[grants[h].refresh] = hist.grant[grants[h].refresh]
            /\ grants[h].previous # 0 => hist'.grant[grants[h].previous] = hist.grant[grants[h].previous]
        BY <4>1, <1>7, <1>8
      <4>3. grants[h].refresh \in 1 .. next' - 1
        BY <3>1, <4>0, <1>0, GrantFacts DEF GrantKnown
      <4> QED
        BY <2>2, <3>1, <4>0, <4>2, <4>3, <1>4, <1>6 DEF GrantKnown
    <3>2. CASE ~Live(h)
      BY <2>2, <3>2, <1>6 DEF GrantKnown, Live
    <3> QED
      BY <3>1, <3>2
  <2> QED
    BY <2>1, <2>2
<1>b. ASSUME NEW q \in Pairs PROVE PairKnown(q)'
  <2>0. ASSUME NEW h \in Codes, hist'.parent[q] # 0 PROVE grants'[h].refresh # hist'.parent[q]
    <3>1. CASE q = next
      <4>1. CASE h = g
        BY <3>1, <4>1, <1>1, <1>5, <1>p
      <4>2. CASE h # g
        <5>1. grants[h].refresh # p
          BY <4>2, <1>0, <1>p, GrantFacts, PairFacts DEF GrantKnown
        <5> QED
          BY <3>1, <4>2, <5>1, <1>5, <1>6
      <4> QED
        BY <4>1, <4>2
    <3>2. CASE q # next
      <4>1. PairKnown(q) /\ hist'.parent[q] = hist.parent[q]
        BY <3>2, <1>7, PairFacts
      <4>2. CASE h = g
        BY <4>1, <4>2, <1>0, <1>1, <1>5, NextIsNew
      <4>3. CASE h # g
        BY <2>0, <4>1, <4>3, <1>6 DEF PairKnown
      <4> QED
        BY <4>2, <4>3
    <3> QED
      BY <3>1, <3>2
  <2>1. CASE q = next
    BY <2>0, <2>1, <1>0, <1>1, <1>4, <1>5, <1>p, <1>q DEF PairKnown
  <2>2. CASE q = p
    <3>1. hist'.grant[q] = g /\ tokens'[q].live = FALSE /\ <<q, g>> \in superseded'
      BY <2>2, <1>3, <1>5, EmptyRecords
    <3>2. hist'.parent[q] < next' /\ q < next'
      <4>1. hist'.parent[q] = hist.parent[q] /\ hist.parent[q] \in Nat /\ q \in Nat
        BY <2>2, <1>7, <1>p, PairFacts
      <4> QED
        BY <2>2, <4>1, <1>0, <1>p, <1>q DEF PairKnown
    <3>3. ~(q >= next')
      BY <3>2, <1>0, PairFacts
    <3> QED
      BY <2>0, <3>1, <3>2, <3>3, <1>4, <1>q DEF PairKnown
  <2>3. CASE q # next /\ q # p
    <3>0. PairKnown(q) /\ q \in Nat /\ hist.parent[q] \in Nat
      BY PairFacts
    <3>1. hist.grant[q] # 0 => hist.grant[q] \in Codes
      BY PairFacts
    <3>2. tokens'[q] = tokens[q] /\ hist'.grant[q] = hist.grant[q] /\ hist'.parent[q] = hist.parent[q]
      BY <2>3, <1>7, <1>8
    <3>3. hist.parent[q] < next' /\ (q >= next' => q >= next)
      BY <1>0, <3>0 DEF PairKnown
    <3>4. ASSUME hist.grant[q] # 0, Live(hist.grant[q])'
          PROVE  q = grants'[hist.grant[q]].refresh \/ <<q, hist.grant[q]>> \in superseded'
      <4>1. CASE hist.grant[q] = g
        BY <2>3, <3>0, <3>4, <4>1, <1>3 DEF PairKnown
      <4>2. CASE hist.grant[q] # g
        BY <3>0, <3>1, <3>2, <3>4, <4>2, <1>3, <1>6 DEF PairKnown, Live
      <4> QED
        BY <4>1, <4>2
    <3>5. ASSUME hist.grant[q] # 0, tokens[q].live
          PROVE  grants'[hist.grant[q]].access = q
      <4>1. hist.grant[q] # g
        <5>1. grants[g].access = p
          BY <1>p, <1>3 DEF GrantKnown
        <5>2. grants[hist.grant[q]].access = q
          BY <3>0, <3>5 DEF PairKnown
        <5> QED
          BY <2>3, <5>1, <5>2
      <4> QED
        BY <3>0, <3>1, <3>5, <4>1, <1>6 DEF PairKnown
    <3> QED
      BY <2>0, <3>0, <3>2, <3>3, <3>4, <3>5, <1>4 DEF PairKnown
  <2> QED
    BY <2>1, <2>2, <2>3
<1>c. ASSUME NEW q \in Pairs PROVE ReplayKnown(q)'
  <2>1. CASE q = p
    BY <2>1, <1>1, <1>3, <1>5 DEF ReplayKnown
  <2>2. CASE q = next
    BY <2>2, <1>1, <1>5, <1>p DEF ReplayKnown
  <2>3. CASE q # p /\ q # next
    <3>1. ReplayKnown(q) /\ (hist.grant[q] # 0 => hist.grant[q] \in Codes)
      BY PairFacts
    <3>2. hist'.grant[q] = hist.grant[q] /\ (replays'[q] = replays[q] \/ replays'[q].to = 0)
      BY <2>3, <1>3, <1>7
    <3> QED
      BY <2>3, <3>1, <3>2, <1>1, <1>5, <1>6 DEF ReplayKnown
  <2> QED
    BY <2>1, <2>2, <2>3
<1>d. ASSUME NEW q \in Pairs PROVE RefusedKnown(q)'
  <2>1. CASE q = next
    BY <2>1, <1>0, <1>4, NextIsNew DEF RefusedKnown
  <2>2. CASE q # next
    <3>1. RefusedKnown(q) /\ (hist.grant[q] # 0 => hist.grant[q] \in Codes)
      BY PairFacts
    <3> QED
      BY <2>2, <3>1, <1>3, <1>4, <1>6, <1>7 DEF RefusedKnown, Live
  <2> QED
    BY <2>1, <2>2
<1>e. SupersededKnown'
  BY <1>0, <1>3, <1>5, <1>7, NextIsNew DEF BooksKnown, SupersededKnown
<1>f. RotatesOnce'
  <2>1. ASSUME NEW q \in Pairs, hist.parent[q] = p PROVE FALSE
    <3>1. PairKnown(q)
      BY PairFacts
    <3> QED
      BY <2>1, <3>1, <1>3, PairFacts DEF PairKnown
  <2> QED
    BY <2>1, <1>0, <1>5, <1>7 DEF BooksKnown, RotatesOnce
<1> QED
  BY <1>a, <1>b, <1>c, <1>d, <1>e, <1>f DEF BooksKnown

LEMMA UsingKeeps ==
  ASSUME TypeOK, BooksKnown, NEW p \in Pairs, UsesToken(p)
  PROVE  BooksKnown'
<1>0. tokens[p].live /\ UNCHANGED <<next, grants, superseded, replays>>
  BY DEF UsesToken
<1>1. PICK y \in TokenRecords : y.live = TRUE /\ y.used = now /\ tokens' = [tokens EXCEPT ![p] = y]
  BY DEF UsesToken
<1>2. /\ hist'.parent = hist.parent /\ hist'.grant = hist.grant
      /\ hist'.refused = hist.refused /\ hist'.issued = hist.issued
      /\ hist'.used = IF hist.grant[p] = 0 THEN hist.used ELSE [hist.used EXCEPT ![hist.grant[p]] = now]
  BY DEF UsesToken, SameBut
<1>3. /\ tokens'[p].live /\ tokens'[p].used = now
      /\ \A q \in Pairs : q # p => tokens'[q] = tokens[q]
  BY <1>1 DEF TypeOK
<1>a. ASSUME NEW g \in Codes PROVE GrantKnown(g)'
  <2>1. CASE Live(g)
    <3>0. GrantKnown(g) /\ grants[g].refresh \in Pairs /\ hist.grant[grants[g].refresh] = g /\ g # 0
      BY <2>1, GrantFacts DEF GrantKnown, Pairs
    <3>1. CASE grants[g].refresh = p
      <4>1. hist'.used[g] = now
        BY <3>0, <3>1, <1>2, HistoryFields DEF TypeOK
      <4> QED
        BY <2>1, <3>0, <3>1, <4>1, <1>0, <1>2, <1>3 DEF GrantKnown, Live
    <3>2. CASE grants[g].refresh # p
      <4>1. hist.grant[p] # g
        <5>1. PairKnown(p)
          BY PairFacts
        <5> QED
          BY <2>1, <3>0, <3>2, <5>1, <1>0 DEF PairKnown, GrantKnown
      <4>2. hist'.used[g] = hist.used[g]
        BY <4>1, <1>2, HistoryFields DEF TypeOK
      <4> QED
        BY <2>1, <3>0, <3>2, <4>2, <1>0, <1>2, <1>3 DEF GrantKnown, Live
    <3> QED
      BY <3>1, <3>2
  <2>2. CASE ~Live(g)
    BY <2>2, <1>0 DEF GrantKnown, Live
  <2> QED
    BY <2>1, <2>2
<1>b. ASSUME NEW q \in Pairs PROVE PairKnown(q)'
  <2>1. PairKnown(q) /\ (tokens'[q].live <=> tokens[q].live)
    BY <1>0, <1>3, PairFacts
  <2> QED
    BY <2>1, <1>0, <1>2 DEF PairKnown, Live
<1>c. ASSUME NEW q \in Pairs PROVE ReplayKnown(q)' /\ RefusedKnown(q)'
  BY <1>0, <1>2, PairFacts DEF ReplayKnown, RefusedKnown, Live
<1>e. SupersededKnown' /\ RotatesOnce'
  BY <1>0, <1>2 DEF BooksKnown, SupersededKnown, RotatesOnce
<1> QED
  BY <1>a, <1>b, <1>c, <1>e DEF BooksKnown

(* An operator's token is nobody's grant.                                  *)
LEMMA IssuingKeeps ==
  ASSUME TypeOK, BooksKnown, NEW t \in TokenRecords, next \in Pairs, next' = next + 1,
         tokens' = [tokens EXCEPT ![next] = t], UNCHANGED <<grants, superseded, replays, hist>>
  PROVE  BooksKnown'
<1>0. next \in Nat /\ \A q \in Pairs : q # next => tokens'[q] = tokens[q]
  BY PairFacts DEF TypeOK
<1>a. ASSUME NEW g \in Codes PROVE GrantKnown(g)'
  <2>1. GrantKnown(g) /\ grants[g].refresh # next
    BY GrantFacts, NextIsNew
  <2>2. Live(g) => grants[g].refresh \in Pairs /\ grants[g].refresh \in 1 .. next' - 1
    BY <2>1, <1>0, GrantFacts DEF GrantKnown, Pairs
  <2> QED
    BY <2>1, <2>2, <1>0 DEF GrantKnown, Live
<1>b. ASSUME NEW q \in Pairs PROVE PairKnown(q)'
  <2>1. PairKnown(q) /\ q \in Nat /\ hist.parent[q] \in Nat
    BY PairFacts
  <2>2. hist.parent[q] < next' /\ (q >= next' => q >= next /\ q # next)
    BY <1>0, <2>1 DEF PairKnown
  <2>3. q = next => hist.grant[q] = 0 /\ hist.parent[q] = 0
    BY NextIsNew
  <2> QED
    BY <2>1, <2>2, <2>3, <1>0 DEF PairKnown, Live
<1>c. ASSUME NEW q \in Pairs PROVE ReplayKnown(q)' /\ RefusedKnown(q)'
  BY PairFacts DEF ReplayKnown, RefusedKnown, Live
<1>e. SupersededKnown' /\ RotatesOnce'
  BY DEF BooksKnown, SupersededKnown, RotatesOnce
<1> QED
  BY <1>a, <1>b, <1>c, <1>e DEF BooksKnown

---------------------------------------------------------------------------
(* What requests know.                                                     *)

LEMMA Requested ==
  ASSUME TypeOK, NEW r \in Requests, NEW x \in RequestRecords, req' = [req EXCEPT ![r] = x]
  PROVE  /\ req' \in [Requests -> RequestRecords] /\ req'[r] = x
         /\ \A q \in Requests : q # r => req'[q] = req[q]
BY DEF TypeOK

LEMMA RequestFacts ==
  ASSUME TypeOK, NEW r \in Requests
  PROVE  /\ req[r] \in RequestRecords /\ req[r].pc \in Stages
         /\ req[r].token \in 0 .. MaxPairs /\ req[r].grant \in 0 .. NumCodes
         /\ req[r].code \in CodeRecords
         /\ next \in Nat /\ now \in Nat /\ r # "free"
<1>1. req[r] \in RequestRecords
  BY DEF TypeOK
<1>2. next \in Nat /\ now \in Nat /\ r # "free"
  BY ConstantsOK DEF TypeOK
<1> QED
  BY <1>1, <1>2 DEF RequestRecords

LEMMA Rests ==
  ASSUME NEW r \in Requests, req'[r].pc \in {"idle", "register", "issue", "audience"}, mu' # r
  PROVE  RefreshKnown(r)' /\ OthersKnown(r)'
BY DEF RefreshKnown, OthersKnown, Refreshing

(* A request that does nothing knows what it knew, if the rows only grow,  *)
(* and while it refreshes its grant can only end.                          *)
LEMMA Stays ==
  ASSUME TypeOK, NEW r \in Requests, RefreshKnown(r), OthersKnown(r),
         req'[r] = req[r], mu' = r <=> mu = r, next' = next \/ next' = next + 1,
         \A p \in 1 .. next - 1 : hist'.grant[p] = hist.grant[p],
         Refreshing(r) =>
           /\ replays'[req[r].token] = replays[req[r].token]
           /\ \/ grants'[hist.grant[req[r].token]] = grants[hist.grant[req[r].token]]
              \/ grants'[hist.grant[req[r].token]] = NoGrant
  PROVE  RefreshKnown(r)' /\ OthersKnown(r)'
<1> DEFINE p == req[r].token
<1>0. next \in Nat
  BY RequestFacts
<1>1. p \in 1 .. next - 1 => p \in 1 .. next' - 1
  BY <1>0
<1>2. OthersKnown(r)'
  BY <1>1 DEF OthersKnown
<1>3. CASE ~Refreshing(r)
  <2>1. ~Refreshing(r)' /\ mu' # r
    BY <1>3 DEF RefreshKnown, Refreshing
  <2> QED
    BY <1>2, <2>1 DEF RefreshKnown, Refreshing
<1>4. CASE Refreshing(r)
  <2>1. p \in 1 .. next - 1 /\ hist.grant[p] # 0 /\ hist'.grant[p] = hist.grant[p]
    BY <1>4 DEF RefreshKnown
  <2>2. Refreshing(r)' /\ (Refreshing(r)' <=> mu' = r)
    BY <1>4 DEF RefreshKnown, Refreshing
  <2>3. req[r].pc \in {"replay", "rotate", "reject"} => req[r].grant = hist.grant[p]
    BY DEF RefreshKnown
  <2>4. req[r].pc = "rotate" =>
          /\ req[r].seen.refresh = p
          /\ Live(req[r].grant)' => grants'[req[r].grant].refresh = p
    BY <1>4, <2>3 DEF RefreshKnown, Live
  <2>5. (req[r].pc = "replay" /\ Live(req[r].grant)') => replays'[p].to = grants'[req[r].grant].refresh
    BY <1>4, <2>3 DEF RefreshKnown, Live
  <2> QED
    BY <1>1, <1>2, <2>1, <2>2, <2>3, <2>4, <2>5 DEF RefreshKnown
<1> QED
  BY <1>2, <1>3, <1>4

LEMMA CodesStay ==
  ASSUME CodesKnown, hist'.approved = hist.approved, hist'.issued = hist.issued,
         \A c \in Codes : codes'[c] = codes[c] \/ codes'[c] = NoCode,
         \A q \in Requests : req'[q] = req[q] \/ req'[q].pc # "issue",
         \A q \in Requests : req[q].grant \in Codes \/ req[q].pc # "issue"
  PROVE  CodesKnown'
<1>1. ASSUME NEW c \in Codes PROVE CodeKnown(c)'
  BY DEF CodesKnown, CodeKnown
<1>2. ASSUME NEW q \in Requests PROVE IssueKnown(q)'
  <2>1. IssueKnown(q)
    BY DEF CodesKnown
  <2> QED
    BY <2>1 DEF IssueKnown
<1> QED
  BY <1>1, <1>2 DEF CodesKnown

LEMMA IssuesCode ==
  ASSUME TypeOK, CodesKnown, NEW q \in Requests, req[q].pc = "issue"
  PROVE  req[q].grant \in Codes
BY HistoryFields DEF CodesKnown, IssueKnown, TypeOK

(* Grants end or nothing happens to the rows; requests stay or know what   *)
(* they do next.                                                           *)
LEMMA Ending ==
  ASSUME IInv, TypeOK', EndsGrants, hist'.approved = hist.approved,
         \A c \in Codes : codes'[c] = codes[c] \/ codes'[c] = NoCode,
         \A q \in Requests :
           \/ req'[q] = req[q] /\ (mu' = q <=> mu = q) /\ (Refreshing(q) => replays' = replays)
           \/ req'[q].pc # "issue" /\ RefreshKnown(q)' /\ OthersKnown(q)'
  PROVE  IInv'
<1>1. BooksKnown'
  BY EndingKeeps DEF IInv
<1>2. CodesKnown'
  BY CodesStay, IssuesCode DEF IInv, EndsGrants
<1>3. ASSUME NEW q \in Requests PROVE RefreshKnown(q)' /\ OthersKnown(q)'
  <2>1. CASE req'[q].pc # "issue" /\ RefreshKnown(q)' /\ OthersKnown(q)'
    BY <2>1
  <2>2. CASE req'[q] = req[q] /\ (mu' = q <=> mu = q) /\ (Refreshing(q) => replays' = replays)
    <3>1. RefreshKnown(q) /\ OthersKnown(q)
      BY DEF IInv, RequestsKnown
    <3>2. next' = next /\ hist'.grant = hist.grant
      BY DEF EndsGrants
    <3>3. Refreshing(q) => hist.grant[req[q].token] \in Codes
      <4>1. Refreshing(q) => req[q].token \in 1 .. next - 1 /\ hist.grant[req[q].token] # 0
        BY <3>1 DEF RefreshKnown
      <4>2. Refreshing(q) => req[q].token \in Pairs
        BY <4>1, RequestFacts DEF Pairs, IInv
      <4> QED
        BY <4>1, <4>2, PairFacts DEF IInv
    <3>4. Refreshing(q) => \/ grants'[hist.grant[req[q].token]] = grants[hist.grant[req[q].token]]
                           \/ grants'[hist.grant[req[q].token]] = NoGrant
      BY <3>3 DEF EndsGrants
    <3> QED
      BY <2>2, <3>1, <3>2, <3>4, Stays DEF IInv
  <2> QED
    BY <2>1, <2>2
<1> QED
  BY <1>1, <1>2, <1>3 DEF IInv, RequestsKnown

LEMMA NothingEnds ==
  ASSUME TypeOK, UNCHANGED <<next, grants, superseded, tokens>>,
         \A p \in Pairs : replays'[p] = replays[p] \/ replays'[p].to = 0,
         hist'.parent = hist.parent, hist'.grant = hist.grant, hist'.refused = hist.refused,
         hist'.issued = hist.issued, hist'.used = hist.used
  PROVE  EndsGrants
BY DEF EndsGrants

---------------------------------------------------------------------------
(* The steps that leave the rows alone.                                    *)

SameHistory ==
  SameBut(hist', hist.parent, hist.grant, hist.refused, hist.issued, hist.used, hist.approved)

LEMMA HistoryStays == ASSUME TypeOK, hist' = hist PROVE SameHistory
BY DEF SameHistory, SameBut, TypeOK

LEMMA Quiet ==
  ASSUME IInv, NEW r \in Requests, NEW x \in RequestRecords, req' = [req EXCEPT ![r] = x],
         UNCHANGED <<now, next, grants, superseded, tokens, replays>>, SameHistory,
         clients' \in [Clients -> {"absent", "new", "old"}], codes' \in [Codes -> CodeRecords],
         \A c \in Codes : codes'[c] = codes[c] \/ codes'[c] = NoCode,
         mu' \in Requests \cup {"free"}, \A q \in Requests : q # r => (mu' = q <=> mu = q),
         x.pc # "issue", RefreshKnown(r)', OthersKnown(r)'
  PROVE  IInv'
<1>1. /\ req' \in [Requests -> RequestRecords] /\ req'[r] = x
      /\ \A q \in Requests : q # r => req'[q] = req[q]
  BY Requested DEF IInv
<1>2. TypeOK'
  BY <1>1 DEF IInv, TypeOK, SameHistory, SameBut
<1>3. EndsGrants /\ hist'.approved = hist.approved
  BY NothingEnds DEF SameHistory, SameBut, IInv
<1>4. ASSUME NEW q \in Requests
      PROVE  \/ req'[q] = req[q] /\ (mu' = q <=> mu = q) /\ (Refreshing(q) => replays' = replays)
             \/ req'[q].pc # "issue" /\ RefreshKnown(q)' /\ OthersKnown(q)'
  BY <1>1
<1> QED
  BY <1>2, <1>3, <1>4, Ending

(* A request that holds no lock moves on to a stage without knowledge.     *)
LEMMA QuietlyOn ==
  ASSUME IInv, NEW r \in Requests, NEW x \in RequestRecords, req' = [req EXCEPT ![r] = x],
         x.pc \in {"idle", "register", "audience"},
         UNCHANGED <<now, next, grants, superseded, tokens, replays>>, SameHistory,
         clients' \in [Clients -> {"absent", "new", "old"}], codes' \in [Codes -> CodeRecords],
         \A c \in Codes : codes'[c] = codes[c] \/ codes'[c] = NoCode,
         mu' \in Requests \cup {"free"}, mu' # r, \A q \in Requests : q # r => (mu' = q <=> mu = q)
  PROVE  IInv'
<1>1. req'[r] = x
  BY Requested DEF IInv
<1>2. RefreshKnown(r)' /\ OthersKnown(r)'
  BY <1>1, Rests
<1> QED
  BY <1>2, Quiet

(* Only requests that refresh hold refreshMu.                              *)
LEMMA HoldsNothing ==
  ASSUME IInv, NEW r \in Requests, ~Refreshing(r)
  PROVE  mu # r
BY DEF IInv, RequestsKnown, RefreshKnown

LEMMA TickStep == ASSUME IInv, Tick PROVE IInv'
<1>1. now' \in 1 .. MaxTime /\ UNCHANGED <<next, codes, grants, superseded, tokens, replays, mu, req, hist>>
  BY ConstantsOK DEF Tick, IInv, TypeOK
<1>2. clients' \in [Clients -> {"absent", "new", "old"}]
  BY DEF Tick, IInv, TypeOK
<1>3. TypeOK'
  BY <1>1, <1>2 DEF IInv, TypeOK
<1>4. EndsGrants
  BY <1>1, NothingEnds DEF IInv
<1> QED
  BY <1>1, <1>3, <1>4, Ending

LEMMA RestartStep == ASSUME IInv, Restart PROVE IInv'
<1>1. /\ codes' = [c \in Codes |-> NoCode] /\ replays' = [p \in Pairs |-> NoReplay]
      /\ mu' = "free" /\ req' = [r \in Requests |-> Idle]
      /\ UNCHANGED <<now, next, clients, grants, superseded, tokens, hist>>
  BY DEF Restart
<1>2. TypeOK'
  BY <1>1, EmptyRecords, IdleRecord DEF IInv, TypeOK
<1>3. EndsGrants
  BY <1>1, NothingEnds, EmptyRecords DEF IInv
<1>4. ASSUME NEW q \in Requests PROVE req'[q].pc # "issue" /\ RefreshKnown(q)' /\ OthersKnown(q)'
  BY <1>1, IdleRecord, Rests, RequestFacts DEF IInv
<1> QED
  BY <1>1, <1>2, <1>3, <1>4, Ending

LEMMA RegisterStep ==
  ASSUME IInv, NEW r \in Requests, NEW c \in Clients, Register(r, c)
  PROVE  IInv'
<1>0. req[r] = Idle /\ UNCHANGED <<now, next, codes, grants, superseded, tokens, replays, mu, hist>>
  BY DEF Register
<1>1. clients' \in [Clients -> {"absent", "new", "old"}]
  BY DEF Register, IInv, TypeOK
<1>2. mu # r /\ mu \in Requests \cup {"free"} /\ codes \in [Codes -> CodeRecords] /\ SameHistory
  BY <1>0, IdleRecord, HoldsNothing, HistoryStays DEF Refreshing, IInv, TypeOK
<1>3. "register" \in Stages /\ c \in ClientNames
  BY DEF Stages, ClientNames
<1>4. PICK x \in RequestRecords : x.pc \in {"idle", "register"} /\ req' = [req EXCEPT ![r] = x]
  <2>1. CASE UNCHANGED req
    <3>1. req' = [req EXCEPT ![r] = Idle]
      BY <2>1, <1>0 DEF IInv, TypeOK
    <3> QED
      BY <3>1, IdleRecord
  <2>2. CASE req' = [req EXCEPT ![r] = [Idle EXCEPT !.pc = "register", !.client = c]]
    BY <2>2, <1>3, BegunForClient
  <2> QED
    BY <2>1, <2>2 DEF Register
<1> QED
  BY <1>0, <1>1, <1>2, <1>4, QuietlyOn

LEMMA InsertClientStep ==
  ASSUME IInv, NEW r \in Requests, InsertClient(r)
  PROVE  IInv'
<1>0. /\ req[r].pc = "register" /\ req' = [req EXCEPT ![r] = Idle]
      /\ UNCHANGED <<now, next, codes, grants, superseded, tokens, replays, mu, hist>>
  BY DEF InsertClient, Done
<1>1. clients' \in [Clients -> {"absent", "new", "old"}]
  BY DEF InsertClient, IInv, TypeOK
<1>2. mu # r /\ mu \in Requests \cup {"free"} /\ codes \in [Codes -> CodeRecords] /\ SameHistory
  BY <1>0, HoldsNothing, HistoryStays DEF Refreshing, IInv, TypeOK
<1> QED
  BY <1>0, <1>1, <1>2, IdleRecord, QuietlyOn

LEMMA CheckAudienceStep ==
  ASSUME IInv, NEW r \in Requests, CheckAudience(r)
  PROVE  IInv'
<1>0. /\ req[r].pc = "audience" /\ req' = [req EXCEPT ![r] = Idle]
      /\ UNCHANGED <<now, next, clients, codes, grants, superseded, tokens, replays, mu, hist>>
  BY DEF CheckAudience, Done
<1>2. /\ mu # r /\ mu \in Requests \cup {"free"} /\ codes \in [Codes -> CodeRecords] /\ SameHistory
      /\ clients \in [Clients -> {"absent", "new", "old"}]
  BY <1>0, HoldsNothing, HistoryStays DEF Refreshing, IInv, TypeOK
<1> QED
  BY <1>0, <1>2, IdleRecord, QuietlyOn

LEMMA DatabaseFailsStep ==
  ASSUME IInv, NEW r \in Requests, DatabaseFails(r)
  PROVE  IInv'
<1>0. /\ req' = [req EXCEPT ![r] = Idle] /\ mu' = IF mu = r THEN "free" ELSE mu
      /\ UNCHANGED <<now, next, clients, codes, grants, superseded, tokens, replays, hist>>
  BY DEF DatabaseFails, Done
<1>1. mu \in Requests \cup {"free"} /\ r # "free" /\ \A q \in Requests : q # "free"
  BY ConstantsOK DEF IInv, TypeOK
<1>2. /\ codes \in [Codes -> CodeRecords] /\ SameHistory
      /\ clients \in [Clients -> {"absent", "new", "old"}]
  BY <1>0, HistoryStays DEF IInv, TypeOK
<1>3. mu' \in Requests \cup {"free"} /\ mu' # r /\ \A q \in Requests : q # r => (mu' = q <=> mu = q)
  BY <1>0, <1>1
<1> QED
  BY <1>0, <1>2, <1>3, IdleRecord, QuietlyOn

(* refreshMu is given back.                                                *)
LEMMA Unlocked ==
  ASSUME IInv, NEW r \in Requests, Refreshing(r), Unlock(r)
  PROVE  /\ mu = r /\ mu' = "free" /\ mu' \in Requests \cup {"free"} /\ mu' # r
         /\ \A q \in Requests : q # r => (mu' = q <=> mu = q) /\ ~Refreshing(q)
         /\ req' = [req EXCEPT ![r] = Idle] /\ req' \in [Requests -> RequestRecords]
         /\ req'[r] = Idle /\ \A q \in Requests : q # r => req'[q] = req[q]
<1>1. mu = r /\ mu' = "free" /\ req' = [req EXCEPT ![r] = Idle]
  BY DEF IInv, RequestsKnown, RefreshKnown, Unlock, Done
<1>2. \A q \in Requests : q # "free"
  BY ConstantsOK
<1>3. \A q \in Requests : q # r => ~Refreshing(q)
  BY <1>1 DEF IInv, RequestsKnown, RefreshKnown
<1>4. /\ req' \in [Requests -> RequestRecords] /\ req'[r] = Idle
      /\ \A q \in Requests : q # r => req'[q] = req[q]
  BY <1>1, IdleRecord, Requested DEF IInv
<1> QED
  BY <1>1, <1>2, <1>3, <1>4

LEMMA ReplayStep ==
  ASSUME IInv, NEW r \in Requests, Replay(r)
  PROVE  IInv'
<1>0. /\ Refreshing(r) /\ Unlock(r)
      /\ UNCHANGED <<now, next, clients, codes, grants, superseded, tokens, replays, hist>>
  BY DEF Replay, Refreshing
<1>2. /\ codes \in [Codes -> CodeRecords] /\ SameHistory
      /\ clients \in [Clients -> {"absent", "new", "old"}]
  BY <1>0, HistoryStays DEF IInv, TypeOK
<1>3. /\ mu' \in Requests \cup {"free"} /\ mu' # r /\ \A q \in Requests : q # r => (mu' = q <=> mu = q)
      /\ req' = [req EXCEPT ![r] = Idle]
  BY <1>0, Unlocked
<1> QED
  BY <1>0, <1>2, <1>3, IdleRecord, QuietlyOn

---------------------------------------------------------------------------
(* Codes.                                                                  *)

LEMMA ApproveStep ==
  ASSUME IInv, NEW c \in Codes, NEW client \in Clients, NEW resource \in Resources,
         CompleteAuthorization(c, client, resource)
  PROVE  IInv'
<1> DEFINE code == [client |-> client, resource |-> resource, expires |-> now + CodeLifetime]
<1>0. /\ codes[c] = NoCode /\ hist.issued[c] = 0 /\ c \notin hist.approved
      /\ codes' = [x \in Codes |-> IF x = c THEN code ELSE IF x \in Pending THEN codes[x] ELSE NoCode]
      /\ hist' = [hist EXCEPT !.approved = @ \cup {c}]
      /\ UNCHANGED <<now, next, clients, grants, superseded, tokens, replays, mu, req>>
  BY DEF CompleteAuthorization
<1>1. code \in CodeRecords
  BY ConstantsOK DEF CodeRecords, ClientNames, ResourceNames, IInv, TypeOK
<1>2. SameBut(hist', hist.parent, hist.grant, hist.refused, hist.issued, hist.used, hist.approved \cup {c})
  BY <1>0, Approved DEF IInv, TypeOK
<1> HIDE DEF code
<1>3. codes' \in [Codes -> CodeRecords] /\ \A x \in Codes : x # c => codes'[x] \in {codes[x], NoCode}
  BY <1>0, <1>1, EmptyRecords DEF IInv, TypeOK
<1>4. TypeOK'
  BY <1>0, <1>2, <1>3 DEF IInv, TypeOK, SameBut
<1>5. EndsGrants
  BY <1>0, <1>2, NothingEnds DEF IInv, SameBut
<1>6. BooksKnown'
  BY <1>5, EndingKeeps DEF IInv
<1>7. ASSUME NEW x \in Codes PROVE CodeKnown(x)'
  <2>1. CodeKnown(x)
    BY DEF IInv, CodesKnown
  <2> QED
    BY <2>1, <1>0, <1>2, <1>3 DEF CodeKnown, SameBut
<1>8. ASSUME NEW q \in Requests PROVE IssueKnown(q)'
  <2>1. IssueKnown(q) /\ (req[q].pc = "issue" => req[q].grant \in Codes)
    BY IssuesCode DEF IInv, CodesKnown
  <2>2. req[q].pc = "issue" => req[q].grant # c
    BY <2>1, <1>0 DEF IssueKnown
  <2> QED
    BY <2>1, <2>2, <1>0, <1>2, <1>3 DEF IssueKnown, SameBut
<1>9. ASSUME NEW q \in Requests PROVE RefreshKnown(q)' /\ OthersKnown(q)'
  <2>1. RefreshKnown(q) /\ OthersKnown(q) /\ hist'.grant = hist.grant
    BY <1>2 DEF IInv, RequestsKnown, SameBut
  <2> QED
    BY <2>1, <1>0, Stays DEF IInv
<1> QED
  BY <1>4, <1>6, <1>7, <1>8, <1>9 DEF IInv, CodesKnown, RequestsKnown

LEMMA TakeStep ==
  ASSUME IInv, NEW r \in Requests, NEW c \in Codes, TakeCode(r, c)
  PROVE  IInv'
<1>0. /\ req[r] = Idle /\ codes[c] # NoCode /\ codes' = [codes EXCEPT ![c] = NoCode]
      /\ UNCHANGED <<now, next, clients, grants, superseded, tokens, replays, mu, hist>>
  BY DEF TakeCode
<1>1. /\ codes' \in [Codes -> CodeRecords] /\ codes'[c] = NoCode
      /\ \A x \in Codes : x # c => codes'[x] = codes[x]
      /\ codes[c] \in CodeRecords
  BY <1>0, EmptyRecords DEF IInv, TypeOK
<1>2. mu # r /\ mu \in Requests \cup {"free"} /\ SameHistory
      /\ clients \in [Clients -> {"absent", "new", "old"}]
  BY <1>0, IdleRecord, HoldsNothing, HistoryStays DEF Refreshing, IInv, TypeOK
<1>3. CASE UNCHANGED req
  <2>1. req' = [req EXCEPT ![r] = Idle]
    BY <1>0, <1>3 DEF IInv, TypeOK
  <2> QED
    BY <2>1, <1>0, <1>1, <1>2, IdleRecord, QuietlyOn
<1>4. CASE req' = [req EXCEPT ![r] = [Idle EXCEPT !.pc = "issue", !.grant = c, !.code = codes[c]]]
  <2> DEFINE x == [Idle EXCEPT !.pc = "issue", !.grant = c, !.code = codes[c]]
  <2>0. "issue" \in Stages /\ c \in 0 .. NumCodes
    BY ConstantsOK DEF Stages, Codes
  <2>1. x \in RequestRecords /\ x.pc = "issue" /\ x.grant = c
    BY <2>0, <1>1, IdleRecord DEF RequestRecords
  <2> HIDE DEF x
  <2>2. /\ req' \in [Requests -> RequestRecords] /\ req'[r] = x
        /\ \A q \in Requests : q # r => req'[q] = req[q]
    BY <1>4, <2>1, Requested DEF IInv, x
  <2>3. TypeOK'
    BY <2>2, <1>0, <1>1, <1>2 DEF IInv, TypeOK
  <2>4. BooksKnown'
    BY <1>0, NothingEnds, EndingKeeps DEF IInv
  <2>5. ASSUME NEW y \in Codes PROVE CodeKnown(y)'
    <3>1. CodeKnown(y)
      BY DEF IInv, CodesKnown
    <3> QED
      BY <3>1, <1>0, <1>1 DEF CodeKnown
  <2>6. c \in hist.approved /\ hist.issued[c] = 0
    BY <1>0 DEF IInv, CodesKnown, CodeKnown
  <2>7. ASSUME NEW q \in Requests PROVE q # r => IssueKnown(q) /\ (req[q].pc = "issue" => req[q].grant # c)
    BY <1>0, IssuesCode DEF IInv, CodesKnown, IssueKnown
  <2>8. ASSUME NEW q \in Requests PROVE IssueKnown(q)'
    <3>1. CASE q = r
      BY <3>1, <2>1, <2>2, <2>6, <2>7, <1>0, <1>1 DEF IssueKnown
    <3>2. CASE q # r
      <4>1. req'[q].pc = "issue" => req[q].grant \in Codes /\ req[q].grant # c /\ IssueKnown(q)
        BY <3>2, <2>2, <2>7, IssuesCode DEF IInv
      <4> QED
        BY <3>2, <4>1, <2>1, <2>2, <1>0, <1>1 DEF IssueKnown
    <3> QED
      BY <3>1, <3>2
  <2>9. ASSUME NEW q \in Requests PROVE RefreshKnown(q)' /\ OthersKnown(q)'
    <3>1. CASE q = r
      BY <3>1, <2>1, <2>2, <1>0, <1>2, Rests
    <3>2. CASE q # r
      <4>1. RefreshKnown(q) /\ OthersKnown(q)
        BY DEF IInv, RequestsKnown
      <4> QED
        BY <3>2, <4>1, <2>2, <1>0, Stays DEF IInv
    <3> QED
      BY <3>1, <3>2
  <2> QED
    BY <2>3, <2>4, <2>5, <2>8, <2>9 DEF IInv, CodesKnown, RequestsKnown
<1> QED
  BY <1>3, <1>4 DEF TakeCode

(* The grant of the code that the request took is created.                 *)
LEMMA CreateStep ==
  ASSUME IInv, NEW r \in Requests, CreateGrant(r)
  PROVE  IInv'
<1> DEFINE c == req[r].grant
           code == req[r].code
<1>0. /\ req[r].pc = "issue" /\ next <= MaxPairs /\ req' = [req EXCEPT ![r] = Idle]
      /\ UNCHANGED <<now, clients, codes, superseded, replays, mu>>
  BY DEF CreateGrant, Done
<1>1. /\ req' \in [Requests -> RequestRecords] /\ req'[r] = Idle
      /\ \A q \in Requests : q # r => req'[q] = req[q]
  BY <1>0, IdleRecord, Requested DEF IInv
<1>2. c \in Codes /\ IssueKnown(r) /\ next \in Pairs /\ next \in 1 .. MaxPairs /\ now \in Nat
  BY <1>0, IssuesCode, ConstantsOK DEF IInv, CodesKnown, TypeOK, Pairs
<1>3. mu # r /\ mu \in Requests \cup {"free"} /\ codes \in [Codes -> CodeRecords]
      /\ clients \in [Clients -> {"absent", "new", "old"}]
  BY <1>0, HoldsNothing DEF Refreshing, IInv, TypeOK
<1>4. CASE UNCHANGED <<next, grants, tokens, hist>>
  <2>1. SameHistory
    BY <1>4, HistoryStays DEF IInv
  <2> QED
    BY <1>0, <1>3, <1>4, <2>1, IdleRecord, QuietlyOn
<1>5. CASE /\ next' = next + 1
           /\ grants' = [grants EXCEPT ![c] = FirstGrant(code)]
           /\ tokens' = [tokens EXCEPT ![next] = Token(code.resource, 0)]
           /\ hist' = [hist EXCEPT !.grant[next] = c, !.issued[c] = @ + 1, !.used[c] = 0]
  <2>0. code \in CodeRecords /\ code.resource \in ResourceNames
    BY RequestFacts DEF CodeRecords, IInv
  <2> HIDE DEF c, code
  <2>1. /\ FirstGrant(code) \in GrantRecords /\ FirstGrant(code).refresh = next
        /\ FirstGrant(code).access = next /\ FirstGrant(code).previous = 0
    BY <1>2, <2>0, FirstGrantRecord
  <2>2. /\ Token(code.resource, 0) \in TokenRecords
        /\ Token(code.resource, 0).live = TRUE /\ Token(code.resource, 0).used = 0
    BY <1>2, <2>0, TokenRecord
  <2>3. SameBut(hist', hist.parent, [hist.grant EXCEPT ![next] = c], hist.refused,
                 [hist.issued EXCEPT ![c] = hist.issued[c] + 1], [hist.used EXCEPT ![c] = 0], hist.approved)
    BY <1>2, <1>5, Issued DEF IInv, TypeOK
  <2>4. hist.issued[c] = 0 /\ c \in hist.approved /\ codes[c] = NoCode
        /\ \A q \in Requests : (req[q].pc = "issue" /\ req[q].grant = c) => q = r
    BY <1>0, <1>2 DEF IssueKnown, c
  <2>5. CreatesGrant(c)
    BY <1>0, <1>2, <1>5, <2>1, <2>2, <2>3, <2>4 DEF CreatesGrant
  <2>6. BooksKnown'
    BY <1>2, <2>5, CreatingKeeps DEF IInv
  <2>7. grants' \in [Codes -> GrantRecords] /\ tokens' \in [Pairs -> TokenRecords]
        /\ next' \in 1 .. MaxPairs + 1 /\ hist' \in Histories
    BY <1>2, <1>5, <2>1, <2>2, <2>3, ConstantsOK DEF IInv, TypeOK, SameBut
  <2>8. TypeOK'
    BY <1>0, <1>1, <2>7 DEF IInv, TypeOK
  <2>9. /\ hist'.approved = hist.approved /\ hist'.issued[c] = 1
        /\ \A x \in Codes : x # c => hist'.issued[x] = hist.issued[x]
    BY <1>2, <2>3, <2>4, HistoryFields DEF SameBut, IInv, TypeOK
  <2>a. ASSUME NEW x \in Codes PROVE CodeKnown(x)'
    <3>1. CodeKnown(x)
      BY DEF IInv, CodesKnown
    <3> QED
      BY <3>1, <2>4, <2>9, <1>0 DEF CodeKnown
  <2>b. ASSUME NEW q \in Requests PROVE IssueKnown(q)'
    <3>1. CASE q = r
      BY <3>1, <1>1, IdleRecord DEF IssueKnown
    <3>2. CASE q # r
      <4>1. IssueKnown(q) /\ (req[q].pc = "issue" => req[q].grant \in Codes /\ req[q].grant # c)
        BY <3>2, <2>4, IssuesCode DEF IInv, CodesKnown
      <4> QED
        BY <3>2, <4>1, <2>9, <1>0, <1>1, IdleRecord DEF IssueKnown
    <3> QED
      BY <3>1, <3>2
  <2>c. ASSUME NEW q \in Requests PROVE RefreshKnown(q)' /\ OthersKnown(q)'
    <3>1. CASE q = r
      BY <3>1, <1>0, <1>1, <1>3, IdleRecord, Rests
    <3>2. CASE q # r
      <4>1. RefreshKnown(q) /\ OthersKnown(q)
        BY DEF IInv, RequestsKnown
      <4>2. \A p \in 1 .. next - 1 : hist'.grant[p] = hist.grant[p]
        BY <1>2, <2>3, HistoryFields DEF SameBut, IInv, TypeOK, Pairs
      <4>3. Refreshing(q) => hist.grant[req[q].token] \in Codes /\ hist.grant[req[q].token] # c
        <5>1. ASSUME Refreshing(q) PROVE req[q].token \in Pairs /\ hist.grant[req[q].token] # 0
          <6>1. req[q].token \in 1 .. next - 1 /\ hist.grant[req[q].token] # 0
            BY <4>1, <5>1 DEF RefreshKnown
          <6> QED
            BY <6>1, <1>2, ConstantsOK DEF Pairs
        <5>2. ASSUME Refreshing(q)
              PROVE  hist.grant[req[q].token] \in Codes /\ hist.issued[hist.grant[req[q].token]] = 1
          BY <5>1, <5>2, PairFacts DEF IInv, PairKnown
        <5> QED
          BY <5>2, <2>4
      <4>4. Refreshing(q) => grants'[hist.grant[req[q].token]] = grants[hist.grant[req[q].token]]
        BY <4>3, <1>5 DEF IInv, TypeOK
      <4> QED
        BY <3>2, <4>1, <4>2, <4>4, <1>0, <1>1, <1>5, Stays DEF IInv
    <3> QED
      BY <3>1, <3>2
  <2> QED
    BY <2>6, <2>8, <2>a, <2>b, <2>c DEF IInv, CodesKnown, RequestsKnown
<1> QED
  BY <1>4, <1>5 DEF CreateGrant

---------------------------------------------------------------------------
(* Refreshes.                                                              *)

LEMMA LockStep ==
  ASSUME IInv, NEW r \in Requests, NEW p \in Pairs, LockRefresh(r, p)
  PROVE  IInv'
<1> DEFINE x == [Idle EXCEPT !.pc = "refresh", !.token = p]
<1>0. /\ req[r] = Idle /\ p < next /\ hist.grant[p] # 0 /\ mu = "free" /\ mu' = r
      /\ req' = [req EXCEPT ![r] = x]
      /\ UNCHANGED <<now, next, clients, codes, grants, superseded, tokens, replays, hist>>
  BY DEF LockRefresh
<1>1. "refresh" \in Stages /\ p \in 0 .. MaxPairs
  BY ConstantsOK DEF Stages, Pairs
<1>2. x \in RequestRecords /\ x.pc = "refresh" /\ x.token = p
  BY <1>1, IdleRecord DEF RequestRecords
<1> HIDE DEF x
<1>3. req'[r] = x
  BY <1>0, <1>2, Requested DEF IInv
<1>4. p \in 1 .. next' - 1
  BY <1>0, RequestFacts DEF Pairs, IInv
<1>5. RefreshKnown(r)' /\ OthersKnown(r)'
  BY <1>0, <1>2, <1>3, <1>4 DEF RefreshKnown, OthersKnown, Refreshing
<1>6. /\ codes \in [Codes -> CodeRecords] /\ SameHistory
      /\ clients \in [Clients -> {"absent", "new", "old"}]
  BY <1>0, HistoryStays DEF IInv, TypeOK
<1>7. \A q \in Requests : q # r => (mu' = q <=> mu = q)
  BY <1>0, ConstantsOK
<1> QED
  BY <1>0, <1>2, <1>5, <1>6, <1>7, Quiet

(* What the rows find for a token is the grant it was issued for.          *)
LEMMA FoundIsGrant ==
  ASSUME IInv, NEW p \in Pairs
  PROVE  /\ \A g \in Found(p) : g \in Codes /\ hist.grant[p] = g
         /\ Found(p) = {} => (hist.grant[p] # 0 => ~Live(hist.grant[p]))
<1>0. p # 0 /\ p \in Nat /\ PairKnown(p) /\ (hist.grant[p] # 0 => hist.grant[p] \in Codes)
  BY PairFacts DEF IInv
<1>1. ASSUME NEW g \in ByRefresh(p) PROVE g \in Codes /\ hist.grant[p] = g
  <2>1. g \in Codes /\ p \in {grants[g].refresh, grants[g].previous}
    BY DEF ByRefresh
  <2>2. Live(g)
    BY <1>0, <2>1, EmptyRecords DEF Live
  <2> QED
    BY <1>0, <2>1, <2>2, GrantFacts DEF GrantKnown, IInv
<1>2. ASSUME NEW g \in BySuperseded(p) PROVE g \in Codes /\ hist.grant[p] = g
  <2>1. PICK s \in superseded : s[1] = p /\ s[2] = g
    BY DEF BySuperseded
  <2>2. s \in Pairs \X Codes
    BY DEF IInv, TypeOK
  <2>3. s = <<p, g>> /\ g \in Codes
    BY <2>1, <2>2
  <2> QED
    BY <2>3 DEF IInv, BooksKnown, SupersededKnown
<1>3. ASSUME Found(p) = {}, hist.grant[p] # 0, Live(hist.grant[p]) PROVE FALSE
  <2> DEFINE g == hist.grant[p]
  <2>1. p = grants[g].refresh \/ <<p, g>> \in superseded
    BY <1>0, <1>3 DEF PairKnown
  <2>2. CASE p = grants[g].refresh
    <3>1. g \in ByRefresh(p)
      BY <1>0, <1>3, <2>2 DEF ByRefresh
    <3> QED
      BY <1>3, <3>1 DEF Found
  <2>3. CASE <<p, g>> \in superseded
    <3>1. <<p, g>>[1] = p /\ <<p, g>>[2] = g
      OBVIOUS
    <3>2. <<p, g>> \in {y \in superseded : y[1] = p}
      BY <2>3, <3>1
    <3>3. g \in BySuperseded(p)
      BY <3>1, <3>2 DEF BySuperseded
    <3> QED
      BY <1>3, <3>3 DEF Found
  <2> QED
    BY <2>1, <2>2, <2>3
<1> QED
  BY <1>1, <1>2, <1>3 DEF Found

(* A refused token's grant is over.                                        *)
LEMMA RefusingEnds ==
  ASSUME TypeOK, UNCHANGED <<next, grants, superseded, tokens>>, NEW p \in Pairs,
         \A q \in Pairs : replays'[q] = replays[q] \/ replays'[q].to = 0,
         Refuse(p), hist.grant[p] # 0, ~Live(hist.grant[p])
  PROVE  EndsGrants /\ hist'.approved = hist.approved /\ hist' \in Histories
<1>1. SameBut(hist', hist.parent, hist.grant, hist.refused \cup {p}, hist.issued, hist.used, hist.approved)
  BY Refused DEF TypeOK
<1> QED
  BY <1>1 DEF EndsGrants, SameBut, Live

LEMMA RefreshFacts ==
  ASSUME IInv, NEW r \in Requests, Refreshing(r)
  PROVE  /\ req[r].token \in 1 .. next - 1 /\ req[r].token \in Pairs /\ hist.grant[req[r].token] # 0
         /\ hist.grant[req[r].token] \in Codes
         /\ req[r].pc \in {"replay", "rotate", "reject"} => req[r].grant = hist.grant[req[r].token]
         /\ mu = r /\ RefreshKnown(r)
<1>1. RefreshKnown(r)
  BY DEF IInv, RequestsKnown
<1>2. /\ req[r].token \in 1 .. next - 1 /\ hist.grant[req[r].token] # 0 /\ mu = r
      /\ req[r].pc \in {"replay", "rotate", "reject"} => req[r].grant = hist.grant[req[r].token]
  BY <1>1 DEF RefreshKnown
<1>3. next \in 1 .. MaxPairs + 1
  BY DEF IInv, TypeOK
<1>4. req[r].token \in Pairs
  BY <1>2, <1>3, ConstantsOK DEF Pairs
<1> QED
  BY <1>1, <1>2, <1>4, PairFacts DEF IInv

(* A refresh that ends: it rests, and nobody else was refreshing.          *)
LEMMA RefreshEnds ==
  ASSUME IInv, NEW r \in Requests, Refreshing(r), Unlock(r), TypeOK',
         EndsGrants, hist'.approved = hist.approved, UNCHANGED codes
  PROVE  IInv'
<1>1. ASSUME NEW q \in Requests
      PROVE  \/ req'[q] = req[q] /\ (mu' = q <=> mu = q) /\ (Refreshing(q) => replays' = replays)
             \/ req'[q].pc # "issue" /\ RefreshKnown(q)' /\ OthersKnown(q)'
  <2>1. CASE q = r
    BY <2>1, Unlocked, IdleRecord, Rests
  <2>2. CASE q # r
    BY <2>2, Unlocked
  <2> QED
    BY <2>1, <2>2
<1> QED
  BY <1>1, Ending

LEMMA VerdictFacts ==
  ASSUME NEW p, NEW g
  PROVE  /\ Verdict(p, g) \in {"reject", "rotate", "replay"}
         /\ Verdict(p, g) = "rotate" => p = grants[g].refresh
         /\ Verdict(p, g) = "replay" => p = grants[g].previous /\ replays[p].to # 0
BY DEF Verdict, Replayable

LEMMA ReadStep ==
  ASSUME IInv, NEW r \in Requests, ReadGrant(r)
  PROVE  IInv'
<1> DEFINE p == req[r].token
<1>0. /\ req[r].pc = "refresh" /\ Refreshing(r)
      /\ UNCHANGED <<now, next, clients, codes, grants, superseded, tokens, replays>>
  BY DEF ReadGrant, Refreshing
<1>1. p \in 1 .. next - 1 /\ p \in Pairs /\ hist.grant[p] # 0 /\ mu = r
  BY <1>0, RefreshFacts
<1>2. /\ codes \in [Codes -> CodeRecords] /\ clients \in [Clients -> {"absent", "new", "old"}]
      /\ mu \in Requests \cup {"free"}
  BY DEF IInv, TypeOK
<1>3. CASE Found(p) = {} /\ Unlock(r) /\ Refuse(p)
  <2>1. ~Live(hist.grant[p])
    BY <1>1, <1>3, FoundIsGrant
  <2>2. EndsGrants /\ hist'.approved = hist.approved /\ hist' \in Histories
    BY <1>0, <1>1, <1>3, <2>1, RefusingEnds DEF IInv
  <2>3. TypeOK'
    BY <1>0, <1>3, <2>2, Unlocked DEF IInv, TypeOK
  <2> QED
    BY <1>0, <1>3, <2>2, <2>3, RefreshEnds
<1>4. CASE Unlock(r) /\ UNCHANGED hist
  <2>1. /\ mu' \in Requests \cup {"free"} /\ mu' # r /\ \A q \in Requests : q # r => (mu' = q <=> mu = q)
        /\ req' = [req EXCEPT ![r] = Idle]
    BY <1>0, <1>4, Unlocked
  <2>2. SameHistory
    BY <1>4, HistoryStays DEF IInv
  <2> QED
    BY <1>0, <1>2, <2>1, <2>2, IdleRecord, QuietlyOn
<1>5. ASSUME NEW g \in Found(p),
             req' = [req EXCEPT ![r] = [@ EXCEPT !.pc = Verdict(p, g), !.grant = g, !.seen = grants[g]]],
             hist' = IF Verdict(p, g) = "reject" /\ InGrace(p) /\ now < grants[g].idle
                     THEN [hist EXCEPT !.hurt = @ \cup {g}] ELSE hist,
             UNCHANGED mu
      PROVE  IInv'
  <2> DEFINE stage == Verdict(p, g)
             x == [req[r] EXCEPT !.pc = stage, !.grant = g, !.seen = grants[g]]
  <2>1. g \in Codes /\ hist.grant[p] = g /\ grants[g] \in GrantRecords /\ g \in 0 .. NumCodes
    BY <1>1, FoundIsGrant, ConstantsOK DEF IInv, TypeOK, Codes
  <2>2. /\ stage \in {"reject", "rotate", "replay"} /\ stage \in Stages
        /\ stage = "rotate" => p = grants[g].refresh
        /\ stage = "replay" => p = grants[g].previous /\ replays[p].to # 0
    BY VerdictFacts DEF Stages
  <2>3. req' = [req EXCEPT ![r] = x]
    BY <1>5
  <2>4. SameHistory
    <3>1. CASE hist' = hist
      BY <3>1, HistoryStays DEF IInv
    <3>2. CASE hist' = [hist EXCEPT !.hurt = @ \cup {g}]
      BY <2>1, <3>2, Hurt DEF IInv, TypeOK, SameHistory
    <3> QED
      BY <1>5, <3>1, <3>2
  <2> HIDE DEF stage
  <2>5. /\ x \in RequestRecords /\ x.pc = stage /\ x.grant = g /\ x.seen = grants[g] /\ x.token = p
    BY <2>1, <2>2, RequestFacts DEF RequestRecords, IInv
  <2> HIDE DEF x
  <2>6. req'[r] = x
    BY <2>3, <2>5, Requested DEF IInv
  <2>7. stage = "replay" => replays[p].to = grants[g].refresh
    <3>1. ReplayKnown(p)
      BY <1>1, PairFacts DEF IInv
    <3> QED
      BY <2>1, <2>2, <3>1, <1>1 DEF ReplayKnown
  <2>8. hist'.grant = hist.grant
    BY <2>4 DEF SameHistory, SameBut
  <2>9. RefreshKnown(r)'
    BY <1>0, <1>1, <1>5, <2>1, <2>2, <2>5, <2>6, <2>7, <2>8 DEF RefreshKnown, Refreshing, Live
  <2>10. OthersKnown(r)' /\ x.pc # "issue"
    BY <2>2, <2>5, <2>6 DEF OthersKnown
  <2> QED
    BY <1>0, <1>2, <1>5, <2>3, <2>4, <2>5, <2>9, <2>10, Quiet
<1> QED
  BY <1>3, <1>4, <1>5 DEF ReadGrant

LEMMA FreshReplays ==
  ASSUME TypeOK
  PROVE  /\ Fresh \in [Pairs -> ReplayRecords]
         /\ \A p \in Pairs : Fresh[p] = replays[p] \/ Fresh[p].to = 0
BY EmptyRecords DEF Fresh, TypeOK

(* A rotation that finds the grant as it was read replaces the pair; one   *)
(* that does not, finds it ended.                                          *)
LEMMA RotateStep ==
  ASSUME IInv, NEW r \in Requests, Rotate(r)
  PROVE  IInv'
<1> DEFINE p == req[r].token
           g == req[r].grant
<1>0. req[r].pc = "rotate" /\ Refreshing(r) /\ Unlock(r) /\ UNCHANGED <<now, clients, codes>>
  BY DEF Rotate, Refreshing
<1>1. /\ p \in 1 .. next - 1 /\ p \in Pairs /\ p # 0 /\ hist.grant[p] = g /\ g \in Codes
      /\ req[r].seen.refresh = p /\ (Live(g) => grants[g].refresh = p)
  BY <1>0, RefreshFacts DEF RefreshKnown
<1>2. /\ req' \in [Requests -> RequestRecords] /\ mu' \in Requests \cup {"free"}
      /\ req'[r] = Idle /\ mu' # r
      /\ \A q \in Requests : q # r => req'[q] = req[q] /\ (mu' = q <=> mu = q) /\ ~Refreshing(q)
  BY <1>0, Unlocked
<1>3. CASE replays' = Fresh /\ UNCHANGED <<next, grants, superseded, tokens, hist>>
  <2>1. TypeOK'
    BY <1>0, <1>2, <1>3, FreshReplays DEF IInv, TypeOK
  <2>2. EndsGrants /\ hist'.approved = hist.approved
    BY <1>3, FreshReplays, NothingEnds DEF IInv
  <2> QED
    BY <1>0, <2>1, <2>2, RefreshEnds
<1>4. CASE ~StillCurrent(r) /\ Refuse(p) /\ replays' = Fresh /\ UNCHANGED <<next, grants, superseded, tokens>>
  <2>1. ~Live(hist.grant[p]) /\ hist.grant[p] # 0
    BY <1>1, <1>4 DEF StillCurrent, Codes
  <2>2. EndsGrants /\ hist'.approved = hist.approved /\ hist' \in Histories
    BY <1>1, <1>4, <2>1, FreshReplays, RefusingEnds DEF IInv
  <2>3. TypeOK'
    BY <1>0, <1>2, <1>4, <2>2, FreshReplays DEF IInv, TypeOK
  <2> QED
    BY <1>0, <2>2, <2>3, RefreshEnds
<1>5. CASE /\ StillCurrent(r) /\ next <= MaxPairs /\ next' = next + 1
           /\ grants' = [grants EXCEPT ![g] = Rotated(g)]
           /\ superseded' = superseded \cup {<<grants[g].refresh, g>>}
           /\ tokens' = [tokens EXCEPT ![grants[g].access] = NoToken,
                                       ![next] = Token(grants[g].resource, Carried(grants[g].access))]
           /\ replays' = [Fresh EXCEPT ![p] = [to |-> next, until |-> now + Grace]]
           /\ hist' = [hist EXCEPT !.parent[next] = p, !.grant[next] = g, !.replaced[p] = now]
  <2>0. grants[g].refresh = p /\ Live(g) /\ grants[g].access = p
    <3>1. grants[g].refresh = p
      BY <1>1, <1>5 DEF StillCurrent
    <3>2. Live(g) /\ GrantKnown(g)
      BY <1>1, <3>1, GrantFacts DEF IInv
    <3> QED
      BY <3>1, <3>2 DEF GrantKnown
  <2>1. next \in Pairs /\ next \in 1 .. MaxPairs /\ now \in Nat /\ next \in 0 .. MaxPairs
    BY <1>5, ConstantsOK DEF IInv, TypeOK, Pairs
  <2>2. grants[g] \in GrantRecords /\ grants[g].resource \in ResourceNames /\ tokens[p].used \in Nat
    BY <1>1, GrantFacts, PairFacts DEF IInv, GrantRecords, TokenRecords
  <2> HIDE DEF p, g
  <2>3. /\ Rotated(g) \in GrantRecords /\ Rotated(g).refresh = next
        /\ Rotated(g).access = next /\ Rotated(g).previous = p
    BY <2>0, <2>1, <2>2, RotatedRecord
  <2>4. /\ Token(grants[g].resource, tokens[p].used) \in TokenRecords
        /\ Token(grants[g].resource, tokens[p].used).live = TRUE
        /\ Token(grants[g].resource, tokens[p].used).used = tokens[p].used
    BY <2>1, <2>2, TokenRecord
  <2>5. tokens' = [tokens EXCEPT ![p] = NoToken, ![next] = Token(grants[g].resource, tokens[p].used)]
    BY <1>5, <2>0 DEF Carried
  <2>6. SameBut(hist', [hist.parent EXCEPT ![next] = p], [hist.grant EXCEPT ![next] = g], hist.refused,
                 hist.issued, hist.used, hist.approved)
    BY <1>1, <1>5, <2>1, Replaced DEF IInv, TypeOK
  <2> DEFINE answer == [to |-> next, until |-> now + Grace]
  <2>7. answer \in ReplayRecords /\ answer.to = next
    BY <2>1, ConstantsOK DEF ReplayRecords
  <2> HIDE DEF answer
  <2>8. /\ replays' \in [Pairs -> ReplayRecords] /\ replays'[p].to = next
        /\ \A q \in Pairs \ {p} : replays'[q] = replays[q] \/ replays'[q].to = 0
    BY <1>1, <1>5, <2>7, FreshReplays DEF IInv, answer
  <2>9. superseded' = superseded \cup {<<p, g>>}
    BY <1>5, <2>0
  <2>10. RotatesGrant(g, p)
    BY <1>5, <2>0, <2>1, <2>3, <2>4, <2>5, <2>6, <2>8, <2>9 DEF RotatesGrant
  <2>11. BooksKnown'
    BY <1>1, <2>10, RotatingKeeps DEF IInv
  <2>12. /\ grants' \in [Codes -> GrantRecords] /\ tokens' \in [Pairs -> TokenRecords]
         /\ superseded' \subseteq Pairs \X Codes /\ next' \in 1 .. MaxPairs + 1 /\ hist' \in Histories
    BY <1>1, <1>5, <2>1, <2>3, <2>4, <2>5, <2>6, <2>9, EmptyRecords, ConstantsOK DEF IInv, TypeOK, SameBut
  <2>13. TypeOK'
    BY <1>0, <1>2, <2>8, <2>12 DEF IInv, TypeOK
  <2>14. CodesKnown'
    BY <1>0, <1>2, <2>6, IdleRecord, CodesStay, IssuesCode DEF IInv, SameBut
  <2>15. ASSUME NEW q \in Requests PROVE RefreshKnown(q)' /\ OthersKnown(q)'
    <3>1. CASE q = r
      BY <3>1, <1>2, IdleRecord, Rests
    <3>2. CASE q # r
      <4>1. RefreshKnown(q) /\ OthersKnown(q)
        BY DEF IInv, RequestsKnown
      <4>2. \A y \in 1 .. next - 1 : hist'.grant[y] = hist.grant[y]
        BY <2>1, <2>6, HistoryFields DEF SameBut, IInv, TypeOK, Pairs
      <4> QED
        BY <3>2, <4>1, <4>2, <1>2, <1>5, Stays DEF IInv
    <3> QED
      BY <3>1, <3>2
  <2> QED
    BY <2>11, <2>13, <2>14, <2>15 DEF IInv, RequestsKnown
<1> QED
  BY <1>3, <1>4, <1>5 DEF Rotate

---------------------------------------------------------------------------
(* Revocations.                                                            *)

LEMMA GrantEnds ==
  ASSUME IInv, NEW g \in Codes, Ended(g), UNCHANGED <<next, replays>>,
         SameBut(hist', hist.parent, hist.grant, hist'.refused, hist.issued, hist.used, hist.approved),
         \A p \in hist'.refused : p \in hist.refused \/ hist.grant[p] = g
  PROVE  /\ EndsGrants /\ hist'.approved = hist.approved
         /\ grants' \in [Codes -> GrantRecords] /\ tokens' \in [Pairs -> TokenRecords]
         /\ superseded' \subseteq Pairs \X Codes /\ hist' \in Histories
<1>1. grants' = [grants EXCEPT ![g] = NoGrant] /\ superseded' = {s \in superseded : s[2] # g}
  BY DEF Ended
<1>2. /\ grants' \in [Codes -> GrantRecords] /\ grants'[g] = NoGrant
      /\ \A h \in Codes : h # g => grants'[h] = grants[h]
  BY <1>1, EmptyRecords DEF IInv, TypeOK
<1>3. g # 0 /\ (Live(g) => grants[g].access = grants[g].refresh /\ grants[g].access \in Pairs)
  BY GrantFacts DEF GrantKnown, IInv, Pairs
<1>4. ~Live(g) => tokens' = tokens
  BY DEF Ended
<1>5. Live(g) => tokens' = [tokens EXCEPT ![grants[g].access] = NoToken]
  BY DEF Ended
<1>6. /\ tokens' \in [Pairs -> TokenRecords]
      /\ \A p \in Pairs : tokens'[p] = tokens[p] \/ tokens'[p].live = FALSE
      /\ \A p \in Pairs : (Live(g) /\ grants[g].access = p) => tokens'[p].live = FALSE
      /\ \A p \in Pairs : ~(Live(g) /\ grants[g].access = p) => tokens'[p] = tokens[p]
  BY <1>3, <1>4, <1>5, EmptyRecords DEF IInv, TypeOK
<1>7. \A p \in Pairs, h \in Codes :
        /\ <<p, h>> \in superseded' => <<p, h>> \in superseded
        /\ <<p, h>> \in superseded => <<p, h>> \in superseded' \/ h = g
  BY <1>1
<1>8. ASSUME NEW h \in Codes, grants'[h] # NoGrant
      PROVE  tokens'[grants[h].refresh] = tokens[grants[h].refresh]
  <2>1. h # g /\ Live(h)
    BY <1>2, <1>8 DEF Live
  <2>2. grants[h].refresh \in Pairs /\ hist.grant[grants[h].refresh] = h
    BY <2>1, GrantFacts DEF GrantKnown, IInv, Pairs
  <2>3. Live(g) => hist.grant[grants[g].access] = g
    BY <1>3, GrantFacts DEF GrantKnown, IInv
  <2> QED
    BY <2>1, <2>2, <2>3, <1>6
<1>9. ASSUME NEW p \in Pairs, tokens'[p].live, hist.grant[p] # 0
      PROVE  grants'[hist.grant[p]] = grants[hist.grant[p]]
  <2>1. tokens'[p] = tokens[p] /\ PairKnown(p) /\ hist.grant[p] \in Codes
    BY <1>6, <1>9, PairFacts DEF IInv
  <2>2. grants[hist.grant[p]].access = p
    BY <1>9, <2>1 DEF PairKnown
  <2>3. hist.grant[p] = g => ~Live(g)
    BY <2>2, <1>6, <1>9
  <2> QED
    BY <2>1, <2>3, <1>2 DEF Live
<1>10. \A p \in hist'.refused : p \in hist.refused \/ (hist.grant[p] # 0 /\ grants'[hist.grant[p]] = NoGrant)
  BY <1>2, <1>3
<1>11. EndsGrants
  BY <1>2, <1>6, <1>7, <1>8, <1>9, <1>10 DEF EndsGrants, SameBut
<1>12. superseded' \subseteq Pairs \X Codes
  BY <1>1 DEF IInv, TypeOK
<1> QED
  BY <1>2, <1>6, <1>11, <1>12 DEF SameBut

LEMMA RejectStep ==
  ASSUME IInv, NEW r \in Requests, RejectGrant(r)
  PROVE  IInv'
<1> DEFINE p == req[r].token
           g == req[r].grant
<1>0. /\ req[r].pc = "reject" /\ Refreshing(r) /\ Unlock(r) /\ Ended(g) /\ Refuse(p)
      /\ UNCHANGED <<now, next, clients, codes, replays>>
  BY DEF RejectGrant, RevokeGrant, Refreshing
<1>1. p \in Pairs /\ hist.grant[p] = g /\ g \in Codes
  BY <1>0, RefreshFacts
<1>2. SameBut(hist', hist.parent, hist.grant, hist.refused \cup {p}, hist.issued, hist.used, hist.approved)
  BY <1>0, <1>1, Refused DEF IInv, TypeOK
<1>3. /\ SameBut(hist', hist.parent, hist.grant, hist'.refused, hist.issued, hist.used, hist.approved)
      /\ \A q \in hist'.refused : q \in hist.refused \/ hist.grant[q] = g
  BY <1>1, <1>2 DEF SameBut
<1>4. /\ EndsGrants /\ hist'.approved = hist.approved
      /\ grants' \in [Codes -> GrantRecords] /\ tokens' \in [Pairs -> TokenRecords]
      /\ superseded' \subseteq Pairs \X Codes /\ hist' \in Histories
  BY <1>0, <1>1, <1>3, GrantEnds
<1>5. req' \in [Requests -> RequestRecords] /\ mu' \in Requests \cup {"free"}
  BY <1>0, Unlocked
<1>6. TypeOK'
  BY <1>0, <1>4, <1>5 DEF IInv, TypeOK
<1> QED
  BY <1>0, <1>4, <1>6, RefreshEnds

LEMMA RevokeStep ==
  ASSUME IInv, NEW r \in Requests, NEW p \in Pairs, RevokeToken(r, p)
  PROVE  IInv'
<1>0. /\ req[r] = Idle
      /\ UNCHANGED <<now, next, clients, codes, grants, superseded, tokens, replays, mu, hist>>
  BY DEF RevokeToken
<1>1. PICK g \in Codes :
        req' = [req EXCEPT ![r] = [Idle EXCEPT !.pc = "revoke", !.token = p, !.grant = g, !.seen = grants[g]]]
  BY FoundIsGrant DEF RevokeToken, ByAccess
<1> DEFINE x == [Idle EXCEPT !.pc = "revoke", !.token = p, !.grant = g, !.seen = grants[g]]
<1>2. "revoke" \in Stages /\ p \in 0 .. MaxPairs /\ g \in 0 .. NumCodes /\ grants[g] \in GrantRecords
  BY ConstantsOK DEF Stages, Pairs, Codes, IInv, TypeOK
<1>3. x \in RequestRecords /\ x.pc = "revoke" /\ x.grant = g
  BY <1>2, IdleRecord DEF RequestRecords
<1>4. req' = [req EXCEPT ![r] = x]
  BY <1>1
<1> HIDE DEF x
<1>5. req'[r] = x
  BY <1>3, <1>4, Requested DEF IInv
<1>6. /\ mu # r /\ mu \in Requests \cup {"free"} /\ codes \in [Codes -> CodeRecords] /\ SameHistory
      /\ clients \in [Clients -> {"absent", "new", "old"}]
  BY <1>0, IdleRecord, HoldsNothing, HistoryStays DEF Refreshing, IInv, TypeOK
<1>7. RefreshKnown(r)' /\ OthersKnown(r)'
  BY <1>0, <1>3, <1>5, <1>6 DEF RefreshKnown, OthersKnown, Refreshing
<1> QED
  BY <1>0, <1>3, <1>4, <1>6, <1>7, Quiet

(* Nothing but the rows changes, or the request that wrote rests.          *)
LEMMA RevocationEnds ==
  ASSUME IInv, NEW g \in Codes, Ended(g), UNCHANGED <<now, next, clients, codes, replays, mu, hist>>,
         req' = req \/ \E r \in Requests : ~Refreshing(r) /\ req' = [req EXCEPT ![r] = Idle]
  PROVE  IInv'
<1>1. SameBut(hist', hist.parent, hist.grant, hist'.refused, hist.issued, hist.used, hist.approved)
  BY DEF SameBut, IInv, TypeOK
<1>2. /\ EndsGrants /\ hist'.approved = hist.approved
      /\ grants' \in [Codes -> GrantRecords] /\ tokens' \in [Pairs -> TokenRecords]
      /\ superseded' \subseteq Pairs \X Codes /\ hist' \in Histories
  BY <1>1, GrantEnds
<1>3. CASE req' = req
  <2>1. TypeOK'
    BY <1>2, <1>3 DEF IInv, TypeOK
  <2> QED
    BY <1>2, <1>3, <2>1, Ending
<1>4. ASSUME NEW r \in Requests, ~Refreshing(r), req' = [req EXCEPT ![r] = Idle] PROVE IInv'
  <2>1. /\ req' \in [Requests -> RequestRecords] /\ req'[r] = Idle
        /\ \A q \in Requests : q # r => req'[q] = req[q]
    BY <1>4, IdleRecord, Requested DEF IInv
  <2>2. TypeOK'
    BY <1>2, <2>1 DEF IInv, TypeOK
  <2>3. mu # r
    BY <1>4, HoldsNothing
  <2>4. ASSUME NEW q \in Requests
        PROVE  \/ req'[q] = req[q] /\ (mu' = q <=> mu = q) /\ (Refreshing(q) => replays' = replays)
               \/ req'[q].pc # "issue" /\ RefreshKnown(q)' /\ OthersKnown(q)'
    <3>1. CASE q = r
      BY <3>1, <2>1, <2>3, IdleRecord, Rests
    <3>2. CASE q # r
      BY <3>2, <2>1
    <3> QED
      BY <3>1, <3>2
  <2> QED
    BY <1>2, <2>2, <2>4, Ending
<1> QED
  BY <1>3, <1>4

LEMMA FinishRevokeStep ==
  ASSUME IInv, NEW r \in Requests, FinishRevoke(r)
  PROVE  IInv'
<1>1. /\ req[r].pc = "revoke" /\ ~Refreshing(r) /\ Ended(req[r].grant) /\ req' = [req EXCEPT ![r] = Idle]
      /\ UNCHANGED <<now, next, clients, codes, replays, mu, hist>>
  BY DEF FinishRevoke, RevokeGrant, Done, Refreshing
<1>2. req[r].grant \in Codes
  BY <1>1 DEF IInv, RequestsKnown, OthersKnown
<1> QED
  BY <1>1, <1>2, RevocationEnds

LEMMA ConnectionStep ==
  ASSUME IInv, NEW g \in Codes, RevokeConnection(g)
  PROVE  IInv'
BY RevocationEnds DEF RevokeConnection, RevokeGrant

LEMMA DeleteTokenStep ==
  ASSUME IInv, NEW p \in Pairs, DeleteAPIToken(p)
  PROVE  IInv'
<1>0. /\ tokens[p].live /\ tokens' = [tokens EXCEPT ![p] = NoToken]
      /\ grants' = [g \in Codes |-> IF grants[g].access = p THEN NoGrant ELSE grants[g]]
      /\ superseded' = {s \in superseded : grants[s[2]].access # p}
      /\ UNCHANGED <<now, next, clients, codes, replays, mu, req, hist>>
  BY DEF DeleteAPIToken
<1>1. /\ tokens' \in [Pairs -> TokenRecords] /\ tokens'[p].live = FALSE
      /\ \A q \in Pairs : q # p => tokens'[q] = tokens[q]
  BY <1>0, EmptyRecords DEF IInv, TypeOK
<1>2. /\ grants' \in [Codes -> GrantRecords]
      /\ \A g \in Codes : /\ grants[g].access = p => grants'[g] = NoGrant
                          /\ grants[g].access # p => grants'[g] = grants[g]
  BY <1>0, EmptyRecords DEF IInv, TypeOK
<1>3. \A q \in Pairs, g \in Codes :
        /\ <<q, g>> \in superseded' => <<q, g>> \in superseded
        /\ <<q, g>> \in superseded => <<q, g>> \in superseded' \/ grants[g].access = p
  BY <1>0
<1>4. ASSUME NEW g \in Codes, grants'[g] # NoGrant
      PROVE  tokens'[grants[g].refresh] = tokens[grants[g].refresh]
  <2>1. grants[g].access # p /\ Live(g)
    BY <1>2, <1>4 DEF Live
  <2>2. grants[g].refresh \in Pairs /\ grants[g].refresh # p
    BY <2>1, GrantFacts DEF GrantKnown, IInv, Pairs
  <2> QED
    BY <2>2, <1>1
<1>5. ASSUME NEW q \in Pairs, tokens'[q].live, hist.grant[q] # 0
      PROVE  grants'[hist.grant[q]] = grants[hist.grant[q]]
  <2>1. q # p /\ tokens[q].live /\ PairKnown(q) /\ hist.grant[q] \in Codes
    BY <1>1, <1>5, PairFacts DEF IInv
  <2>2. grants[hist.grant[q]].access = q
    BY <1>5, <2>1 DEF PairKnown
  <2> QED
    BY <2>1, <2>2, <1>2
<1>6. EndsGrants
  <2>1. \A q \in Pairs : tokens'[q] = tokens[q] \/ tokens'[q].live = FALSE
    BY <1>1
  <2> QED
    BY <2>1, <1>0, <1>2, <1>3, <1>4, <1>5 DEF EndsGrants
<1>7. superseded' \subseteq Pairs \X Codes
  BY <1>0 DEF IInv, TypeOK
<1>8. TypeOK'
  BY <1>0, <1>1, <1>2, <1>7 DEF IInv, TypeOK
<1> QED
  BY <1>0, <1>6, <1>8, Ending

---------------------------------------------------------------------------
(* Tokens of the operator and calls.                                       *)

(* The rows changed and nothing else: requests and codes stay.             *)
LEMMA RowsOnly ==
  ASSUME IInv, TypeOK', BooksKnown', UNCHANGED <<codes, grants, replays>>,
         next' = next \/ next' = next + 1, \A q \in Requests : mu' = q <=> mu = q,
         hist'.grant = hist.grant, hist'.issued = hist.issued, hist'.approved = hist.approved,
         \A q \in Requests : \/ req'[q] = req[q]
                             \/ req'[q].pc # "issue" /\ RefreshKnown(q)' /\ OthersKnown(q)'
  PROVE  IInv'
<1>1. CodesKnown'
  BY CodesStay, IssuesCode DEF IInv
<1>2. ASSUME NEW q \in Requests PROVE RefreshKnown(q)' /\ OthersKnown(q)'
  <2>1. RefreshKnown(q) /\ OthersKnown(q)
    BY DEF IInv, RequestsKnown
  <2>2. CASE req'[q] = req[q]
    BY <2>1, <2>2, Stays DEF IInv
  <2>3. CASE req'[q].pc # "issue" /\ RefreshKnown(q)' /\ OthersKnown(q)'
    BY <2>3
  <2> QED
    BY <2>2, <2>3
<1> QED
  BY <1>1, <1>2 DEF IInv, RequestsKnown

LEMMA CreateTokenStep ==
  ASSUME IInv, NEW resource \in Resources, CreateAPIToken(resource)
  PROVE  IInv'
<1>0. /\ next <= MaxPairs /\ next' = next + 1 /\ tokens' = [tokens EXCEPT ![next] = Token(resource, 0)]
      /\ UNCHANGED <<now, clients, codes, grants, superseded, replays, mu, req, hist>>
  BY DEF CreateAPIToken
<1>1. now \in Nat /\ next \in Pairs /\ next' \in 1 .. MaxPairs + 1 /\ resource \in ResourceNames /\ 0 \in Nat
  BY <1>0, ConstantsOK DEF IInv, TypeOK, Pairs, ResourceNames
<1>2. Token(resource, 0) \in TokenRecords
  BY <1>1, TokenRecord
<1>3. BooksKnown'
  BY <1>0, <1>1, <1>2, IssuingKeeps DEF IInv
<1>4. TypeOK'
  BY <1>0, <1>1, <1>2 DEF IInv, TypeOK
<1> QED
  BY <1>0, <1>3, <1>4, RowsOnly

LEMMA AuthenticateStep ==
  ASSUME IInv, NEW r \in Requests, NEW p \in Pairs, Authenticate(r, p)
  PROVE  IInv'
<1> DEFINE x == [Idle EXCEPT !.pc = "touch", !.token = p]
<1>0. /\ req[r] = Idle /\ tokens[p].live /\ req' = [req EXCEPT ![r] = x]
      /\ UNCHANGED <<now, next, clients, codes, grants, superseded, tokens, replays, mu, hist>>
  BY DEF Authenticate
<1>1. "touch" \in Stages /\ p \in 0 .. MaxPairs
  BY ConstantsOK DEF Stages, Pairs
<1>2. x \in RequestRecords /\ x.pc = "touch" /\ x.token = p
  BY <1>1, IdleRecord DEF RequestRecords
<1> HIDE DEF x
<1>3. req'[r] = x
  BY <1>0, <1>2, Requested DEF IInv
<1>4. p \in 1 .. next' - 1
  <2>1. PairKnown(p) /\ p \in Nat /\ p # 0 /\ next \in Nat
    BY PairFacts, RequestFacts DEF IInv
  <2> QED
    BY <1>0, <2>1 DEF PairKnown
<1>5. /\ mu # r /\ mu \in Requests \cup {"free"} /\ codes \in [Codes -> CodeRecords] /\ SameHistory
      /\ clients \in [Clients -> {"absent", "new", "old"}]
  BY <1>0, IdleRecord, HoldsNothing, HistoryStays DEF Refreshing, IInv, TypeOK
<1>6. RefreshKnown(r)' /\ OthersKnown(r)'
  BY <1>0, <1>2, <1>3, <1>4, <1>5 DEF RefreshKnown, OthersKnown, Refreshing
<1> QED
  BY <1>0, <1>2, <1>5, <1>6, Quiet

LEMMA TouchStep ==
  ASSUME IInv, NEW r \in Requests, Touch(r)
  PROVE  IInv'
<1> DEFINE p == req[r].token
<1>0. req[r].pc = "touch" /\ UNCHANGED <<now, next, clients, codes, grants, superseded, replays, mu>>
  BY DEF Touch
<1>1. p \in 1 .. next - 1 /\ p \in Pairs /\ now \in Nat
  <2>1. p \in 1 .. next - 1
    BY <1>0 DEF IInv, RequestsKnown, OthersKnown
  <2>2. next \in 1 .. MaxPairs + 1 /\ now \in Nat
    BY DEF IInv, TypeOK
  <2> QED
    BY <2>1, <2>2, ConstantsOK DEF Pairs
<1>2. /\ mu # r /\ mu \in Requests \cup {"free"} /\ codes \in [Codes -> CodeRecords]
      /\ clients \in [Clients -> {"absent", "new", "old"}]
  BY <1>0, HoldsNothing DEF Refreshing, IInv, TypeOK
<1>3. CASE Done(r) /\ UNCHANGED <<tokens, hist>>
  <2>1. SameHistory /\ req' = [req EXCEPT ![r] = Idle]
    BY <1>3, HistoryStays DEF IInv, Done
  <2> QED
    BY <1>0, <1>2, <1>3, <2>1, IdleRecord, QuietlyOn
<1>4. CASE /\ tokens[p].live /\ tokens' = [tokens EXCEPT ![p].used = now]
           /\ hist' = IF hist.grant[p] = 0 THEN hist ELSE [hist EXCEPT !.used[hist.grant[p]] = now]
           /\ req' = [req EXCEPT ![r] = [@ EXCEPT !.pc = "audience"]]
  <2> DEFINE x == [req[r] EXCEPT !.pc = "audience"]
             y == [tokens[p] EXCEPT !.used = now]
  <2>1. "audience" \in Stages /\ tokens[p] \in TokenRecords /\ req[r] \in RequestRecords
    BY <1>1, PairFacts, RequestFacts DEF Stages, IInv
  <2>2. x \in RequestRecords /\ x.pc = "audience"
    BY <2>1 DEF RequestRecords
  <2>3. y \in TokenRecords /\ y.live = tokens[p].live /\ y.used = now
    BY <2>1, <1>1 DEF TokenRecords
  <2>4. req' = [req EXCEPT ![r] = x] /\ tokens' = [tokens EXCEPT ![p] = y]
    BY <1>4
  <2>5. y.live = TRUE
    BY <1>4, <2>1, <2>3 DEF TokenRecords
  <2> HIDE DEF x, y, p
  <2>6. SameBut(hist', hist.parent, hist.grant, hist.refused, hist.issued,
                 IF hist.grant[p] = 0 THEN hist.used ELSE [hist.used EXCEPT ![hist.grant[p]] = now],
                 hist.approved)
    <3>1. CASE hist.grant[p] = 0
      BY <1>4, <3>1 DEF SameBut, IInv, TypeOK
    <3>2. CASE hist.grant[p] # 0
      <4>1. hist.grant[p] \in Codes
        BY <1>1, <3>2, PairFacts DEF IInv
      <4>2. hist' = [hist EXCEPT !.used[hist.grant[p]] = now]
        BY <1>4, <3>2
      <4>3. SameBut(hist', hist.parent, hist.grant, hist.refused, hist.issued,
                     [hist.used EXCEPT ![hist.grant[p]] = now], hist.approved)
        BY <1>1, <4>1, <4>2, Used DEF IInv, TypeOK
      <4> QED
        BY <3>2, <4>3
    <3> QED
      BY <3>1, <3>2
  <2>7. UsesToken(p)
    BY <1>0, <1>4, <2>3, <2>4, <2>5, <2>6 DEF UsesToken
  <2>8. BooksKnown'
    BY <1>1, <2>7, UsingKeeps DEF IInv
  <2>9. /\ req' \in [Requests -> RequestRecords] /\ req'[r] = x
        /\ \A q \in Requests : q # r => req'[q] = req[q]
    BY <2>2, <2>4, Requested DEF IInv
  <2>10. tokens' \in [Pairs -> TokenRecords] /\ hist' \in Histories
    BY <2>3, <2>4, <2>6 DEF IInv, TypeOK, SameBut
  <2>11. TypeOK'
    BY <1>0, <2>9, <2>10 DEF IInv, TypeOK
  <2>12. ASSUME NEW q \in Requests
         PROVE  \/ req'[q] = req[q]
                \/ req'[q].pc # "issue" /\ RefreshKnown(q)' /\ OthersKnown(q)'
    <3>1. CASE q = r
      BY <3>1, <1>0, <1>2, <2>2, <2>9, Rests
    <3>2. CASE q # r
      BY <3>2, <2>9
    <3> QED
      BY <3>1, <3>2
  <2>13. hist'.grant = hist.grant /\ hist'.issued = hist.issued /\ hist'.approved = hist.approved
    BY <2>6 DEF SameBut
  <2> QED
    BY <1>0, <2>8, <2>11, <2>12, <2>13, RowsOnly
<1> QED
  BY <1>3, <1>4 DEF Touch

---------------------------------------------------------------------------
(* Every step.                                                             *)

LEMMA InitIInv == Init => IInv
<1> SUFFICES ASSUME Init PROVE IInv
  OBVIOUS
<1> DEFINE empty == [parent |-> [p \in Pairs |-> 0], grant |-> [p \in Pairs |-> 0],
                     replaced |-> [p \in Pairs |-> 0], refused |-> {}, issued |-> [c \in Codes |-> 0],
                     used |-> [g \in Codes |-> 0], approved |-> {}, hurt |-> {}]
<1>1. /\ empty \in Histories /\ empty.parent = [p \in Pairs |-> 0] /\ empty.grant = [p \in Pairs |-> 0]
      /\ empty.refused = {} /\ empty.issued = [c \in Codes |-> 0] /\ empty.approved = {}
  BY ConstantsOK DEF Histories
<1>2. hist = empty
  BY DEF Init
<1> HIDE DEF empty
<1>3. TypeOK
  <2>1. now \in 1 .. MaxTime /\ next \in 1 .. MaxPairs + 1
    BY ConstantsOK DEF Init
  <2>2. /\ clients \in [Clients -> {"absent", "new", "old"}] /\ codes \in [Codes -> CodeRecords]
        /\ grants \in [Codes -> GrantRecords] /\ superseded \subseteq Pairs \X Codes
        /\ tokens \in [Pairs -> TokenRecords] /\ replays \in [Pairs -> ReplayRecords]
        /\ mu \in Requests \cup {"free"} /\ req \in [Requests -> RequestRecords]
    BY EmptyRecords, IdleRecord DEF Init
  <2> QED
    BY <2>1, <2>2, <1>1, <1>2 DEF TypeOK
<1>4. \A g \in Codes : GrantKnown(g)
  BY DEF Init, GrantKnown, Live
<1>5. \A p \in Pairs : PairKnown(p)
  BY <1>1, <1>2, EmptyRecords, ConstantsOK DEF Init, PairKnown, Pairs
<1>6. \A p \in Pairs : ReplayKnown(p) /\ RefusedKnown(p)
  BY <1>1, <1>2, EmptyRecords DEF Init, ReplayKnown, RefusedKnown
<1>7. SupersededKnown /\ RotatesOnce
  BY <1>1, <1>2 DEF Init, SupersededKnown, RotatesOnce
<1>8. \A c \in Codes : CodeKnown(c)
  BY <1>1, <1>2 DEF Init, CodeKnown
<1>9. \A r \in Requests : req[r].pc = "idle" /\ mu # r
  BY IdleRecord, ConstantsOK DEF Init
<1>10. \A r \in Requests : IssueKnown(r) /\ RefreshKnown(r) /\ OthersKnown(r)
  BY <1>9 DEF IssueKnown, RefreshKnown, OthersKnown, Refreshing
<1> QED
  BY <1>3, <1>4, <1>5, <1>6, <1>7, <1>8, <1>10 DEF IInv, BooksKnown, CodesKnown, RequestsKnown

LEMMA StutterIInv == ASSUME IInv, UNCHANGED vars PROVE IInv'
<1>1. TypeOK' /\ EndsGrants
  BY NothingEnds DEF IInv, TypeOK, vars
<1> QED
  BY <1>1, Ending DEF vars

LEMMA NextIInv == ASSUME IInv, Next PROVE IInv'
<1>1. CASE Tick \/ Restart
  BY <1>1, TickStep, RestartStep
<1>2. CASE OAuthAuthorizeDecision
  BY <1>2, ApproveStep DEF OAuthAuthorizeDecision
<1>3. CASE RevokeMCPConnection \/ RevokeAPIToken \/ IssueAPIToken
  BY <1>3, ConnectionStep, DeleteTokenStep, CreateTokenStep
     DEF RevokeMCPConnection, RevokeAPIToken, IssueAPIToken
<1>4. ASSUME NEW r \in Requests, OAuthRegister(r) \/ InsertClient(r) PROVE IInv'
  BY <1>4, RegisterStep, InsertClientStep DEF OAuthRegister
<1>5. ASSUME NEW r \in Requests, OAuthToken(r) \/ CreateGrant(r) PROVE IInv'
  BY <1>5, TakeStep, LockStep, CreateStep DEF OAuthToken
<1>6. ASSUME NEW r \in Requests, ReadGrant(r) \/ Replay(r) \/ Rotate(r) \/ RejectGrant(r) PROVE IInv'
  BY <1>6, ReadStep, ReplayStep, RotateStep, RejectStep
<1>7. ASSUME NEW r \in Requests, OAuthRevoke(r) \/ FinishRevoke(r) PROVE IInv'
  BY <1>7, RevokeStep, FinishRevokeStep DEF OAuthRevoke
<1>8. ASSUME NEW r \in Requests, MCPCall(r) \/ Touch(r) \/ CheckAudience(r) PROVE IInv'
  BY <1>8, AuthenticateStep, TouchStep, CheckAudienceStep DEF MCPCall
<1>9. ASSUME NEW r \in Requests, DatabaseFails(r) PROVE IInv'
  BY <1>9, DatabaseFailsStep
<1> QED
  BY <1>1, <1>2, <1>3, <1>4, <1>5, <1>6, <1>7, <1>8, <1>9 DEF Next

LEMMA InvIsSound == ASSUME IInv PROVE GrantsSound
<1>1. TypeOK /\ RotatesOnce
  BY DEF IInv, BooksKnown
<1>2. \A g \in Codes : Live(g) => /\ tokens[grants[g].access].live
                                  /\ tokens[grants[g].access].used = hist.used[g]
  BY GrantFacts DEF GrantKnown, IInv
<1>3. \A p \in Pairs : (tokens[p].live /\ hist.grant[p] # 0) => grants[hist.grant[p]].access = p
  BY PairFacts DEF PairKnown, IInv
<1>4. RefusalEndsGrant
  BY HistoryFields DEF RefusalEndsGrant, RefusedKnown, IInv, BooksKnown, TypeOK
<1>5. ReplaysCurrent
  BY DEF ReplaysCurrent, RefreshKnown, IInv, RequestsKnown
<1>6. CodeIssuesOnce
  BY DEF CodeIssuesOnce, CodeKnown, IInv, CodesKnown
<1> QED
  BY <1>1, <1>2, <1>3, <1>4, <1>5, <1>6 DEF GrantsSound, TokensHaveGrants, LastUseKept

(* However refreshes, exchanges of codes, calls, revocations, deletions,   *)
(* failing statements and restarts interleave: a token works exactly as    *)
(* long as its grant has it, a token is rotated once, a refused token's    *)
(* grant is over, a replay is current, a code yields one grant, and the    *)
(* last use is not lost.                                                   *)
THEOREM GrantsStaySound == Spec => []GrantsSound
<1>1. Init => IInv
  BY InitIInv
<1>2. IInv /\ [Next]_vars => IInv'
  BY NextIInv, StutterIInv
<1>3. IInv => GrantsSound
  BY InvIsSound
<1> QED
  BY <1>1, <1>2, <1>3, PTL DEF Spec
===============================================================================
