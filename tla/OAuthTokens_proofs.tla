------------------------- MODULE OAuthTokens_proofs -------------------------
(***************************************************************************)
(* Grants, for every set of merchants, grants and requests: a grant dies   *)
(* with the key that approved it, a code or refresh token buys one pair,   *)
(* and a replayed one ends its family.                                     *)
(*                                                                         *)
(* None of the three is inductive.  The first needs what a key change has  *)
(* seen while it holds the merchant row (Holding), the second that a       *)
(* family begins with its code and a token is counted when it is spent     *)
(* (Bought), the third that a mark on a token never comes without the end  *)
(* of its family (Marks) and what the record of a running request is worth *)
(* by now (Knowing).                                                       *)
(***************************************************************************)
EXTENDS OAuthTokens, TLAPS

Presenting == {"start", "rotate", "reuse"}
Working    == Presenting \cup {"exchange", "revoke"}

\* A code has a merchant with a key, and only a used one has a family.
Coded ==
  \A g \in Grants :
    /\ code[g].state # "none" =>
         code[g].merchant \in Merchants /\ key[code[g].merchant] >= 1
    /\ family[g] # "none" => code[g].state = "used"

\* What a key change sees of its merchant is all there is, until it is done.
SeesAll(c) ==
  \A g \in Grants :
    code[g].state # "none" /\ code[g].merchant = call[c].merchant =>
      /\ g \in call[c].seen.codes
      /\ family[g] # "none" => g \in call[c].seen.families

\* The merchant row is held by exactly the key changes under way.
Holding ==
  /\ \A m \in Merchants : holder[m] # None =>
       call[holder[m]].pc = "change" /\ call[holder[m]].merchant = m
  /\ \A c \in Calls : call[c].pc = "change" =>
       /\ call[c].merchant \in Merchants
       /\ holder[call[c].merchant] = c
       /\ key[call[c].merchant] \in 1..(MaxKeys - 1)
       /\ SeesAll(c)

\* Pairs are counted where the code or the token is used up.
Bought ==
  \A g \in Grants :
    /\ spent[g][0] = IF family[g] = "none" THEN 0 ELSE 1
    /\ \A n \in Numbers : spent[g][n] = IF token[g][n] = "spent" THEN 1 ELSE 0
    /\ family[g] = "none" => \A n \in Numbers : token[g][n] = "none"
    /\ \A n, k \in Numbers :
         token[g][n] = "live" /\ token[g][k] = "live" => n = k

Marks == \A g \in Grants : marked[g] # {} => family[g] = "revoked"

\* What a running request took with it still holds when it is used.
KnownBy(c) ==
  LET r == call[c] IN
  /\ r.pc \in Working => r.grant \in Grants
  /\ r.pc \in Presenting => r.n \in Numbers
  /\ r.pc = "exchange" => code[r.grant].state # "none"
  /\ r.late => /\ r.pc \in Presenting \cup {"revoke"} /\ r.n \in Numbers
               /\ token[r.grant][r.n] = "spent"
  /\ r.late /\ r.pc = "revoke" => r.grant \in r.seen.families
  /\ \A g \in r.seen.families : family[g] # "none"
  /\ \A x \in r.seen.tokens : x[1] \in r.seen.families

Knowing == \A c \in Calls : KnownBy(c)

Ended == \A g \in replayed : family[g] # "none" /\ ~Alive(g)

Inv == TypeOK /\ Coded /\ Holding /\ Bought /\ Marks /\ Knowing /\ Ended
           /\ GrantDiesWithKey

---------------------------------------------------------------------------
(* Type correctness.                                                       *)

LEMMA IdleType ==
  ASSUME OAuthAssumption
  PROVE  Idle \in Call /\ NothingSeen \in Seen
<1>1. 0 \in 0..MaxTokens
  BY DEF OAuthAssumption
<1>2. NothingSeen \in Seen
  BY DEF NothingSeen, Seen
<1> QED
  BY <1>1, <1>2 DEF Idle, Call

LEMMA SnapshotType ==
  ASSUME NEW m, NEW g \in Grants
  PROVE  SnapshotOf(m) \in Seen /\ SnapshotOfFamily(g) \in Seen
BY DEF SnapshotOf, SnapshotOfFamily, Seen

LEMMA CodeEnds ==
  ASSUME NEW x \in Code, NEW s \in {"used", "lapsed"}
  PROVE  [x EXCEPT !.state = s] \in Code
BY DEF Code

LEMMA RevokeType ==
  ASSUME TypeOK, NEW seen \in Seen
  PROVE  /\ Revoked(seen.families) \in [Grants -> {"none", "active", "revoked"}]
         /\ Marked(seen.tokens) \in [Grants -> SUBSET Numbers]
         /\ UsedUp(seen.codes) \in [Grants -> Code]
<1>1. Revoked(seen.families) \in [Grants -> {"none", "active", "revoked"}]
  BY DEF TypeOK, Revoked
<1>2. Marked(seen.tokens) \in [Grants -> SUBSET Numbers]
  BY DEF TypeOK, Marked
<1>3. ASSUME NEW g \in Grants
      PROVE  code[g] \in Code /\ [code[g] EXCEPT !.state = "used"] \in Code
  BY CodeEnds DEF TypeOK
<1>4. UsedUp(seen.codes) \in [Grants -> Code]
  BY <1>3 DEF UsedUp
<1> QED
  BY <1>1, <1>2, <1>4

LEMMA CallMoves ==
  ASSUME OAuthAssumption, TypeOK, NEW c \in Calls, NEW y \in Call, call' = [call EXCEPT ![c] = y]
  PROVE  call' \in [Calls -> Call]
BY DEF TypeOK

LEMMA AnsweredType ==
  ASSUME OAuthAssumption, TypeOK, NEW c \in Calls, NEW late, call[c].grant \in Grants,
         Answered(c, late)
  PROVE  call' \in [Calls -> Call] /\ replayed' \subseteq Grants
<1>1. call' \in [Calls -> Call]
  BY IdleType, CallMoves DEF Answered
<1>2. replayed' \subseteq Grants
  BY DEF Answered, TypeOK
<1> QED
  BY <1>1, <1>2

LEMMA GrantTyped ==
  ASSUME OAuthAssumption, TypeOK, NEW g \in Grants, NEW m \in Merchants,
         JoinAndGrant(g, m) \/ Grant(g, m)
  PROVE  TypeOK'
<1>0. 1 \in 0..MaxKeys
  BY DEF OAuthAssumption
<1>1. /\ [state |-> "issued", merchant |-> m, gen |-> 1] \in Code
      /\ [state |-> "issued", merchant |-> m, gen |-> key[m]] \in Code
  BY <1>0 DEF TypeOK, Code
<1>2. CASE JoinAndGrant(g, m)
  BY <1>0, <1>1, <1>2 DEF JoinAndGrant, TypeOK
<1>3. CASE Grant(g, m)
  BY <1>1, <1>3 DEF Grant, Issue, TypeOK
<1> QED
  BY <1>2, <1>3

LEMMA StartTyped ==
  ASSUME OAuthAssumption, TypeOK, NEW c \in Calls, NEW g \in Grants,
         ReadCode(c, g) \/ RevokeStarts(c, g)
  PROVE  TypeOK'
<1>1. CASE ReadCode(c, g)
  <2>1. [Idle EXCEPT !.pc = "exchange", !.grant = g] \in Call
    BY IdleType DEF Idle, Call
  <2>2. call' \in [Calls -> Call]
    BY <1>1, <2>1, CallMoves DEF ReadCode
  <2> QED
    BY <1>1, <2>2 DEF ReadCode, TypeOK
<1>2. CASE RevokeStarts(c, g)
  <2>1. [Idle EXCEPT !.pc = "revoke", !.grant = g, !.seen = SnapshotOfFamily(g)]
          \in Call
    BY IdleType, SnapshotType DEF Idle, Call
  <2>2. call' \in [Calls -> Call]
    BY <1>2, <2>1, CallMoves DEF RevokeStarts
  <2> QED
    BY <1>2, <2>2 DEF RevokeStarts, TypeOK
<1> QED
  BY <1>1, <1>2

LEMMA PresentTyped ==
  ASSUME OAuthAssumption, TypeOK, NEW c \in Calls, NEW g \in Grants,
         NEW n \in Numbers, Present(c, g, n)
  PROVE  TypeOK'
<1>1. n \in 0..MaxTokens
  BY DEF OAuthAssumption, Numbers
<1>2. [Idle EXCEPT !.pc = "start", !.grant = g, !.n = n,
                   !.late = token[g][n] = "spent"] \in Call
  BY <1>1, IdleType DEF Idle, Call
<1>3. CASE Subject(g, n) = "junk"
  BY <1>3 DEF Present, TypeOK
<1>4. CASE Subject(g, n) # "junk"
  <2>1. call' \in [Calls -> Call]
    BY <1>2, <1>4, CallMoves DEF Present
  <2> QED
    BY <1>4, <2>1 DEF Present, TypeOK
<1> QED
  BY <1>3, <1>4

LEMMA LockTyped ==
  ASSUME OAuthAssumption, TypeOK, NEW c \in Calls, NEW m \in Merchants,
         ChangeLocks(c, m)
  PROVE  TypeOK'
<1>1. [Idle EXCEPT !.pc = "change", !.merchant = m, !.seen = SnapshotOf(m)] \in Call
  BY IdleType DEF SnapshotOf, Seen, Idle, Call
<1>2. call' \in [Calls -> Call]
  BY <1>1, CallMoves DEF ChangeLocks
<1> QED
  BY <1>2 DEF ChangeLocks, TypeOK

LEMMA ExchangeTyped ==
  ASSUME OAuthAssumption, TypeOK, NEW c \in Calls, call[c].grant \in Grants, Exchange(c)
  PROVE  TypeOK'
<1> DEFINE g == call[c].grant
<1>1. call' \in [Calls -> Call]
  BY IdleType, CallMoves DEF Exchange
<1>2. CASE UNCHANGED <<code, family, token, spent>>
  BY <1>1, <1>2 DEF Exchange, TypeOK
<1>3. CASE Buy(g)
  <2>1. [code[g] EXCEPT !.state = "used"] \in Code
    BY CodeEnds DEF TypeOK
  <2>2. code' = [code EXCEPT ![g] = [code[g] EXCEPT !.state = "used"]]
    BY <1>3 DEF Buy
  <2>3. code' \in [Grants -> Code]
    BY <2>1, <2>2 DEF TypeOK
  <2>4. family' \in [Grants -> {"none", "active", "revoked"}]
    BY <1>3 DEF Buy, TypeOK
  <2>5. token' \in [Grants -> [Numbers -> {"none", "live", "spent"}]]
    BY <1>3 DEF Buy, TypeOK, Numbers
  <2>6. spent' \in [Grants -> [0..MaxTokens -> 0..2]]
    <3>1. Handed(spent[g][0]) \in 0..2
      BY DEF Handed
    <3> QED
      BY <1>3, <3>1 DEF Buy, TypeOK, OAuthAssumption
  <2> QED
    BY <1>1, <2>3, <2>4, <2>5, <2>6 DEF Exchange, TypeOK
<1> QED
  BY <1>2, <1>3 DEF Exchange

LEMMA RotateTyped ==
  ASSUME OAuthAssumption, TypeOK, NEW c \in Calls, call[c].grant \in Grants, call[c].n \in Numbers,
         Rotate(c)
  PROVE  TypeOK'
<1> DEFINE g == call[c].grant
<1>1. call' \in [Calls -> Call] /\ replayed' \subseteq Grants
  BY AnsweredType DEF Rotate
<1>2. token' \in [Grants -> [Numbers -> {"none", "live", "spent"}]]
  <2>1. PICK n \in Numbers : token' = [token EXCEPT ![g][call[c].n] = "spent",
                                                  ![g][n] = "live"]
    BY DEF Rotate
  <2> QED
    BY <2>1 DEF TypeOK
<1>3. spent' \in [Grants -> [0..MaxTokens -> 0..2]]
  <2>1. Handed(spent[g][call[c].n]) \in 0..2
    BY DEF Handed
  <2> QED
    BY <2>1 DEF Rotate, TypeOK, Numbers, OAuthAssumption
<1> QED
  BY <1>1, <1>2, <1>3 DEF Rotate, TypeOK

LEMMA PassTyped ==
  ASSUME OAuthAssumption, TypeOK, NEW c \in Calls, call[c].pc \in Working => call[c].grant \in Grants,
         RotateStarts(c) \/ RotateFails(c) \/ ReuseStarts(c) \/ Revokes(c)
  PROVE  TypeOK'
<1> DEFINE r == call[c]
<1>0. r \in Call /\ r.seen \in Seen
  BY DEF TypeOK, Call
<1>1. CASE RotateStarts(c)
  <2> DEFINE y == [r EXCEPT !.pc = "rotate",
                            !.alive = family[r.grant] = "active"
                                      /\ due[r.grant] = "fresh"]
  <2>1. y \in Call
    BY <1>0 DEF Call
  <2>2. call' = [call EXCEPT ![c] = y]
    BY <1>1 DEF RotateStarts
  <2>3. call' \in [Calls -> Call]
    BY <2>1, <2>2, CallMoves
  <2> QED
    BY <1>1, <2>3 DEF RotateStarts, TypeOK
<1>2. CASE RotateFails(c)
  <2>1. [r EXCEPT !.pc = "reuse"] \in Call
    BY <1>0 DEF Call
  <2>2. call' = [call EXCEPT ![c] = [r EXCEPT !.pc = "reuse"]]
    BY <1>2 DEF RotateFails
  <2>3. call' \in [Calls -> Call]
    BY <2>1, <2>2, CallMoves
  <2> QED
    BY <1>2, <2>3 DEF RotateFails, TypeOK
<1>3. CASE ReuseStarts(c)
  <2>0. r.grant \in Grants
    BY <1>3 DEF ReuseStarts, Working, Presenting
  <2>1. CASE token[r.grant][r.n] = "spent"
    <3> DEFINE y == [r EXCEPT !.pc = "revoke", !.late = TRUE,
                              !.seen = SnapshotOfFamily(r.grant)]
    <3>1. y \in Call
      BY <1>0, <2>0, SnapshotType DEF Call
    <3>2. call' = [call EXCEPT ![c] = y] /\ UNCHANGED replayed
      BY <1>3, <2>1 DEF ReuseStarts
    <3>3. call' \in [Calls -> Call]
      BY <3>1, <3>2, CallMoves
    <3> QED
      BY <1>3, <3>2, <3>3 DEF ReuseStarts, TypeOK
  <2>2. CASE token[r.grant][r.n] # "spent"
    <3>1. call' \in [Calls -> Call] /\ replayed' \subseteq Grants
      BY <1>3, <2>0, <2>2, AnsweredType DEF ReuseStarts
    <3> QED
      BY <1>3, <3>1 DEF ReuseStarts, TypeOK
  <2> QED
    BY <2>1, <2>2
<1>4. CASE Revokes(c)
  <2>0. r.grant \in Grants
    BY <1>4 DEF Revokes, Working
  <2>1. call' \in [Calls -> Call] /\ replayed' \subseteq Grants
    BY <1>4, <2>0, AnsweredType DEF Revokes
  <2>2. /\ family' \in [Grants -> {"none", "active", "revoked"}]
        /\ marked' \in [Grants -> SUBSET Numbers]
    BY <1>0, <1>4, RevokeType DEF Revokes, Revoke
  <2> QED
    BY <1>4, <2>1, <2>2 DEF Revokes, TypeOK
<1> QED
  BY <1>1, <1>2, <1>3, <1>4

LEMMA EndTyped ==
  ASSUME OAuthAssumption, TypeOK, NEW c \in Calls,
         call[c].pc = "change" => /\ call[c].merchant \in Merchants
                                  /\ key[call[c].merchant] \in 1..(MaxKeys - 1),
         ChangeKey(c) \/ Abandon(c)
  PROVE  TypeOK'
<1>1. CASE ChangeKey(c)
  <2> DEFINE m == call[c].merchant
  <2>0. /\ m \in Merchants /\ key[m] \in 1..(MaxKeys - 1)
        /\ call[c].seen \in Seen
    BY <1>1 DEF ChangeKey, TypeOK, Call
  <2>1. key[m] + 1 \in 0..MaxKeys
    BY <2>0 DEF OAuthAssumption
  <2>2. key' \in [Merchants -> 0..MaxKeys]
    BY <1>1, <2>0, <2>1 DEF ChangeKey, TypeOK
  <2>3. holder' \in [Merchants -> Calls \cup {None}]
    BY <1>1 DEF ChangeKey, TypeOK
  <2>4. call' \in [Calls -> Call]
    BY <1>1, IdleType, CallMoves DEF ChangeKey
  <2>5. /\ code' \in [Grants -> Code]
        /\ family' \in [Grants -> {"none", "active", "revoked"}]
        /\ marked' \in [Grants -> SUBSET Numbers]
    BY <1>1, <2>0, RevokeType DEF ChangeKey
  <2> QED
    BY <1>1, <2>2, <2>3, <2>4, <2>5 DEF ChangeKey, TypeOK
<1>2. CASE Abandon(c)
  <2>1. call' \in [Calls -> Call]
    BY <1>2, IdleType, CallMoves DEF Abandon
  <2> QED
    BY <1>2, <2>1 DEF Abandon, TypeOK
<1> QED
  BY <1>1, <1>2

LEMMA ClockTyped ==
  ASSUME TypeOK, NEW g \in Grants, CodeLapses(g) \/ FamilyAges(g)
  PROVE  TypeOK'
<1>1. CASE CodeLapses(g)
  <2>1. [code[g] EXCEPT !.state = "lapsed"] \in Code
    BY CodeEnds DEF TypeOK
  <2>2. code' = [code EXCEPT ![g] = [code[g] EXCEPT !.state = "lapsed"]]
    BY <1>1 DEF CodeLapses
  <2>3. code' \in [Grants -> Code]
    BY <2>1, <2>2 DEF TypeOK
  <2> QED
    BY <1>1, <2>3 DEF CodeLapses, TypeOK
<1>2. CASE FamilyAges(g)
  BY <1>2 DEF FamilyAges, TypeOK
<1> QED
  BY <1>1, <1>2

---------------------------------------------------------------------------
(* What the steps do to codes, families and requests.                      *)

LEMMA Moved ==
  ASSUME TypeOK, NEW c \in Calls, NEW y, call' = [call EXCEPT ![c] = y]
  PROVE  call'[c] = y /\ \A d \in Calls \ {c} : call'[d] = call[d]
BY DEF TypeOK

LEMMA RevokedFacts ==
  ASSUME TypeOK, NEW gs \in SUBSET Grants, \A g \in gs : family[g] # "none",
         NEW g \in Grants
  PROVE  /\ Revoked(gs)[g] = "none" <=> family[g] = "none"
         /\ g \in gs \/ family[g] = "revoked" => Revoked(gs)[g] = "revoked"
         /\ Revoked(gs)[g] = "active" => family[g] = "active" /\ g \notin gs
BY DEF Revoked, TypeOK

LEMMA UsedUpFacts ==
  ASSUME TypeOK, NEW gs \in SUBSET Grants, NEW g \in Grants
  PROVE  /\ UsedUp(gs)[g].merchant = code[g].merchant
         /\ UsedUp(gs)[g].gen = code[g].gen
         /\ UsedUp(gs)[g].state = "none" <=> code[g].state = "none"
         /\ code[g].state = "used" => UsedUp(gs)[g].state = "used"
         /\ UsedUp(gs)[g].state = "issued" => code[g].state = "issued" /\ g \notin gs
<1>1. code[g] \in Code
  BY DEF TypeOK
<1>2. CASE g \in gs /\ code[g].state = "issued"
  <2>1. UsedUp(gs)[g] = [code[g] EXCEPT !.state = "used"]
    BY <1>2 DEF UsedUp
  <2> QED
    BY <1>1, <1>2, <2>1 DEF Code
<1>3. CASE ~(g \in gs /\ code[g].state = "issued")
  BY <1>3 DEF UsedUp
<1> QED
  BY <1>2, <1>3

LEMMA BuyFacts ==
  ASSUME TypeOK, OAuthAssumption, NEW g \in Grants, Buy(g)
  PROVE  /\ code'[g].state = "used" /\ code'[g].merchant = code[g].merchant
         /\ code'[g].gen = code[g].gen
         /\ family'[g] = "active"
         /\ token'[g][1] = "live" /\ 1 \in Numbers
         /\ \A n \in Numbers \ {1} : token'[g][n] = token[g][n]
         /\ spent'[g][0] = Handed(spent[g][0])
         /\ \A n \in Numbers : spent'[g][n] = spent[g][n]
         /\ \A h \in Grants \ {g} : /\ code'[h] = code[h] /\ family'[h] = family[h]
                                    /\ token'[h] = token[h] /\ spent'[h] = spent[h]
<1>1. code[g] \in Code /\ code'[g] = [code[g] EXCEPT !.state = "used"]
  BY DEF TypeOK, Buy
<1>2. /\ code'[g].state = "used" /\ code'[g].merchant = code[g].merchant
      /\ code'[g].gen = code[g].gen
  BY <1>1 DEF Code
<1>3. 1 \in Numbers /\ 0 \in 0..MaxTokens /\ 0 \notin Numbers
      /\ Numbers \subseteq 0..MaxTokens
  BY DEF Numbers, OAuthAssumption
<1>4. /\ family'[g] = "active"
      /\ token'[g][1] = "live"
      /\ \A n \in Numbers \ {1} : token'[g][n] = token[g][n]
  BY <1>3 DEF TypeOK, Buy
<1>5. /\ spent'[g][0] = Handed(spent[g][0])
      /\ \A n \in Numbers : spent'[g][n] = spent[g][n]
  BY <1>3 DEF TypeOK, Buy
<1>6. \A h \in Grants \ {g} : /\ code'[h] = code[h] /\ family'[h] = family[h]
                               /\ token'[h] = token[h] /\ spent'[h] = spent[h]
  BY DEF TypeOK, Buy
<1> QED
  BY <1>2, <1>3, <1>4, <1>5, <1>6

\* What a revocation or a key change has seen are families.
LEMMA SeenFamilies ==
  ASSUME TypeOK, Knowing, NEW c \in Calls
  PROVE  /\ call[c].seen.families \in SUBSET Grants
         /\ call[c].seen.codes \in SUBSET Grants
         /\ call[c].seen.tokens \in SUBSET (Grants \X Numbers)
         /\ \A g \in call[c].seen.families : family[g] # "none"
         /\ \A x \in call[c].seen.tokens : x[1] \in call[c].seen.families
BY DEF TypeOK, Call, Seen, Knowing, KnownBy

---------------------------------------------------------------------------
(* Each part of the invariant, step by step.                               *)

\* The requests that only move: nothing stored changes.
Moves(c) ==
  \/ \E g \in Grants : \/ ReadCode(c, g) \/ RevokeStarts(c, g)
                       \/ \E n \in Numbers : Present(c, g, n)
  \/ RotateStarts(c) \/ RotateFails(c) \/ ReuseStarts(c)

LEMMA MovesStoreNothing ==
  ASSUME NEW c \in Calls, Moves(c)
  PROVE  UNCHANGED <<key, holder, code, family, token, marked, due, spent>>
BY DEF Moves, ReadCode, RevokeStarts, Present, RotateStarts, RotateFails,
       ReuseStarts

LEMMA CodedStep ==
  ASSUME OAuthAssumption, Inv, [Next]_tokenVars
  PROVE  Coded'
<1> USE DEF Inv
<1>0. \A g \in Grants : code[g] \in Code /\ (code[g].state # "none" =>
        code[g].merchant \in Merchants /\ key[code[g].merchant] >= 1)
        /\ (family[g] # "none" => code[g].state = "used")
  BY DEF TypeOK, Coded
<1>1. CASE UNCHANGED <<key, code, family>>
  BY <1>0, <1>1 DEF Coded
<1>2. ASSUME NEW m \in Merchants, Join(m) PROVE Coded'
  BY <1>0, <1>2 DEF Coded, Join, TypeOK
<1>3. ASSUME NEW g \in Grants, NEW m \in Merchants, JoinAndGrant(g, m)
      PROVE  Coded'
  <2>1. /\ code'[g] = [state |-> "issued", merchant |-> m, gen |-> 1]
        /\ \A h \in Grants \ {g} : code'[h] = code[h]
        /\ key'[m] = 1 /\ \A k \in Merchants \ {m} : key'[k] = key[k]
        /\ family' = family /\ code[g].state = "none" /\ key[m] = 0
    BY <1>3 DEF JoinAndGrant, TypeOK
  <2> QED
    BY <1>0, <2>1 DEF Coded
<1>4. ASSUME NEW g \in Grants, NEW m \in Merchants, Grant(g, m)
      PROVE  Coded'
  <2>1. /\ code'[g] = [state |-> "issued", merchant |-> m, gen |-> key[m]]
        /\ \A h \in Grants \ {g} : code'[h] = code[h]
        /\ UNCHANGED <<key, family>> /\ code[g].state = "none" /\ key[m] >= 1
    BY <1>4 DEF Grant, Issue, TypeOK
  <2> QED
    BY <1>0, <2>1 DEF Coded
<1>5. ASSUME NEW c \in Calls, Exchange(c), Buy(call[c].grant) PROVE Coded'
  <2>1. call[c].grant \in Grants /\ code[call[c].grant].state # "none"
    BY <1>5 DEF Exchange, Knowing, KnownBy, Working
  <2>2. key' = key
    BY <1>5 DEF Exchange
  <2> QED
    BY <1>0, <1>5, <2>1, <2>2, BuyFacts DEF Coded
<1>6. ASSUME NEW c \in Calls, Revokes(c) PROVE Coded'
  <2>1. UNCHANGED <<key, code>> /\ family' = Revoked(call[c].seen.families)
    BY <1>6 DEF Revokes, Revoke
  <2> QED
    BY <1>0, <2>1, SeenFamilies, RevokedFacts DEF Coded
<1>7. ASSUME NEW c \in Calls, ChangeKey(c) PROVE Coded'
  <2> DEFINE m == call[c].merchant
  <2>1. m \in Merchants /\ key[m] \in Nat
    BY <1>7 DEF ChangeKey, Holding, TypeOK
  <2>2. /\ code' = UsedUp(call[c].seen.codes)
        /\ family' = Revoked(call[c].seen.families)
        /\ key'[m] = key[m] + 1 /\ \A k \in Merchants \ {m} : key'[k] = key[k]
    BY <1>7, <2>1 DEF ChangeKey, TypeOK
  <2> QED
    BY <1>0, <2>1, <2>2, SeenFamilies, RevokedFacts, UsedUpFacts DEF Coded
<1>8. ASSUME NEW g \in Grants, CodeLapses(g) PROVE Coded'
  <2>1. /\ code'[g] = [code[g] EXCEPT !.state = "lapsed"] /\ code[g].state = "issued"
        /\ \A h \in Grants \ {g} : code'[h] = code[h]
        /\ UNCHANGED <<key, family>>
    BY <1>8 DEF CodeLapses, TypeOK
  <2>2. code'[g].merchant = code[g].merchant
    BY <1>0, <2>1 DEF Code
  <2> QED
    BY <1>0, <2>1, <2>2 DEF Coded
<1>9. ASSUME NEW c \in Calls,
             Moves(c) \/ Rotate(c) \/ Abandon(c) \/ (\E m \in Merchants : ChangeLocks(c, m))
      PROVE  UNCHANGED <<key, code, family>>
  BY <1>9, MovesStoreNothing DEF Rotate, Abandon, ChangeLocks
<1>10. ASSUME NEW c \in Calls, Exchange(c), ~Buy(call[c].grant)
       PROVE  UNCHANGED <<key, code, family>>
  BY <1>10 DEF Exchange
<1>11. ASSUME NEW g \in Grants, FamilyAges(g) PROVE UNCHANGED <<key, code, family>>
  BY <1>11 DEF FamilyAges
<1> QED
  BY <1>1, <1>2, <1>3, <1>4, <1>5, <1>6, <1>7, <1>8, <1>9, <1>10, <1>11
     DEF Next, Serve, Clock, Moves, tokenVars

\* An exchange that finds its code unspent, and one that does not.
LEMMA Exchanges ==
  ASSUME Inv, NEW c \in Calls, Exchange(c)
  PROVE  LET g == call[c].grant IN
         /\ g \in Grants /\ code[g].state # "none"
         /\ \/ Buy(g) /\ code[g].state = "issued" /\ family[g] = "none"
            \/ UNCHANGED <<code, family, token, spent>>
         /\ holder[code[g].merchant] = None
         /\ call' = [call EXCEPT ![c] = Idle]
         /\ UNCHANGED <<key, holder, marked, due, replayed>>
<1>1. call[c].grant \in Grants /\ code[call[c].grant].state # "none"
  BY DEF Inv, Exchange, Knowing, KnownBy, Working
<1>2. code[call[c].grant].state = "issued" => family[call[c].grant] = "none"
  BY <1>1 DEF Inv, Coded
<1> QED
  BY <1>1, <1>2 DEF Exchange, Unspent, Unlocked

LEMMA MarksStep ==
  ASSUME OAuthAssumption, Inv, [Next]_tokenVars
  PROVE  Marks'
<1> USE DEF Inv
<1>1. CASE UNCHANGED <<marked, family>>
  BY <1>1 DEF Marks
<1>2. ASSUME NEW c \in Calls, Exchange(c) PROVE Marks'
  BY <1>2, Exchanges, BuyFacts DEF Marks
<1>3. ASSUME NEW c \in Calls,
             /\ family' = Revoked(call[c].seen.families)
             /\ marked' = Marked(call[c].seen.tokens)
      PROVE  Marks'
  <2> SUFFICES ASSUME NEW g \in Grants, marked'[g] # {} PROVE family'[g] = "revoked"
    BY DEF Marks
  <2>1. marked[g] # {} \/ \E n \in Numbers : <<g, n>> \in call[c].seen.tokens
    BY <1>3 DEF Marked
  <2>2. CASE marked[g] # {}
    BY <1>3, <2>2, SeenFamilies, RevokedFacts DEF Marks
  <2>3. CASE \E n \in Numbers : <<g, n>> \in call[c].seen.tokens
    <3>1. g \in call[c].seen.families
      BY <2>3, SeenFamilies
    <3> QED
      BY <1>3, <3>1, SeenFamilies, RevokedFacts
  <2> QED
    BY <2>1, <2>2, <2>3
<1>4. ASSUME NEW c \in Calls, Revokes(c) \/ ChangeKey(c) PROVE Marks'
  BY <1>3, <1>4 DEF Revokes, Revoke, ChangeKey
<1>5. ASSUME NEW c \in Calls,
             Moves(c) \/ Rotate(c) \/ Abandon(c) \/ (\E m \in Merchants : ChangeLocks(c, m))
      PROVE  UNCHANGED <<marked, family>>
  BY <1>5, MovesStoreNothing DEF Rotate, Abandon, ChangeLocks
<1>6. ASSUME \/ \E m \in Merchants : Join(m)
             \/ \E g \in Grants, m \in Merchants : JoinAndGrant(g, m) \/ Grant(g, m)
             \/ Clock
      PROVE  UNCHANGED <<marked, family>>
  BY <1>6 DEF Join, JoinAndGrant, Grant, Clock, CodeLapses, FamilyAges
<1> QED
  BY <1>1, <1>2, <1>4, <1>5, <1>6 DEF Next, Serve, Moves, tokenVars

LEMMA BoughtStep ==
  ASSUME OAuthAssumption, Inv, [Next]_tokenVars
  PROVE  Bought'
<1> USE DEF Inv
<1>0. Numbers \subseteq 0..MaxTokens /\ 0 \in 0..MaxTokens /\ 0 \notin Numbers
  BY DEF Numbers, OAuthAssumption
<1>1. CASE UNCHANGED <<spent, family, token>>
  BY <1>1 DEF Bought
<1>2. ASSUME NEW c \in Calls, Exchange(c) PROVE Bought'
  <2> DEFINE g == call[c].grant
  <2>1. CASE UNCHANGED <<code, family, token, spent>>
    BY <2>1 DEF Bought
  <2>2. CASE Buy(g) /\ family[g] = "none"
    <3>1. g \in Grants
      BY <1>2, Exchanges
    <3>2. /\ spent[g][0] = 0 /\ \A n \in Numbers : spent[g][n] = 0 /\ token[g][n] = "none"
      BY <2>2, <3>1 DEF Bought
    <3>3. spent'[g][0] = 1
      BY <2>2, <3>1, <3>2, BuyFacts DEF Handed
    <3> QED
      BY <2>2, <3>1, <3>2, <3>3, BuyFacts DEF Bought
  <2> QED
    BY <1>2, <2>1, <2>2, Exchanges
<1>3. ASSUME NEW c \in Calls, Rotate(c) PROVE Bought'
  <2> DEFINE g == call[c].grant
             k == call[c].n
  <2>1. g \in Grants /\ k \in Numbers /\ token[g][k] = "live" /\ family' = family
    BY <1>3 DEF Rotate, Rotatable, Knowing, KnownBy, Working, Presenting
  <2>2. PICK n \in Numbers :
          Free(g, n) /\ token' = [token EXCEPT ![g][k] = "spent", ![g][n] = "live"]
    BY <1>3 DEF Rotate
  <2>3. n # k /\ token[g][n] = "none"
    BY <2>1, <2>2 DEF Free
  <2>4. /\ token'[g][k] = "spent" /\ token'[g][n] = "live"
        /\ \A j \in Numbers \ {k, n} : token'[g][j] = token[g][j]
        /\ \A h \in Grants \ {g} : token'[h] = token[h]
    BY <2>1, <2>2, <2>3 DEF TypeOK
  <2>5. /\ spent'[g][k] = Handed(spent[g][k])
        /\ \A j \in (0..MaxTokens) \ {k} : spent'[g][j] = spent[g][j]
        /\ \A h \in Grants \ {g} : spent'[h] = spent[h]
    <3>1. spent' = [spent EXCEPT ![g][k] = Handed(spent[g][k])]
      BY <1>3 DEF Rotate
    <3>2. spent \in [Grants -> [0..MaxTokens -> 0..2]] /\ k \in 0..MaxTokens
      BY <1>0, <2>1 DEF TypeOK
    <3> QED
      BY <2>1, <3>1, <3>2
  <2>6. spent'[g][k] = 1
    BY <2>1, <2>5 DEF Bought, Handed
  <2>7. family[g] # "none"
    BY <2>1 DEF Bought
  <2>8. ASSUME NEW j \in Numbers, token[g][j] = "live" PROVE j = k
    BY <2>1, <2>8 DEF Bought
  <2> QED
    BY <1>0, <2>1, <2>3, <2>4, <2>5, <2>6, <2>7, <2>8 DEF Bought
<1>4. ASSUME NEW c \in Calls, Revokes(c) \/ ChangeKey(c) PROVE Bought'
  <2>1. family' = Revoked(call[c].seen.families) /\ UNCHANGED <<token, spent>>
    BY <1>4 DEF Revokes, Revoke, ChangeKey
  <2> QED
    BY <2>1, SeenFamilies, RevokedFacts DEF Bought
<1>5. ASSUME NEW c \in Calls,
             Moves(c) \/ Abandon(c) \/ (\E m \in Merchants : ChangeLocks(c, m))
      PROVE  UNCHANGED <<spent, family, token>>
  BY <1>5, MovesStoreNothing DEF Abandon, ChangeLocks
<1>6. ASSUME \/ \E m \in Merchants : Join(m)
             \/ \E g \in Grants, m \in Merchants : JoinAndGrant(g, m) \/ Grant(g, m)
             \/ Clock
      PROVE  UNCHANGED <<spent, family, token>>
  BY <1>6 DEF Join, JoinAndGrant, Grant, Clock, CodeLapses, FamilyAges
<1> QED
  BY <1>1, <1>2, <1>3, <1>4, <1>5, <1>6 DEF Next, Serve, Moves, tokenVars


LEMMA StaysEnded ==
  ASSUME OAuthAssumption, Inv, [Next]_tokenVars,
         NEW g \in Grants, family[g] # "none", ~Alive(g)
  PROVE  family'[g] # "none" /\ ~(family'[g] = "active" /\ due'[g] # "over")
<1> USE DEF Inv
<1>0. family[g] = "active" => due[g] = "over"
  BY DEF Alive
<1>1. CASE UNCHANGED <<family, due>>
  BY <1>0, <1>1
<1>2. ASSUME NEW c \in Calls, Exchange(c)
      PROVE  family'[g] = family[g] /\ UNCHANGED due
  BY <1>2, Exchanges, BuyFacts
<1>3. ASSUME NEW c \in Calls, Revokes(c) \/ ChangeKey(c)
      PROVE  /\ family'[g] # "none" /\ (family'[g] = "active" => family[g] = "active")
             /\ UNCHANGED due
  <2>1. family' = Revoked(call[c].seen.families) /\ UNCHANGED due
    BY <1>3 DEF Revokes, Revoke, ChangeKey
  <2> QED
    BY <2>1, SeenFamilies, RevokedFacts
<1>4. ASSUME NEW h \in Grants, FamilyAges(h)
      PROVE  UNCHANGED family /\ (due[g] = "over" => due'[g] = "over")
  BY <1>4 DEF FamilyAges, TypeOK
<1>5. ASSUME NEW c \in Calls,
             Moves(c) \/ Rotate(c) \/ Abandon(c) \/ (\E m \in Merchants : ChangeLocks(c, m))
      PROVE  UNCHANGED <<family, due>>
  BY <1>5, MovesStoreNothing DEF Rotate, Abandon, ChangeLocks
<1>6. ASSUME \/ \E m \in Merchants : Join(m)
             \/ \E h \in Grants, m \in Merchants : JoinAndGrant(h, m) \/ Grant(h, m)
             \/ \E h \in Grants : CodeLapses(h)
      PROVE  UNCHANGED <<family, due>>
  BY <1>6 DEF Join, JoinAndGrant, Grant, CodeLapses
<1> QED
  BY <1>0, <1>1, <1>2, <1>3, <1>4, <1>5, <1>6 DEF Next, Serve, Clock, Moves, tokenVars

\* Who presented a spent token and has its answer found the family at its end.
LEMMA NewlyReplayed ==
  ASSUME OAuthAssumption, Inv, [Next]_tokenVars, NEW g \in replayed' \ replayed
  PROVE  /\ g \in Grants /\ family'[g] # "none"
         /\ ~(family'[g] = "active" /\ due'[g] # "over")
<1> USE DEF Inv
<1>1. ASSUME NEW c \in Calls, NEW h \in Grants, NEW n \in Numbers, Present(c, h, n)
      PROVE  /\ g \in Grants /\ family'[g] # "none"
             /\ ~(family'[g] = "active" /\ due'[g] # "over")
  <2>1. g = h /\ token[h][n] = "spent" /\ Subject(h, n) = "junk" /\ UNCHANGED <<family, due>>
    BY <1>1 DEF Present
  <2>2. n \in marked[h] \/ ~Alive(h)
    BY <2>1 DEF Subject
  <2>3. family[h] # "none"
    BY <2>1 DEF Bought
  <2>4. ~Alive(h)
    BY <2>2 DEF Marks, Alive
  <2> QED
    BY <2>1, <2>3, <2>4 DEF Alive
<1>2. ASSUME NEW c \in Calls, Rotate(c) PROVE FALSE
  <2>1. call[c].late
    BY <1>2 DEF Rotate, Answered
  <2>2. token[call[c].grant][call[c].n] = "spent"
    BY <2>1 DEF Knowing, KnownBy
  <2> QED
    BY <1>2, <2>2 DEF Rotate, Rotatable
<1>3. ASSUME NEW c \in Calls, ReuseStarts(c) PROVE FALSE
  <2>1. call[c].late /\ token[call[c].grant][call[c].n] # "spent"
    BY <1>3 DEF ReuseStarts, Answered
  <2> QED
    BY <2>1 DEF Knowing, KnownBy
<1>4. ASSUME NEW c \in Calls, Revokes(c)
      PROVE  g \in Grants /\ family'[g] = "revoked"
  <2>1. /\ call[c].pc = "revoke" /\ call[c].late /\ g = call[c].grant
        /\ family' = Revoked(call[c].seen.families)
    BY <1>4 DEF Revokes, Revoke, Answered
  <2>2. g \in Grants /\ g \in call[c].seen.families
    BY <2>1 DEF Knowing, KnownBy, Working
  <2> QED
    BY <2>1, <2>2, SeenFamilies, RevokedFacts
<1>5. ASSUME \/ \E m \in Merchants : Join(m)
             \/ \E h \in Grants, m \in Merchants : JoinAndGrant(h, m) \/ Grant(h, m)
             \/ Clock
      PROVE  UNCHANGED replayed
  BY <1>5 DEF Join, JoinAndGrant, Grant, Clock, CodeLapses, FamilyAges
<1>6. ASSUME NEW c \in Calls,
             \/ \E h \in Grants : ReadCode(c, h) \/ RevokeStarts(c, h)
             \/ Exchange(c) \/ RotateStarts(c) \/ RotateFails(c) \/ ChangeKey(c)
             \/ Abandon(c) \/ (\E m \in Merchants : ChangeLocks(c, m))
      PROVE  UNCHANGED replayed
  BY <1>6 DEF ReadCode, RevokeStarts, Exchange, RotateStarts, RotateFails, ChangeKey,
              Abandon, ChangeLocks
<1> QED
  BY <1>1, <1>2, <1>3, <1>4, <1>5, <1>6 DEF Next, Serve, tokenVars

LEMMA EndedStep ==
  ASSUME OAuthAssumption, Inv, [Next]_tokenVars
  PROVE  Ended'
<1>1. SUFFICES ASSUME NEW g \in replayed'
               PROVE  family'[g] # "none" /\ ~(family'[g] = "active" /\ due'[g] # "over")
  BY DEF Ended, Alive
<1>2. CASE g \in replayed
  BY <1>2, StaysEnded DEF Inv, Ended, TypeOK
<1>3. CASE g \notin replayed
  BY <1>3, NewlyReplayed
<1> QED
  BY <1>2, <1>3

LEMMA GrantDiesStep ==
  ASSUME OAuthAssumption, Inv, [Next]_tokenVars
  PROVE  GrantDiesWithKey'
<1> USE DEF Inv
<1>0. ASSUME NEW g \in Grants
      PROVE  /\ code[g] \in Code
             /\ code[g].state # "none" =>
                  code[g].merchant \in Merchants /\ key[code[g].merchant] >= 1
             /\ family[g] # "none" => code[g].state = "used"
             /\ code[g].state = "issued" \/ family[g] = "active"
                  => code[g].gen = key[code[g].merchant]
  BY DEF TypeOK, Coded, GrantDiesWithKey
<1>1. CASE UNCHANGED <<key, code, family>>
  BY <1>0, <1>1 DEF GrantDiesWithKey
<1>2. ASSUME NEW m \in Merchants, Join(m) PROVE GrantDiesWithKey'
  <2>1. /\ key[m] = 0 /\ \A k \in Merchants \ {m} : key'[k] = key[k]
        /\ UNCHANGED <<code, family>>
    BY <1>2 DEF Join, TypeOK
  <2>2. \A g \in Grants : code[g].state # "none" => code[g].merchant # m
    BY <1>0, <2>1
  <2> QED
    BY <1>0, <2>1, <2>2 DEF GrantDiesWithKey
<1>3. ASSUME NEW g \in Grants, NEW m \in Merchants, JoinAndGrant(g, m)
      PROVE  GrantDiesWithKey'
  <2>1. /\ code'[g] = [state |-> "issued", merchant |-> m, gen |-> 1]
        /\ \A h \in Grants \ {g} : code'[h] = code[h]
        /\ key'[m] = 1 /\ \A k \in Merchants \ {m} : key'[k] = key[k]
        /\ family' = family /\ key[m] = 0
    BY <1>3 DEF JoinAndGrant, TypeOK
  <2>2. \A h \in Grants : code[h].state # "none" => code[h].merchant # m
    BY <1>0, <2>1
  <2> QED
    BY <1>0, <2>1, <2>2 DEF GrantDiesWithKey
<1>4. ASSUME NEW g \in Grants, NEW m \in Merchants, Grant(g, m)
      PROVE  GrantDiesWithKey'
  <2>1. /\ code'[g] = [state |-> "issued", merchant |-> m, gen |-> key[m]]
        /\ \A h \in Grants \ {g} : code'[h] = code[h]
        /\ UNCHANGED <<key, family>>
    BY <1>4 DEF Grant, Issue, TypeOK
  <2> QED
    BY <1>0, <2>1 DEF GrantDiesWithKey
<1>5. ASSUME NEW c \in Calls, Exchange(c) PROVE GrantDiesWithKey'
  <2>1. CASE Buy(call[c].grant) /\ code[call[c].grant].state = "issued"
    BY <1>0, <1>5, <2>1, Exchanges, BuyFacts DEF GrantDiesWithKey
  <2> QED
    BY <1>0, <1>5, <2>1, Exchanges DEF GrantDiesWithKey
<1>6. ASSUME NEW c \in Calls, Revokes(c) PROVE GrantDiesWithKey'
  <2>1. UNCHANGED <<key, code>> /\ family' = Revoked(call[c].seen.families)
    BY <1>6 DEF Revokes, Revoke
  <2> QED
    BY <1>0, <2>1, SeenFamilies, RevokedFacts DEF GrantDiesWithKey
<1>7. ASSUME NEW c \in Calls, ChangeKey(c) PROVE GrantDiesWithKey'
  <2> DEFINE m == call[c].merchant
  <2>1. m \in Merchants /\ SeesAll(c)
    BY <1>7 DEF ChangeKey, Holding
  <2>2. /\ code' = UsedUp(call[c].seen.codes)
        /\ family' = Revoked(call[c].seen.families)
        /\ \A k \in Merchants \ {m} : key'[k] = key[k]
    BY <1>7, <2>1 DEF ChangeKey, TypeOK
  <2>3. SUFFICES ASSUME NEW g \in Grants, code'[g].state = "issued" \/ family'[g] = "active"
                 PROVE  code'[g].gen = key'[code'[g].merchant]
    BY DEF GrantDiesWithKey
  <2>4. /\ code'[g].merchant = code[g].merchant /\ code'[g].gen = code[g].gen
        /\ code'[g].state = "issued" =>
             code[g].state = "issued" /\ g \notin call[c].seen.codes
    BY <2>2, SeenFamilies, UsedUpFacts
  <2>5. family'[g] = "active" => family[g] = "active" /\ g \notin call[c].seen.families
    BY <2>2, SeenFamilies, RevokedFacts
  <2>6. code[g].state # "none" /\ code[g].merchant # m
    BY <1>0, <2>1, <2>3, <2>4, <2>5 DEF SeesAll
  <2> QED
    BY <1>0, <2>2, <2>3, <2>4, <2>5, <2>6
<1>8. ASSUME NEW g \in Grants, CodeLapses(g) PROVE GrantDiesWithKey'
  <2>1. /\ code'[g] = [code[g] EXCEPT !.state = "lapsed"] /\ code[g].state = "issued"
        /\ \A h \in Grants \ {g} : code'[h] = code[h]
        /\ UNCHANGED <<key, family>>
    BY <1>8 DEF CodeLapses, TypeOK
  <2>2. /\ code'[g].merchant = code[g].merchant /\ code'[g].gen = code[g].gen
        /\ code'[g].state = "lapsed"
    BY <1>0, <2>1 DEF Code
  <2>3. family'[g] # "active"
    BY <1>0, <2>1
  <2>4. ASSUME NEW h \in Grants, code'[h].state = "issued" \/ family'[h] = "active"
        PROVE  code'[h].gen = key'[code'[h].merchant]
    <3>1. h # g
      BY <2>2, <2>3, <2>4
    <3> QED
      BY <1>0, <2>1, <2>4, <3>1
  <2> QED
    BY <2>4 DEF GrantDiesWithKey
<1>9. ASSUME NEW c \in Calls,
             Moves(c) \/ Rotate(c) \/ Abandon(c) \/ (\E m \in Merchants : ChangeLocks(c, m))
      PROVE  UNCHANGED <<key, code, family>>
  BY <1>9, MovesStoreNothing DEF Rotate, Abandon, ChangeLocks
<1>11. ASSUME NEW g \in Grants, FamilyAges(g) PROVE UNCHANGED <<key, code, family>>
  BY <1>11 DEF FamilyAges
<1> QED
  BY <1>1, <1>2, <1>3, <1>4, <1>5, <1>6, <1>7, <1>8, <1>9, <1>11
     DEF Next, Serve, Clock, Moves, tokenVars

---------------------------------------------------------------------------
(* The merchant row and the running requests.                              *)

LEMMA SeesAllKept ==
  ASSUME NEW d \in Calls, SeesAll(d), call'[d] = call[d],
         \A g \in Grants :
           code'[g].state # "none" /\ code'[g].merchant = call[d].merchant =>
             /\ code[g].state # "none" /\ code[g].merchant = call[d].merchant
             /\ family'[g] # "none" => family[g] # "none"
  PROVE  SeesAll(d)'
BY DEF SeesAll

\* Only its own step moves a request, and only a key change is one.
LEMMA OthersStay ==
  ASSUME TypeOK, NEW c \in Calls,
         Moves(c) \/ Rotate(c) \/ Revokes(c) \/ Exchange(c)
  PROVE  /\ call[c].pc # "change" /\ call'[c].pc # "change"
         /\ \A d \in Calls \ {c} : call'[d] = call[d]
<1>0. call[c] \in Call
  BY DEF TypeOK
<1>1. CASE Rotate(c) \/ Revokes(c) \/ Exchange(c)
  <2>1. call' = [call EXCEPT ![c] = Idle] /\ call[c].pc # "change"
    BY <1>1 DEF Rotate, Revokes, Exchange, Answered
  <2> QED
    BY <2>1, Moved DEF Idle
<1>2. ASSUME NEW g \in Grants, ReadCode(c, g) \/ RevokeStarts(c, g)
      PROVE  /\ call[c].pc # "change" /\ call'[c].pc # "change"
             /\ \A d \in Calls \ {c} : call'[d] = call[d]
  <2> DEFINE y == [Idle EXCEPT !.pc = "exchange", !.grant = g]
             z == [Idle EXCEPT !.pc = "revoke", !.grant = g,
                               !.seen = SnapshotOfFamily(g)]
  <2>1. /\ call[c] = Idle
        /\ call' = [call EXCEPT ![c] = y] \/ call' = [call EXCEPT ![c] = z]
    BY <1>2 DEF ReadCode, RevokeStarts
  <2>2. y.pc = "exchange" /\ z.pc = "revoke" /\ Idle.pc = "idle"
    BY DEF Idle
  <2> QED
    BY <2>1, <2>2, Moved
<1>3. ASSUME NEW g \in Grants, NEW n \in Numbers, Present(c, g, n)
      PROVE  /\ call[c].pc # "change" /\ call'[c].pc # "change"
             /\ \A d \in Calls \ {c} : call'[d] = call[d]
  <2>1. CASE Subject(g, n) = "junk"
    BY <1>3, <2>1 DEF Present, Idle
  <2>2. CASE Subject(g, n) # "junk"
    <3> DEFINE y == [Idle EXCEPT !.pc = "start", !.grant = g, !.n = n,
                                 !.late = token[g][n] = "spent"]
    <3>1. call[c] = Idle /\ call' = [call EXCEPT ![c] = y]
      BY <1>3, <2>2 DEF Present
    <3>2. y.pc = "start" /\ Idle.pc = "idle"
      BY DEF Idle
    <3> QED
      BY <3>1, <3>2, Moved
  <2> QED
    BY <2>1, <2>2
<1>4. CASE RotateStarts(c)
  <2> DEFINE y == [call[c] EXCEPT !.pc = "rotate",
                     !.alive = family[call[c].grant] = "active"
                               /\ due[call[c].grant] = "fresh"]
  <2>1. call' = [call EXCEPT ![c] = y] /\ call[c].pc = "start"
    BY <1>4 DEF RotateStarts
  <2>2. y.pc = "rotate"
    BY <1>0 DEF Call
  <2> QED
    BY <2>1, <2>2, Moved
<1>5. CASE RotateFails(c)
  <2> DEFINE y == [call[c] EXCEPT !.pc = "reuse"]
  <2>1. call' = [call EXCEPT ![c] = y] /\ call[c].pc = "rotate"
    BY <1>5 DEF RotateFails
  <2>2. y.pc = "reuse"
    BY <1>0 DEF Call
  <2> QED
    BY <2>1, <2>2, Moved
<1>6. CASE ReuseStarts(c)
  <2> DEFINE y == [call[c] EXCEPT !.pc = "revoke", !.late = TRUE,
                     !.seen = SnapshotOfFamily(call[c].grant)]
  <2>1. call[c].pc = "reuse" /\ (\/ call' = [call EXCEPT ![c] = y]
                                 \/ call' = [call EXCEPT ![c] = Idle])
    BY <1>6 DEF ReuseStarts, Answered
  <2>2. y.pc = "revoke" /\ Idle.pc = "idle"
    BY <1>0 DEF Call, Idle
  <2> QED
    BY <2>1, <2>2, Moved
<1> QED
  BY <1>1, <1>2, <1>3, <1>4, <1>5, <1>6 DEF Moves

\* Nobody takes from the tables what a running request relies on.
LEMMA StoredGrows ==
  ASSUME OAuthAssumption, Inv, [Next]_tokenVars, NEW g \in Grants
  PROVE  /\ family[g] # "none" => family'[g] # "none"
         /\ code[g].state # "none" =>
              code'[g].state # "none" /\ code'[g].merchant = code[g].merchant
         /\ \A n \in Numbers : token[g][n] = "spent" => token'[g][n] = "spent"
<1> USE DEF Inv
<1> DEFINE Grows ==
      /\ family[g] # "none" => family'[g] # "none"
      /\ code[g].state # "none" =>
           code'[g].state # "none" /\ code'[g].merchant = code[g].merchant
      /\ \A n \in Numbers : token[g][n] = "spent" => token'[g][n] = "spent"
<1>0. code[g] \in Code
  BY DEF TypeOK
<1>1. CASE UNCHANGED <<code, family, token>>
  BY <1>1
<1>2. ASSUME NEW h \in Grants, NEW m \in Merchants, JoinAndGrant(h, m) \/ Grant(h, m)
      PROVE  Grows
  <2>1. /\ code[h].state = "none" /\ UNCHANGED <<family, token>>
        /\ \A k \in Grants \ {h} : code'[k] = code[k]
    BY <1>2 DEF JoinAndGrant, Grant, Issue, TypeOK
  <2> QED
    BY <2>1
<1>3. ASSUME NEW c \in Calls, Exchange(c) PROVE Grows
  <2> DEFINE h == call[c].grant
  <2>1. CASE Buy(h) /\ family[h] = "none"
    <3>1. h \in Grants /\ \A n \in Numbers : token[h][n] = "none"
      BY <1>3, <2>1, Exchanges DEF Bought
    <3> QED
      BY <2>1, <3>1, BuyFacts
  <2> QED
    BY <1>3, <2>1, Exchanges
<1>4. ASSUME NEW c \in Calls, Rotate(c) PROVE Grows
  <2> DEFINE h == call[c].grant
             k == call[c].n
  <2>1. PICK n \in Numbers :
          Free(h, n) /\ token' = [token EXCEPT ![h][k] = "spent", ![h][n] = "live"]
    BY <1>4 DEF Rotate
  <2>2. h \in Grants /\ k \in Numbers
    BY <1>4 DEF Rotate, Knowing, KnownBy, Working, Presenting
  <2>3. token[h][n] # "spent"
    BY <2>1 DEF Free
  <2>4. \A j \in Numbers : token[g][j] = "spent" => token'[g][j] = "spent"
    BY <2>1, <2>2, <2>3 DEF TypeOK
  <2> QED
    BY <1>4, <2>4 DEF Rotate
<1>5. ASSUME NEW c \in Calls, Revokes(c) PROVE Grows
  <2>1. UNCHANGED <<code, token>> /\ family' = Revoked(call[c].seen.families)
    BY <1>5 DEF Revokes, Revoke
  <2> QED
    BY <2>1, SeenFamilies, RevokedFacts
<1>6. ASSUME NEW c \in Calls, ChangeKey(c) PROVE Grows
  <2>1. /\ UNCHANGED token /\ family' = Revoked(call[c].seen.families)
        /\ code' = UsedUp(call[c].seen.codes)
    BY <1>6 DEF ChangeKey
  <2> QED
    BY <2>1, SeenFamilies, RevokedFacts, UsedUpFacts
<1>7. ASSUME NEW h \in Grants, CodeLapses(h) PROVE Grows
  <2>1. /\ code' = [code EXCEPT ![h] = [code[h] EXCEPT !.state = "lapsed"]]
        /\ UNCHANGED <<family, token>>
    BY <1>7 DEF CodeLapses
  <2>2. CASE g = h
    <3>1. code'[g] = [code[g] EXCEPT !.state = "lapsed"]
      BY <2>1, <2>2 DEF TypeOK
    <3>2. code'[g].state = "lapsed" /\ code'[g].merchant = code[g].merchant
      BY <1>0, <3>1 DEF Code
    <3> QED
      BY <2>1, <3>2
  <2>3. CASE g # h
    BY <2>1, <2>3 DEF TypeOK
  <2> QED
    BY <2>2, <2>3
<1>8. ASSUME NEW c \in Calls,
             Moves(c) \/ Abandon(c) \/ (\E m \in Merchants : ChangeLocks(c, m))
      PROVE  UNCHANGED <<code, family, token>>
  BY <1>8, MovesStoreNothing DEF Abandon, ChangeLocks
<1>9. ASSUME (\E m \in Merchants : Join(m)) \/ (\E h \in Grants : FamilyAges(h))
      PROVE  UNCHANGED <<code, family, token>>
  BY <1>9 DEF Join, FamilyAges
<1> QED
  BY <1>1, <1>2, <1>3, <1>4, <1>5, <1>6, <1>7, <1>8, <1>9
     DEF Next, Serve, Clock, Moves, tokenVars


LEMMA HoldingStep ==
  ASSUME OAuthAssumption, Inv, [Next]_tokenVars
  PROVE  Holding'
<1> USE DEF Inv
<1>0. /\ \A m \in Merchants : holder[m] # None =>
           /\ holder[m] \in Calls
           /\ call[holder[m]].pc = "change" /\ call[holder[m]].merchant = m
      /\ \A c \in Calls : call[c].pc = "change" =>
           /\ call[c].merchant \in Merchants
           /\ holder[call[c].merchant] = c
           /\ key[call[c].merchant] \in 1..(MaxKeys - 1)
           /\ SeesAll(c)
      /\ None \notin Calls
  BY DEF Holding, TypeOK, OAuthAssumption
<1>1. CASE UNCHANGED <<key, holder, code, family, call>>
  BY <1>1 DEF Holding, SeesAll
<1>2. ASSUME NEW m \in Merchants, NEW g \in Grants, JoinAndGrant(g, m)
      PROVE  Holding'
  <2>1. /\ key[m] = 0 /\ \A k \in Merchants \ {m} : key'[k] = key[k]
        /\ UNCHANGED <<holder, family, call>>
        /\ \A h \in Grants : code'[h] = code[h] \/ code'[h].merchant = m
    BY <1>2 DEF JoinAndGrant, TypeOK
  <2>2. \A c \in Calls : call[c].pc = "change" => call[c].merchant # m
    BY <1>0, <2>1
  <2>3. \A c \in Calls : call[c].pc = "change" => SeesAll(c)'
    BY <1>0, <2>1, <2>2, SeesAllKept
  <2> QED
    BY <1>0, <2>1, <2>2, <2>3 DEF Holding
<1>3. ASSUME NEW m \in Merchants, NEW g \in Grants, Grant(g, m)
      PROVE  Holding'
  <2>1. /\ holder[m] = None /\ UNCHANGED <<key, holder, family, call>>
        /\ \A h \in Grants : code'[h] = code[h] \/ code'[h].merchant = m
    BY <1>3 DEF Grant, Issue, TypeOK
  <2>2. \A c \in Calls : call[c].pc = "change" => call[c].merchant # m
    BY <1>0, <2>1
  <2>3. \A c \in Calls : call[c].pc = "change" => SeesAll(c)'
    BY <1>0, <2>1, <2>2, SeesAllKept
  <2> QED
    BY <1>0, <2>1, <2>2, <2>3 DEF Holding
<1>4. ASSUME NEW c \in Calls, Exchange(c) PROVE Holding'
  <2> DEFINE g == call[c].grant
  <2>1. /\ g \in Grants /\ holder[code[g].merchant] = None
        /\ UNCHANGED <<key, holder>>
    BY <1>4, Exchanges
  <2>2. /\ call[c].pc # "change" /\ call'[c].pc # "change"
        /\ \A d \in Calls \ {c} : call'[d] = call[d]
    BY <1>4, OthersStay
  <2>3. \A h \in Grants : /\ code'[h].merchant = code[h].merchant
                          /\ code'[h].state # "none" => code[h].state # "none"
                          /\ h # g => family'[h] = family[h]
    <3>1. CASE Buy(g)
      BY <1>4, <3>1, Exchanges, BuyFacts
    <3>2. CASE UNCHANGED <<code, family>>
      BY <3>2
    <3> QED
      BY <1>4, <3>1, <3>2, Exchanges
  <2>4. \A d \in Calls : call[d].pc = "change" => call[d].merchant # code[g].merchant
    BY <1>0, <2>1
  <2>5. \A d \in Calls \ {c} : call[d].pc = "change" => SeesAll(d)'
    BY <1>0, <2>2, <2>3, <2>4, SeesAllKept
  <2> QED
    BY <1>0, <2>1, <2>2, <2>5 DEF Holding
<1>5. ASSUME NEW c \in Calls, Moves(c) \/ Rotate(c) \/ Revokes(c) PROVE Holding'
  <2>1. /\ call[c].pc # "change" /\ call'[c].pc # "change"
        /\ \A d \in Calls \ {c} : call'[d] = call[d]
    BY <1>5, OthersStay
  <2>2. /\ UNCHANGED <<key, holder, code>>
        /\ family' = family \/ family' = Revoked(call[c].seen.families)
    BY <1>5, MovesStoreNothing DEF Rotate, Revokes, Revoke
  <2>3. \A g \in Grants : family'[g] # "none" => family[g] # "none"
    BY <2>2, SeenFamilies, RevokedFacts
  <2>4. \A d \in Calls \ {c} : call[d].pc = "change" => SeesAll(d)'
    BY <1>0, <2>1, <2>2, <2>3, SeesAllKept
  <2> QED
    BY <1>0, <2>1, <2>2, <2>4 DEF Holding
<1>6. ASSUME NEW g \in Grants, CodeLapses(g) PROVE Holding'
  <2>1. /\ code'[g] = [code[g] EXCEPT !.state = "lapsed"] /\ code[g].state = "issued"
        /\ \A h \in Grants \ {g} : code'[h] = code[h]
        /\ UNCHANGED <<key, holder, family, call>>
    BY <1>6 DEF CodeLapses, TypeOK
  <2>2. code'[g].merchant = code[g].merchant
    BY <2>1 DEF TypeOK, Code
  <2>3. \A h \in Grants : /\ code'[h].merchant = code[h].merchant
                          /\ code'[h].state # "none" => code[h].state # "none"
    BY <2>1, <2>2
  <2>4. \A d \in Calls : call[d].pc = "change" => SeesAll(d)'
    BY <1>0, <2>1, <2>3, SeesAllKept
  <2> QED
    BY <1>0, <2>1, <2>4 DEF Holding
<1>7. ASSUME NEW c \in Calls, NEW m \in Merchants, ChangeLocks(c, m)
      PROVE  Holding'
  <2> DEFINE y == [Idle EXCEPT !.pc = "change", !.merchant = m, !.seen = SnapshotOf(m)]
  <2>1. /\ holder[m] = None /\ key[m] \in 1..(MaxKeys - 1) /\ call[c] = Idle
        /\ call' = [call EXCEPT ![c] = y]
        /\ UNCHANGED <<key, code, family>>
        /\ holder'[m] = c /\ \A k \in Merchants \ {m} : holder'[k] = holder[k]
    BY <1>7 DEF ChangeLocks, TypeOK
  <2>2. /\ y.pc = "change" /\ y.merchant = m /\ y.seen = SnapshotOf(m)
        /\ Idle.pc = "idle"
    BY DEF Idle
  <2>3. call'[c] = y /\ \A d \in Calls \ {c} : call'[d] = call[d]
    BY <2>1, Moved
  <2> HIDE DEF y
  <2>4. SeesAll(c)'
    <3>1. \A g \in Grants : code[g].state # "none" /\ code[g].merchant = m =>
            /\ g \in SnapshotOf(m).codes
            /\ family[g] # "none" => g \in SnapshotOf(m).families
      BY DEF SnapshotOf, Stands
    <3> QED
      BY <2>1, <2>2, <2>3, <3>1 DEF SeesAll
  <2>5. \A d \in Calls \ {c} : call[d].pc = "change" => SeesAll(d)'
    BY <1>0, <2>1, <2>3, SeesAllKept
  <2> QED
    BY <1>0, <2>1, <2>2, <2>3, <2>4, <2>5 DEF Holding
<1>8. ASSUME NEW c \in Calls, ChangeKey(c) PROVE Holding'
  <2> DEFINE m == call[c].merchant
  <2>1. m \in Merchants /\ holder[m] = c /\ call[c].pc = "change"
    BY <1>0, <1>8 DEF ChangeKey
  <2>2. /\ code' = UsedUp(call[c].seen.codes)
        /\ family' = Revoked(call[c].seen.families)
        /\ call' = [call EXCEPT ![c] = Idle]
        /\ holder'[m] = None /\ \A k \in Merchants \ {m} : holder'[k] = holder[k]
        /\ \A k \in Merchants \ {m} : key'[k] = key[k]
    BY <1>8, <2>1 DEF ChangeKey, TypeOK
  <2>3. call'[c] = Idle /\ \A d \in Calls \ {c} : call'[d] = call[d]
    BY <2>2, Moved
  <2>4. \A g \in Grants : /\ code'[g].merchant = code[g].merchant
                          /\ code'[g].state # "none" => code[g].state # "none"
                          /\ family'[g] # "none" => family[g] # "none"
    BY <2>2, SeenFamilies, RevokedFacts, UsedUpFacts
  <2>5. \A d \in Calls \ {c} : call[d].pc = "change" =>
          SeesAll(d)' /\ call[d].merchant # m
    BY <1>0, <2>1, <2>3, <2>4, SeesAllKept
  <2>6. \A k \in Merchants \ {m} : holder[k] # c
    BY <1>0, <2>1
  <2> QED
    BY <1>0, <2>2, <2>3, <2>5, <2>6 DEF Holding, Idle
<1>9. ASSUME NEW c \in Calls, Abandon(c) PROVE Holding'
  <2>1. /\ call' = [call EXCEPT ![c] = Idle]
        /\ \A m \in Merchants :
             holder'[m] = IF holder[m] = c THEN None ELSE holder[m]
        /\ UNCHANGED <<key, code, family>>
    BY <1>9 DEF Abandon
  <2>2. call'[c] = Idle /\ \A d \in Calls \ {c} : call'[d] = call[d]
    BY <2>1, Moved
  <2>3. \A d \in Calls \ {c} : call[d].pc = "change" => SeesAll(d)'
    BY <1>0, <2>1, <2>2, SeesAllKept
  <2> QED
    BY <1>0, <2>1, <2>2, <2>3 DEF Holding, Idle
<1>10. ASSUME NEW g \in Grants, FamilyAges(g)
       PROVE  UNCHANGED <<key, holder, code, family, call>>
  BY <1>10 DEF FamilyAges
<1>11. ASSUME NEW m \in Merchants, Join(m) PROVE Holding'
  <2>1. /\ key[m] = 0 /\ \A k \in Merchants \ {m} : key'[k] = key[k]
        /\ UNCHANGED <<holder, code, family, call>>
    BY <1>11 DEF Join, TypeOK
  <2>2. \A c \in Calls : call[c].pc = "change" => call[c].merchant # m /\ SeesAll(c)'
    BY <1>0, <2>1, SeesAllKept
  <2> QED
    BY <1>0, <2>1, <2>2 DEF Holding
<1> QED
  BY <1>1, <1>2, <1>3, <1>4, <1>5, <1>6, <1>7, <1>8, <1>9, <1>10, <1>11
     DEF Next, Serve, Clock, Moves, tokenVars


LEMMA KnowsStill ==
  ASSUME OAuthAssumption, Inv, [Next]_tokenVars, NEW d \in Calls, call'[d] = call[d]
  PROVE  KnownBy(d)'
<1>1. call[d] \in Call /\ KnownBy(d)
  BY DEF Inv, TypeOK, Knowing
<1>2. \A g \in call[d].seen.families : family'[g] # "none"
  BY <1>1, StoredGrows, SeenFamilies DEF Inv
<1>3. call[d].pc = "exchange" => code'[call[d].grant].state # "none"
  BY <1>1, StoredGrows DEF KnownBy, Working
<1>4. call[d].late => token'[call[d].grant][call[d].n] = "spent"
  BY <1>1, StoredGrows DEF KnownBy, Working
<1> QED
  BY <1>1, <1>2, <1>3, <1>4 DEF KnownBy

LEMMA IdleKnows ==
  ASSUME NEW c \in Calls, call'[c] = Idle
  PROVE  KnownBy(c)'
BY DEF KnownBy, Idle, NothingSeen, Working, Presenting

LEMMA FamilySeen ==
  ASSUME NEW g, NEW m, Inv
  PROVE  /\ SnapshotOfFamily(g).families = {g}
         /\ \A x \in SnapshotOfFamily(g).tokens : x[1] = g
         /\ \A h \in SnapshotOf(m).families : family[h] # "none"
         /\ \A x \in SnapshotOf(m).tokens : x[1] \in SnapshotOf(m).families
<1>1. \A x \in SnapshotOf(m).tokens : x[1] \in SnapshotOf(m).families
  BY DEF SnapshotOf, Inv, Bought
<1> QED
  BY <1>1 DEF SnapshotOf, SnapshotOfFamily

LEMMA KnowingStep ==
  ASSUME OAuthAssumption, Inv, [Next]_tokenVars
  PROVE  Knowing'
<1> USE DEF Inv
<1>0. \A c \in Calls : call[c] \in Call /\ KnownBy(c)
  BY DEF TypeOK, Knowing
<1>1. CASE UNCHANGED call
  BY <1>1, KnowsStill DEF Knowing
<1>2. ASSUME NEW c \in Calls, NEW y, call' = [call EXCEPT ![c] = y],
             call'[c] = y => KnownBy(c)'
      PROVE  Knowing'
  BY <1>2, Moved, KnowsStill DEF Knowing
<1>3. ASSUME NEW c \in Calls, call' = [call EXCEPT ![c] = Idle] PROVE Knowing'
  BY <1>2, <1>3, IdleKnows
<1>4. ASSUME NEW c \in Calls, NEW g \in Grants, ReadCode(c, g) PROVE Knowing'
  <2> DEFINE y == [Idle EXCEPT !.pc = "exchange", !.grant = g]
  <2>1. call' = [call EXCEPT ![c] = y] /\ code'[g].state = "issued"
    BY <1>4 DEF ReadCode
  <2>2. /\ y.pc = "exchange" /\ y.grant = g /\ ~y.late
        /\ y.seen.families = {} /\ y.seen.tokens = {}
    BY DEF Idle, NothingSeen
  <2>3. call'[c] = y => KnownBy(c)'
    BY <2>1, <2>2 DEF KnownBy, Working, Presenting
  <2> QED
    BY <1>2, <2>1, <2>3
<1>5. ASSUME NEW c \in Calls, NEW g \in Grants, RevokeStarts(c, g) PROVE Knowing'
  <2> DEFINE y == [Idle EXCEPT !.pc = "revoke", !.grant = g, !.seen = SnapshotOfFamily(g)]
  <2>1. call' = [call EXCEPT ![c] = y] /\ family'[g] # "none"
    BY <1>5 DEF RevokeStarts
  <2>2. y.pc = "revoke" /\ y.grant = g /\ ~y.late /\ y.seen = SnapshotOfFamily(g)
    BY DEF Idle
  <2> HIDE DEF y
  <2>3. call'[c] = y => KnownBy(c)'
    BY <2>1, <2>2, FamilySeen DEF KnownBy, Working, Presenting
  <2> QED
    BY <1>2, <2>1, <2>3
<1>6. ASSUME NEW c \in Calls, NEW g \in Grants, NEW n \in Numbers, Present(c, g, n)
      PROVE  Knowing'
  <2>1. CASE Subject(g, n) = "junk"
    BY <1>1, <1>6, <2>1 DEF Present
  <2>2. CASE Subject(g, n) # "junk"
    <3> DEFINE y == [Idle EXCEPT !.pc = "start", !.grant = g, !.n = n,
                                 !.late = token[g][n] = "spent"]
    <3>1. call' = [call EXCEPT ![c] = y] /\ token' = token
      BY <1>6, <2>2 DEF Present
    <3>2. /\ y.pc = "start" /\ y.grant = g /\ y.n = n /\ y.late = (token[g][n] = "spent")
          /\ y.seen.families = {} /\ y.seen.tokens = {}
      BY DEF Idle, NothingSeen
    <3>3. call'[c] = y => KnownBy(c)'
      BY <3>1, <3>2 DEF KnownBy, Working, Presenting
    <3> QED
      BY <1>2, <3>1, <3>3
  <2> QED
    BY <2>1, <2>2
<1>7. ASSUME NEW c \in Calls, RotateStarts(c) PROVE Knowing'
  <2> DEFINE y == [call[c] EXCEPT !.pc = "rotate",
                     !.alive = family[call[c].grant] = "active"
                               /\ due[call[c].grant] = "fresh"]
  <2>1. /\ call' = [call EXCEPT ![c] = y] /\ call[c].pc = "start"
        /\ UNCHANGED <<family, token>>
    BY <1>7 DEF RotateStarts
  <2>2. /\ y.pc = "rotate" /\ y.grant = call[c].grant /\ y.n = call[c].n
        /\ y.late = call[c].late /\ y.seen = call[c].seen
    BY <1>0 DEF Call
  <2>3. call'[c] = y => KnownBy(c)'
    BY <1>0, <2>1, <2>2 DEF KnownBy, Working, Presenting
  <2> QED
    BY <1>2, <2>1, <2>3
<1>8. ASSUME NEW c \in Calls, RotateFails(c) PROVE Knowing'
  <2> DEFINE y == [call[c] EXCEPT !.pc = "reuse"]
  <2>1. /\ call' = [call EXCEPT ![c] = y] /\ call[c].pc = "rotate"
        /\ UNCHANGED <<family, token>>
    BY <1>8 DEF RotateFails
  <2>2. /\ y.pc = "reuse" /\ y.grant = call[c].grant /\ y.n = call[c].n
        /\ y.late = call[c].late /\ y.seen = call[c].seen
    BY <1>0 DEF Call
  <2>3. call'[c] = y => KnownBy(c)'
    BY <1>0, <2>1, <2>2 DEF KnownBy, Working, Presenting
  <2> QED
    BY <1>2, <2>1, <2>3
<1>9. ASSUME NEW c \in Calls, ReuseStarts(c) PROVE Knowing'
  <2> DEFINE g == call[c].grant
             y == [call[c] EXCEPT !.pc = "revoke", !.late = TRUE,
                                  !.seen = SnapshotOfFamily(g)]
  <2>1. g \in Grants /\ call[c].n \in Numbers
    BY <1>0, <1>9 DEF ReuseStarts, KnownBy, Working, Presenting
  <2>2. CASE token[g][call[c].n] = "spent"
    <3>1. call' = [call EXCEPT ![c] = y] /\ UNCHANGED <<family, token>>
      BY <1>9, <2>2 DEF ReuseStarts
    <3>2. /\ y.pc = "revoke" /\ y.grant = g /\ y.n = call[c].n
          /\ y.seen = SnapshotOfFamily(g)
      BY <1>0 DEF Call
    <3>3. family[g] # "none"
      BY <2>1, <2>2 DEF Bought
    <3> HIDE DEF y
    <3>4. call'[c] = y => KnownBy(c)'
      BY <2>1, <2>2, <3>1, <3>2, <3>3, FamilySeen DEF KnownBy, Working, Presenting
    <3> QED
      BY <1>2, <3>1, <3>4
  <2>3. CASE token[g][call[c].n] # "spent"
    BY <1>3, <1>9, <2>3 DEF ReuseStarts, Answered
  <2> QED
    BY <2>2, <2>3
<1>10. ASSUME NEW c \in Calls, NEW m \in Merchants, ChangeLocks(c, m) PROVE Knowing'
  <2> DEFINE y == [Idle EXCEPT !.pc = "change", !.merchant = m, !.seen = SnapshotOf(m)]
  <2>1. call' = [call EXCEPT ![c] = y] /\ UNCHANGED family
    BY <1>10 DEF ChangeLocks
  <2>2. y.pc = "change" /\ ~y.late /\ y.seen = SnapshotOf(m)
    BY DEF Idle
  <2>3. call'[c] = y => KnownBy(c)'
    BY <2>1, <2>2, FamilySeen DEF KnownBy, Working, Presenting
  <2> QED
    BY <1>2, <2>1, <2>3
<1>11. ASSUME NEW c \in Calls,
              Exchange(c) \/ Rotate(c) \/ Revokes(c) \/ ChangeKey(c) \/ Abandon(c)
       PROVE  Knowing'
  BY <1>3, <1>11 DEF Exchange, Rotate, Revokes, Answered, ChangeKey, Abandon
<1>12. ASSUME \/ \E m \in Merchants : Join(m)
              \/ \E g \in Grants, m \in Merchants : JoinAndGrant(g, m) \/ Grant(g, m)
              \/ Clock
       PROVE  UNCHANGED call
  BY <1>12 DEF Join, JoinAndGrant, Grant, Clock, CodeLapses, FamilyAges
<1> QED
  BY <1>1, <1>4, <1>5, <1>6, <1>7, <1>8, <1>9, <1>10, <1>11, <1>12
     DEF Next, Serve, tokenVars

---------------------------------------------------------------------------
(* The invariant.                                                          *)

LEMMA TypeStep ==
  ASSUME OAuthAssumption, Inv, [Next]_tokenVars
  PROVE  TypeOK'
<1> USE DEF Inv
<1>1. CASE UNCHANGED tokenVars
  BY <1>1 DEF TypeOK, tokenVars
<1>2. ASSUME NEW m \in Merchants, Join(m) PROVE TypeOK'
  BY <1>2 DEF Join, TypeOK, OAuthAssumption
<1>3. ASSUME NEW c \in Calls, Serve(c) PROVE TypeOK'
  <2>1. /\ call[c].pc \in Working => call[c].grant \in Grants
        /\ call[c].pc \in Presenting => call[c].n \in Numbers
        /\ call[c].pc = "change" => /\ call[c].merchant \in Merchants
                                    /\ key[call[c].merchant] \in 1..(MaxKeys - 1)
    BY DEF Knowing, KnownBy, Holding
  <2>2. CASE Exchange(c)
    BY <2>1, <2>2, ExchangeTyped DEF Exchange, Working
  <2>3. CASE Rotate(c)
    BY <2>1, <2>3, RotateTyped DEF Rotate, Working, Presenting
  <2> QED
    BY <1>3, <2>1, <2>2, <2>3, StartTyped, PresentTyped, LockTyped, PassTyped,
       EndTyped DEF Serve
<1>4. ASSUME NEW c \in Calls, ChangeKey(c) PROVE TypeOK'
  BY <1>4, EndTyped DEF Holding
<1> QED
  BY <1>1, <1>2, <1>3, <1>4, GrantTyped, ClockTyped DEF Next, Clock

LEMMA InvInit == OAuthAssumption /\ Init => Inv
<1> SUFFICES ASSUME OAuthAssumption, Init PROVE Inv
  OBVIOUS
<1>1. TypeOK
  <2>1. [state |-> "none", merchant |-> None, gen |-> 0] \in Code
    BY DEF Code, OAuthAssumption
  <2> QED
    BY <2>1, IdleType DEF Init, TypeOK, OAuthAssumption
<1>2. \A g \in Grants : code[g].state = "none" /\ family[g] = "none"
  BY DEF Init
<1>3. \A c \in Calls : call[c] = Idle
  BY DEF Init
<1>4. Coded /\ GrantDiesWithKey /\ Marks /\ Ended
  BY <1>2 DEF Init, Coded, GrantDiesWithKey, Marks, Ended
<1>5. Holding
  BY <1>3 DEF Init, Holding, Idle
<1>6. Bought
  BY DEF Init, Bought, Numbers, OAuthAssumption
<1>7. Knowing
  BY <1>3 DEF Knowing, KnownBy, Idle, NothingSeen, Working, Presenting
<1> QED
  BY <1>1, <1>4, <1>5, <1>6, <1>7 DEF Inv

LEMMA InvStep ==
  ASSUME OAuthAssumption, Inv, [Next]_tokenVars
  PROVE  Inv'
BY TypeStep, CodedStep, HoldingStep, BoughtStep, MarksStep, KnowingStep, EndedStep,
   GrantDiesStep DEF Inv

---------------------------------------------------------------------------
(* What a sign-in that issues the codes may rely on.                       *)

\* Requests, key changes and the clock neither issue a code nor give it to
\* another merchant, and no key is taken back.
LEMMA Upkeep ==
  ASSUME OAuthAssumption, Inv,
         NEW c \in Calls, Serve(c) \/ ChangeKey(c) \/ Clock
  PROVE  /\ \A g \in Grants :
              /\ code'[g].state = "none" <=> code[g].state = "none"
              /\ code[g].state # "none" => code'[g].merchant = code[g].merchant
         /\ \A m \in Merchants :
              /\ key[m] > 0 <=> key'[m] > 0
              /\ key'[m] # key[m] => ChangeKey(c) /\ m = call[c].merchant
<1> USE DEF Inv
<1>1. [Next]_tokenVars
  BY DEF Next
<1>2. ASSUME NEW g \in Grants
      PROVE  code[g].state # "none" =>
               code'[g].state # "none" /\ code'[g].merchant = code[g].merchant
  BY <1>1, StoredGrows
<1>3. ASSUME NEW g \in Grants, code[g].state = "none" PROVE code'[g].state = "none"
  <2>1. CASE UNCHANGED code
    BY <1>3, <2>1
  <2>2. CASE Exchange(c)
    <3>1. CASE g = call[c].grant
      BY <1>3, <2>2, <3>1, Exchanges
    <3>2. CASE g # call[c].grant
      BY <1>3, <2>2, <3>2, Exchanges, BuyFacts
    <3> QED
      BY <3>1, <3>2
  <2>3. CASE ChangeKey(c)
    BY <1>3, <2>3, SeenFamilies, UsedUpFacts DEF ChangeKey
  <2>4. ASSUME NEW h \in Grants, CodeLapses(h) PROVE code'[g].state = "none"
    BY <1>3, <2>4 DEF CodeLapses, TypeOK
  <2>5. ASSUME \/ Moves(c) \/ Rotate(c) \/ Revokes(c) \/ Abandon(c)
               \/ (\E m \in Merchants : ChangeLocks(c, m))
               \/ (\E h \in Grants : FamilyAges(h))
        PROVE  UNCHANGED code
    BY <2>5, MovesStoreNothing DEF Rotate, Revokes, Abandon, ChangeLocks, FamilyAges
  <2> QED
    BY <2>1, <2>2, <2>3, <2>4, <2>5 DEF Serve, Clock, Moves
<1>4. ASSUME NEW m \in Merchants
      PROVE  /\ key[m] > 0 <=> key'[m] > 0
             /\ key'[m] # key[m] => ChangeKey(c) /\ m = call[c].merchant
  <2>1. CASE UNCHANGED key
    BY <2>1
  <2>2. CASE ChangeKey(c)
    <3>1. /\ key' = [key EXCEPT ![call[c].merchant] = key[call[c].merchant] + 1]
          /\ call[c].merchant \in Merchants /\ key[call[c].merchant] >= 1
      BY <2>2 DEF ChangeKey, Holding
    <3> QED
      BY <2>2, <3>1 DEF TypeOK
  <2>3. ASSUME \/ Moves(c) \/ Exchange(c) \/ Rotate(c) \/ Revokes(c) \/ Abandon(c)
               \/ (\E k \in Merchants : ChangeLocks(c, k)) \/ Clock
        PROVE  UNCHANGED key
    BY <2>3, MovesStoreNothing
       DEF Exchange, Rotate, Revokes, Abandon, ChangeLocks, Clock, CodeLapses, FamilyAges
  <2> QED
    BY <2>1, <2>2, <2>3 DEF Serve, Moves
<1> QED
  BY <1>2, <1>3, <1>4

\* The invariant the properties below follow from, for every set of merchants,
\* grants and requests and every bound.
THEOREM InvHolds ==
  ASSUME OAuthAssumption
  PROVE  Spec => []Inv
<1>1. Init => Inv
  BY InvInit
<1>2. Inv /\ [Next]_tokenVars => Inv'
  BY InvStep
<1> QED
  BY <1>1, <1>2, PTL DEF Spec

\* The tables and the records of the requests keep their types.
THEOREM TypeCorrect ==
  ASSUME OAuthAssumption
  PROVE  Spec => []TypeOK
<1>1. Inv => TypeOK
  BY DEF Inv
<1> QED
  BY <1>1, InvHolds, PTL

\* A code or a family approved with a key does not outlive that key, whatever
\* exchange, rotation or approval runs beside the key change.
THEOREM GrantsDieWithKeys ==
  ASSUME OAuthAssumption
  PROVE  Spec => []GrantDiesWithKey
<1>1. Inv => GrantDiesWithKey
  BY DEF Inv
<1> QED
  BY <1>1, InvHolds, PTL

\* A code and a refresh token buy one pair each, however many requests present
\* them at once, and a family has at most one live refresh token.
THEOREM PairsBoughtOnce ==
  ASSUME OAuthAssumption
  PROVE  Spec => []SpentOnce
<1>1. Inv => SpentOnce
  <2> SUFFICES ASSUME Inv, NEW g \in Grants
               PROVE  /\ \A n \in 0..MaxTokens : spent[g][n] <= 1
                      /\ \A n, k \in Numbers :
                           token[g][n] = "live" /\ token[g][k] = "live" => n = k
    BY DEF SpentOnce
  <2>1. \A n \in 0..MaxTokens : n = 0 \/ n \in Numbers
    BY DEF Numbers
  <2> QED
    BY <2>1 DEF Inv, Bought
<1> QED
  BY <1>1, InvHolds, PTL

\* Once a request that presented a spent refresh token has its answer, its
\* family is revoked or over, for good.
THEOREM ReplaysEndFamilies ==
  ASSUME OAuthAssumption
  PROVE  Spec => []ReplayEndsFamily
<1>1. Inv => ReplayEndsFamily
  BY DEF Inv, Ended, ReplayEndsFamily
<1> QED
  BY <1>1, InvHolds, PTL
=============================================================================
