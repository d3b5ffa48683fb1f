------------------------- MODULE PublicPages_proofs -------------------------
(***************************************************************************)
(* Votes are counted once, for every set of merchants, listings and        *)
(* requests; and a reader who pages through a view to its end has seen     *)
(* every row that kept its place, once.                                    *)
(***************************************************************************)
EXTENDS PublicPages, FiniteSetTheorems, WellFoundedInduction, TLAPS

---------------------------------------------------------------------------
(* The tables and the requests of the society.                             *)

Quota == [day : Days, votes : 0..Votes, remarks : 0..Remarks]

CallRow == [pc   : {"idle", "auth", "look", "prior", "spend", "vote", "comment",
                    "log", "buyer", "visitor", "pin", "refund", "count", "karma"},
            kind : Kinds \cup {"none"},
            m    : Merchants \cup {None},
            l    : Listings \cup {None},
            day  : Days \cup {None}]

\* A working request has a target; it votes only for another's listing.
Working(r, today) ==
  /\ r.pc # "idle" => /\ r.kind \in Kinds /\ r.m \in Merchants /\ r.l \in Listings
                      /\ r.day \in Days /\ r.day <= today
  /\ r.pc \in {"look", "spend"} => r.kind \in {"vote", "comment", "flag"}
  /\ r.pc \in {"prior", "vote", "refund", "count", "karma"} => r.kind = "vote"
  /\ r.pc \in {"prior", "spend", "vote"} /\ r.kind = "vote" => Owner[r.l] # r.m

Busy == \A c \in Calls : Working(call[c], day)

Dated == \A m \in Merchants : quota[m].day <= day

SInv == SocietyTypeOK /\ Busy /\ Dated

---------------------------------------------------------------------------
(* How a request moves: to another label, or to its end.                   *)

Others(c) == /\ call' \in [Calls -> CallRow]
             /\ \A d \in Calls : d # c => call'[d] = call[d]

Turns(c, label, d) ==
  LET r == call[c]
      n == call'[c]
  IN
  /\ Others(c)
  /\ n.pc = label /\ n.kind = r.kind /\ n.m = r.m /\ n.l = r.l /\ n.day = d

Ends(c) == Others(c) /\ call'[c] = IdleCall

Labels == {"idle", "auth", "look", "prior", "spend", "vote", "comment",
           "log", "buyer", "visitor", "pin", "refund", "count", "karma"}

LEMMA GotoTurns ==
  ASSUME call \in [Calls -> CallRow], NEW c \in Calls, NEW label \in Labels
  PROVE  /\ Goto(c, label) => Turns(c, label, call[c].day)
         /\ day \in Days /\ GotoToday(c, label) => Turns(c, label, day)
<1> DEFINE r == call[c]
<1>1. r \in CallRow
  OBVIOUS
<1> HIDE DEF r
<1>2. ASSUME NEW d \in Days \cup {None}
      PROVE  /\ [r EXCEPT !.pc = label, !.day = d] \in CallRow
             /\ [r EXCEPT !.pc = label] \in CallRow
             /\ [r EXCEPT !.pc = label, !.day = d].pc = label
             /\ [r EXCEPT !.pc = label, !.day = d].kind = r.kind
             /\ [r EXCEPT !.pc = label, !.day = d].m = r.m
             /\ [r EXCEPT !.pc = label, !.day = d].l = r.l
             /\ [r EXCEPT !.pc = label, !.day = d].day = d
             /\ [r EXCEPT !.pc = label].pc = label
             /\ [r EXCEPT !.pc = label].kind = r.kind
             /\ [r EXCEPT !.pc = label].m = r.m
             /\ [r EXCEPT !.pc = label].l = r.l
             /\ [r EXCEPT !.pc = label].day = r.day
  BY <1>1 DEF CallRow, Labels
<1>3. ASSUME Goto(c, label) PROVE Turns(c, label, r.day)
  <2> DEFINE n == [r EXCEPT !.pc = label]
  <2>1. call' = [call EXCEPT ![c] = n]
    BY <1>3 DEF Goto, r
  <2>2. n \in CallRow /\ n.pc = label /\ n.kind = r.kind /\ n.m = r.m /\ n.l = r.l
        /\ n.day = r.day
    BY <1>2
  <2> HIDE DEF n
  <2> QED
    BY <2>1, <2>2 DEF Turns, Others, r
<1>4. ASSUME day \in Days, GotoToday(c, label) PROVE Turns(c, label, day)
  <2> DEFINE n == [r EXCEPT !.pc = label, !.day = day]
  <2>1. call' = [call EXCEPT ![c] = n]
    BY <1>4 DEF GotoToday, r
  <2>2. n \in CallRow /\ n.pc = label /\ n.kind = r.kind /\ n.m = r.m /\ n.l = r.l
        /\ n.day = day
    BY <1>2, <1>4
  <2> HIDE DEF n
  <2> QED
    BY <2>1, <2>2 DEF Turns, Others, r
<1> QED
  BY <1>3, <1>4 DEF r

LEMMA FinishEnds ==
  ASSUME call \in [Calls -> CallRow], NEW c \in Calls, Finish(c)
  PROVE  Ends(c)
BY DEF Finish, Ends, Others, IdleCall, CallRow

---------------------------------------------------------------------------
(* Requests at a label, counted.                                           *)

LEMMA Counts ==
  ASSUME NEW S, IsFiniteSet(S), NEW x
  PROVE  /\ IsFiniteSet(S \cup {x}) /\ IsFiniteSet(S \ {x})
         /\ Cardinality(S) \in Nat /\ Cardinality(S \cup {x}) \in Nat
         /\ Cardinality(S \ {x}) \in Nat
         /\ Cardinality(S \cup {x}) <= Cardinality(S) + 1
         /\ Cardinality(S \ {x}) <= Cardinality(S)
         /\ x \in S => Cardinality(S \ {x}) = Cardinality(S) - 1
         /\ x \notin S => Cardinality(S \cup {x}) = Cardinality(S) + 1
BY FS_AddElement, FS_RemoveElement, FS_CardinalityType

LEMMA CallsFinite ==
  ASSUME NEW l, NEW m
  PROVE  /\ IsFiniteSet(Counting(l)) /\ IsFiniteSet(Crediting(m))
         /\ IsFiniteSet(Paying(m))
<1>1. /\ Counting(l) \in SUBSET Calls /\ Crediting(m) \in SUBSET Calls
      /\ Paying(m) \in SUBSET Calls
  BY DEF Counting, Crediting, Paying
<1> QED
  BY <1>1, FS_Subset, SocietyAssumption

\* A request joins the set of the label it turns to, and leaves the others.
LEMMA TurnsCount ==
  ASSUME call \in [Calls -> CallRow], NEW c \in Calls, NEW label, NEW d,
         Turns(c, label, d), NEW l, NEW m
  PROVE  /\ Counting(l)' = IF label = "count" /\ call[c].l = l
                           THEN Counting(l) \cup {c} ELSE Counting(l) \ {c}
         /\ Crediting(m)' = IF label = "karma" /\ Owner[call[c].l] = m
                            THEN Crediting(m) \cup {c} ELSE Crediting(m) \ {c}
         /\ Paying(m)' = IF /\ label \in {"vote", "refund"}
                            /\ call[c].kind = "vote" /\ call[c].m = m
                         THEN Paying(m) \cup {c} ELSE Paying(m) \ {c}
BY DEF Turns, Others, Counting, Crediting, Paying

LEMMA EndsCount ==
  ASSUME NEW c \in Calls, Ends(c), NEW l, NEW m
  PROVE  /\ Counting(l)' = Counting(l) \ {c} /\ Crediting(m)' = Crediting(m) \ {c}
         /\ Paying(m)' = Paying(m) \ {c}
BY DEF Ends, Others, IdleCall, Counting, Crediting, Paying

---------------------------------------------------------------------------
(* The society keeps its types.                                            *)

LEMMA CallsStay ==
  ASSUME SInv, NEW c \in Calls, Others(c), day' \in Days, day <= day',
         Working(call'[c], day')
  PROVE  Busy'
<1>1. ASSUME NEW d \in Calls, d # c PROVE Working(call'[d], day')
  <2>1. Working(call[d], day) /\ day \in Days
    BY DEF SInv, Busy, SocietyTypeOK
  <2>2. call'[d] = call[d]
    BY <1>1 DEF Others
  <2> QED
    BY <2>1, <2>2 DEF Working, Days
<1> QED
  BY <1>1 DEF Busy

LEMMA AsOfQuota ==
  ASSUME NEW q \in Quota, NEW d \in Days
  PROVE  AsOf(q, d) \in Quota /\ AsOf(q, d).day = d
BY SocietyAssumption DEF AsOf, Quota

LEMMA InitSociety == SocietyInit => SInv /\ VotesCounted
<1> SUFFICES ASSUME SocietyInit PROVE SInv /\ VotesCounted
  OBVIOUS
<1> USE DEF SocietyInit
<1>1. 1 \in Days
  BY SocietyAssumption DEF Days
<1>2. SocietyTypeOK
  BY <1>1, SocietyAssumption DEF SocietyTypeOK, Unlisted, Row, NoText, Text, IdleCall
<1>3. Busy /\ Dated
  BY SocietyAssumption DEF Busy, Dated, Working, IdleCall
<1>4. /\ \A l \in Listings : Counting(l) = {} /\ VotesFor(l) = {}
      /\ \A m \in Merchants : /\ Crediting(m) = {} /\ VotesOf(m) = {} /\ Paying(m) = {}
                              /\ Shown(m) = {}
  <2>1. ASSUME NEW m \in Merchants PROVE Shown(m) = {}
    BY DEF Shown, Unlisted
  <2> QED
    BY <2>1 DEF Counting, VotesFor, Crediting, VotesOf, Paying, IdleCall
<1>5. VotesCounted
  <2>1. /\ \A l \in Listings : listing[l].votes = 0
        /\ \A m \in Merchants : karma[m] = 0 /\ quota[m].votes = 0
        /\ votes = {}
    BY DEF Unlisted
  <2>2. Cardinality({}) = 0
    BY FS_EmptySet
  <2>3. ASSUME NEW l \in Listings
        PROVE  /\ listing[l].votes + Cardinality(Counting(l)) <= Cardinality(VotesFor(l))
               /\ <<Owner[l], l>> \notin votes
    <3>1. Counting(l) = {} /\ VotesFor(l) = {}
      BY <1>4
    <3> QED
      BY <2>1, <2>2, <3>1
  <2>4. ASSUME NEW m \in Merchants
        PROVE  /\ karma[m] + Cardinality(Crediting(m)) <= Cardinality(Shown(m))
               /\ Cardinality(VotesOf(m)) + Cardinality(Paying(m)) <= quota[m].votes
    <3>1. Crediting(m) = {} /\ VotesOf(m) = {} /\ Paying(m) = {} /\ Shown(m) = {}
      BY <1>4
    <3> QED
      BY <2>1, <2>2, <3>1
  <2> HIDE DEF SocietyInit
  <2> QED
    BY <2>3, <2>4 DEF VotesCounted
<1> QED
  BY <1>2, <1>3, <1>5 DEF SInv

---------------------------------------------------------------------------
(* What a step of a request does: it turns to a label or ends, and writes  *)
(* at most one table.                                                      *)

\* The tables that votes are counted in.
Ballot == <<votes, karma>>

SameVotes == \A l \in Listings : listing'[l].votes = listing[l].votes

SameQuota == \A m \in Merchants : day = 1 => quota'[m].votes = quota[m].votes

Aside(label) == label \notin {"vote", "refund", "count", "karma"}

\* Nothing is voted or counted.
Idles(c) ==
  /\ UNCHANGED Ballot /\ SameVotes /\ SameQuota
  /\ Ends(c) \/ \E label \in Labels, d \in Days : Aside(label) /\ Turns(c, label, d)

Spends(c) ==
  /\ UNCHANGED Ballot /\ SameVotes
  /\ call[c].kind = "vote" /\ Turns(c, "vote", call[c].day)
  /\ \A m \in Merchants : day = 1 =>
       quota'[m].votes = IF m = call[c].m THEN quota[m].votes + 1 ELSE quota[m].votes

Casts(c) ==
  LET v == <<call[c].m, call[c].l>> IN
  /\ karma' = karma /\ SameVotes /\ SameQuota
  /\ votes' = votes \cup {v} /\ call[c].pc = "vote"
  /\ Turns(c, IF v \in votes THEN "refund" ELSE "count", call[c].day)

Refunds(c) ==
  /\ UNCHANGED Ballot /\ SameVotes /\ call[c].pc = "refund" /\ Ends(c)
  /\ \A m \in Merchants : day = 1 =>
       quota'[m].votes = IF m = call[c].m
                         THEN IF quota[m].votes = 0 THEN 0 ELSE quota[m].votes - 1
                         ELSE quota[m].votes

Counted(c) ==
  /\ UNCHANGED Ballot /\ SameQuota
  /\ call[c].pc = "count" /\ Turns(c, "karma", call[c].day)
  /\ \A l \in Listings : listing'[l].votes = IF l = call[c].l
                                             THEN listing[l].votes + 1
                                             ELSE listing[l].votes

Credits(c) ==
  LET m == Owner[call[c].l] IN
  /\ votes' = votes /\ SameVotes /\ SameQuota
  /\ call[c].pc = "karma" /\ Ends(c) /\ karma' = [karma EXCEPT ![m] = @ + 1]

Goings(c) == Idles(c) \/ Spends(c) \/ Casts(c) \/ Refunds(c) \/ Counted(c) \/ Credits(c)

LEMMA CallTypes ==
  ASSUME SInv, NEW c \in Calls, CallStep(c)
  PROVE  SInv' /\ Goings(c)
<1> DEFINE r == call[c]
<1>0. /\ call \in [Calls -> CallRow] /\ day \in Days /\ r \in CallRow
      /\ listing \in [Listings -> Row] /\ votes \subseteq Merchants \X Listings
      /\ quota \in [Merchants -> Quota] /\ karma \in [Merchants -> Nat]
      /\ comments \in [Texts -> Text] /\ purchases \in [Texts -> Text]
      /\ events \subseteq Texts /\ fees \subseteq Texts
      /\ Working(r, day) /\ (\A m \in Merchants : quota[m].day <= day)
  BY DEF SInv, SocietyTypeOK, CallRow, Quota, Busy, Dated
<1>1. ASSUME Others(c), Working(call'[c], day), day' = day,
             listing' \in [Listings -> Row], votes' \subseteq Merchants \X Listings,
             quota' \in [Merchants -> Quota], karma' \in [Merchants -> Nat],
             comments' \in [Texts -> Text], purchases' = purchases,
             events' \subseteq Texts, fees' = fees,
             \A m \in Merchants : quota'[m].day <= day
      PROVE  SInv'
  <2>1. SocietyTypeOK'
    BY <1>0, <1>1 DEF SocietyTypeOK, CallRow, Quota, Others
  <2>2. Busy'
    BY <1>0, <1>1, CallsStay DEF Days
  <2> QED
    BY <1>1, <2>1, <2>2 DEF SInv, Dated
<1>2. \A label \in Labels : /\ Goto(c, label) => Turns(c, label, r.day)
                            /\ GotoToday(c, label) => Turns(c, label, day)
  BY <1>0, GotoTurns
<1>3. Finish(c) => Ends(c)
  BY <1>0, FinishEnds
<1>4. /\ Ends(c) => Working(call'[c], day)
      /\ \A label \in Labels, d \in Days : Turns(c, label, d) =>
           /\ call'[c].pc = label /\ call'[c].kind = r.kind /\ call'[c].m = r.m
           /\ call'[c].l = r.l /\ call'[c].day = d
  BY DEF Ends, IdleCall, Working, Turns
<1>5. r.pc # "idle" => r.m \in Merchants /\ r.l \in Listings /\ r.day \in Days
                       /\ r.day <= day /\ r.kind \in Kinds
  BY <1>0 DEF Working
<1>6. CASE Auth(c)
  <2>1. r.m \in Merchants /\ r.day \in Days /\ r.day <= day /\ r.kind \in Kinds
    BY <1>5, <1>6 DEF Auth
  <2>2. /\ AsOf(quota[r.m], r.day) \in Quota /\ AsOf(quota[r.m], r.day).day = r.day
        /\ day = 1 => AsOf(quota[r.m], r.day) = quota[r.m]
    BY <1>0, <2>1, AsOfQuota DEF AsOf, Days, Quota
  <2>3. quota' = [quota EXCEPT ![r.m] = AsOf(quota[r.m], r.day)]
    BY <1>6 DEF Auth
  <2>4. /\ quota' \in [Merchants -> Quota] /\ SameQuota
        /\ \A m \in Merchants : quota'[m].day <= day
    BY <1>0, <2>1, <2>2, <2>3 DEF SameQuota
  <2>5. \/ Ends(c) \/ Turns(c, "pin", r.day)
        \/ r.kind \notin {"pin", "unpin"} /\ Turns(c, "look", r.day)
    BY <1>2, <1>3, <1>6 DEF Auth, Labels
  <2>6. Others(c) /\ Working(call'[c], day)
    BY <1>0, <1>4, <1>5, <1>6, <2>5 DEF Auth, Ends, Turns, Working, Labels, Kinds
  <2>7. Idles(c)
    BY <1>6, <2>1, <2>4, <2>5 DEF Auth, Idles, Ballot, SameVotes, Aside, Labels
  <2> QED
    BY <1>0, <1>1, <1>6, <2>4, <2>6, <2>7 DEF Auth, Goings
<1>7. CASE Look(c) \/ ReadPrior(c) \/ ReadBuyer(c) \/ Abandon(c)
  <2>1. r.pc # "idle" /\ UNCHANGED <<day, listing, votes, quota, karma, comments, purchases, events, fees>>
    BY <1>7 DEF Look, ReadPrior, ReadBuyer, Abandon
  <2>2. /\ \/ Ends(c)
           \/ \E label \in Labels, d \in {r.day, day} : Aside(label) /\ Turns(c, label, d)
        /\ Working(call'[c], day)
    <3>1. CASE Look(c)
      <4>1. \/ Ends(c)
            \/ r.kind = "vote" /\ Owner[r.l] # r.m /\ Turns(c, "prior", r.day)
            \/ r.kind # "vote" /\ Turns(c, "spend", day)
        BY <1>2, <1>3, <3>1 DEF Look, Labels
      <4> QED
        BY <1>0, <1>4, <1>5, <2>1, <3>1, <4>1 DEF Look, Labels, Aside, Working, Days
    <3>2. CASE ReadPrior(c)
      <4>1. Ends(c) \/ Turns(c, "spend", day)
        BY <1>2, <1>3, <3>2 DEF ReadPrior, Labels
      <4> QED
        BY <1>0, <1>4, <1>5, <2>1, <3>2, <4>1 DEF ReadPrior, Labels, Aside, Working, Days
    <3>3. CASE ReadBuyer(c)
      <4>1. Turns(c, "buyer", r.day) \/ Turns(c, "visitor", r.day)
        BY <1>2, <3>3 DEF ReadBuyer, Labels
      <4> QED
        BY <1>0, <1>4, <1>5, <2>1, <3>3, <4>1 DEF ReadBuyer, Labels, Aside, Working
    <3>4. CASE Abandon(c)
      BY <1>3, <1>4, <3>4 DEF Abandon
    <3> QED
      BY <1>7, <3>1, <3>2, <3>3, <3>4
  <2>3. Others(c)
    BY <2>2 DEF Ends, Turns
  <2>4. Idles(c)
    BY <1>0, <1>5, <2>1, <2>2 DEF Idles, Ballot, SameVotes, SameQuota
  <2> QED
    BY <1>0, <1>1, <2>1, <2>2, <2>3, <2>4 DEF Goings
<1>8. CASE SpendQuota(c)
  <2> DEFINE q == AsOf(quota[r.m], r.day)
  <2>0. /\ r.pc = "spend" /\ r.m \in Merchants /\ r.day \in Days /\ r.day <= day
        /\ r.l \in Listings /\ r.kind \in {"vote", "comment", "flag"}
        /\ r.kind = "vote" => Owner[r.l] # r.m
    BY <1>0, <1>5, <1>8 DEF SpendQuota, Working
  <2>1. q \in Quota /\ q.day = r.day /\ (day = 1 => q = quota[r.m])
    BY <1>0, <2>0, AsOfQuota DEF AsOf, Days, Quota
  <2>2. UNCHANGED <<day, listing, votes, karma, comments, purchases, events, fees>>
    BY <1>8 DEF SpendQuota
  <2>3. CASE Finish(c) /\ UNCHANGED quota
    <3>1. Ends(c) /\ Working(call'[c], day) /\ Others(c)
      BY <1>3, <1>4, <2>3 DEF Ends
    <3>2. Idles(c)
      BY <2>2, <2>3, <3>1 DEF Idles, Ballot, SameVotes, SameQuota
    <3> QED
      BY <1>0, <1>1, <2>2, <2>3, <3>1, <3>2 DEF Goings
  <2>4. CASE r.kind = "vote" /\ ~(Finish(c) /\ UNCHANGED quota)
    <3> DEFINE n == [q EXCEPT !.votes = q.votes + 1]
    <3>1. /\ q.votes < Votes /\ quota' = [quota EXCEPT ![r.m] = n] /\ Turns(c, "vote", r.day)
      BY <1>2, <1>8, <2>4 DEF SpendQuota, Labels
    <3>2. n \in Quota /\ n.day = r.day /\ n.votes = q.votes + 1
      <4> HIDE DEF q
      <4> QED
        BY <2>1, <3>1, SocietyAssumption DEF Quota
    <3> HIDE DEF n, q
    <3>3. /\ quota' \in [Merchants -> Quota] /\ (\A m \in Merchants : quota'[m].day <= day)
          /\ \A m \in Merchants : day = 1 =>
               quota'[m].votes = IF m = r.m THEN quota[m].votes + 1 ELSE quota[m].votes
      BY <1>0, <2>0, <2>1, <3>1, <3>2
    <3>4. Others(c) /\ Working(call'[c], day)
      BY <1>4, <2>0, <2>4, <3>1 DEF Turns, Working, Labels, Kinds
    <3>5. Spends(c)
      BY <2>2, <2>4, <3>1, <3>3 DEF Spends, Ballot, SameVotes
    <3> QED
      BY <1>0, <1>1, <2>2, <3>3, <3>4, <3>5 DEF Goings
  <2>5. CASE r.kind # "vote" /\ ~(Finish(c) /\ UNCHANGED quota)
    <3> DEFINE n == [q EXCEPT !.remarks = q.remarks + 1]
    <3>1. /\ q.remarks < Remarks /\ quota' = [quota EXCEPT ![r.m] = n]
          /\ Turns(c, "log", r.day) \/ Turns(c, "comment", r.day)
      BY <1>2, <1>8, <2>0, <2>5 DEF SpendQuota, Labels
    <3>2. n \in Quota /\ n.day = r.day /\ n.votes = q.votes
      <4> HIDE DEF q
      <4> QED
        BY <2>1, <3>1, SocietyAssumption DEF Quota
    <3> HIDE DEF n, q
    <3>3. /\ quota' \in [Merchants -> Quota] /\ (\A m \in Merchants : quota'[m].day <= day)
          /\ SameQuota
      BY <1>0, <2>0, <2>1, <3>1, <3>2 DEF SameQuota
    <3>4. Others(c) /\ Working(call'[c], day)
      BY <1>4, <2>0, <2>5, <3>1 DEF Turns, Working, Labels, Kinds
    <3>5. Idles(c)
      BY <2>0, <2>2, <3>1, <3>3 DEF Idles, Ballot, SameVotes, Labels, Aside
    <3> QED
      BY <1>0, <1>1, <2>2, <3>3, <3>4, <3>5 DEF Goings
  <2> QED
    BY <2>3, <2>4, <2>5
<1>9. CASE InsertVote(c)
  <2>1. /\ r.pc = "vote" /\ r.m \in Merchants /\ r.l \in Listings /\ r.day \in Days
        /\ r.day <= day /\ r.kind = "vote"
        /\ UNCHANGED <<day, listing, quota, karma, comments, purchases, events, fees>>
        /\ votes' = votes \cup {<<r.m, r.l>>}
    BY <1>0, <1>5, <1>9 DEF InsertVote, Working
  <2>2. Turns(c, IF <<r.m, r.l>> \in votes THEN "refund" ELSE "count", r.day)
    BY <1>2, <1>9 DEF InsertVote, Labels
  <2>3. Others(c) /\ Working(call'[c], day)
    BY <1>4, <2>1, <2>2 DEF Turns, Working, Labels, Kinds
  <2>4. Casts(c)
    BY <2>1, <2>2 DEF Casts, SameVotes, SameQuota
  <2> QED
    BY <1>0, <1>1, <2>1, <2>3, <2>4 DEF Goings
<1>10. CASE RefundQuota(c)
  <2>1. /\ r.pc = "refund" /\ r.m \in Merchants /\ r.day \in Days /\ r.day <= day
        /\ UNCHANGED <<day, listing, votes, karma, comments, purchases, events, fees>>
        /\ quota' = [quota EXCEPT ![r.m] = Refunded(quota[r.m], r.day)] /\ Ends(c)
    BY <1>0, <1>3, <1>5, <1>10 DEF RefundQuota
  <2>2. PICK q \in Quota : q = quota[r.m]
    BY <1>0, <2>1
  <2>3. /\ Refunded(q, r.day) \in Quota /\ Refunded(q, r.day).day = q.day
        /\ q.day = r.day =>
             Refunded(q, r.day).votes = IF q.votes = 0 THEN 0 ELSE q.votes - 1
    BY SocietyAssumption DEF Refunded, Quota
  <2>4. /\ quota' \in [Merchants -> Quota] /\ (\A m \in Merchants : quota'[m].day <= day)
        /\ \A m \in Merchants : m # r.m => quota'[m] = quota[m]
        /\ quota'[r.m] = Refunded(q, r.day) /\ quota[r.m].day <= day
    BY <1>0, <2>1, <2>2, <2>3
  <2>5. day = 1 => q.day = r.day
    BY <2>1, <2>2, <2>4 DEF Quota, Days
  <2>6. Refunds(c)
    BY <2>1, <2>2, <2>3, <2>4, <2>5 DEF Refunds, Ballot, SameVotes
  <2>7. Others(c) /\ Working(call'[c], day)
    BY <1>4, <2>1 DEF Ends
  <2> QED
    BY <1>0, <1>1, <2>1, <2>4, <2>6, <2>7 DEF Goings
<1>11. CASE CountVote(c)
  <2>1. /\ r.pc = "count" /\ r.m \in Merchants /\ r.l \in Listings /\ r.day \in Days
        /\ r.day <= day /\ r.kind = "vote" /\ Turns(c, "karma", r.day)
        /\ UNCHANGED <<day, votes, quota, karma, comments, purchases, events, fees>>
        /\ listing' = [listing EXCEPT ![r.l].votes = listing[r.l].votes + 1]
    BY <1>0, <1>2, <1>5, <1>11 DEF CountVote, Working, Labels
  <2>2. PICK l \in Listings, w \in Row : l = r.l /\ w = listing[l]
    BY <1>0, <2>1
  <2>3. /\ [w EXCEPT !.votes = w.votes + 1] \in Row
        /\ [w EXCEPT !.votes = w.votes + 1].votes = w.votes + 1
    BY DEF Row
  <2>4. /\ listing' \in [Listings -> Row]
        /\ \A k \in Listings : listing'[k].votes = IF k = l THEN listing[k].votes + 1
                                                            ELSE listing[k].votes
    BY <1>0, <2>1, <2>2, <2>3
  <2>5. Others(c) /\ Working(call'[c], day)
    BY <1>4, <2>1 DEF Turns, Working, Labels, Kinds
  <2>6. Counted(c)
    BY <2>1, <2>2, <2>4 DEF Counted, Ballot, SameQuota
  <2> QED
    BY <1>0, <1>1, <2>1, <2>4, <2>5, <2>6 DEF Goings
<1>12. CASE CountKarma(c)
  <2>1. /\ r.pc = "karma" /\ r.l \in Listings /\ Ends(c)
        /\ UNCHANGED <<day, listing, votes, quota, comments, purchases, events, fees>>
        /\ karma' = [karma EXCEPT ![Owner[r.l]] = @ + 1]
    BY <1>0, <1>3, <1>5, <1>12 DEF CountKarma
  <2>2. karma' \in [Merchants -> Nat]
    <3>1. Owner[r.l] \in Merchants
      BY <2>1, SocietyAssumption
    <3> QED
      BY <1>0, <2>1, <3>1
  <2>3. Others(c) /\ Working(call'[c], day)
    BY <1>4, <2>1 DEF Ends
  <2>4. Credits(c)
    BY <2>1 DEF Credits, SameVotes, SameQuota
  <2> QED
    BY <1>0, <1>1, <2>1, <2>2, <2>3, <2>4 DEF Goings
<1>13. CASE PinListing(c)
  <2>1. /\ r.pc = "pin" /\ r.l \in Listings /\ r.day \in Days
        /\ UNCHANGED <<day, votes, quota, karma, comments, purchases, events, fees>>
        /\ \/ /\ listing' = [listing EXCEPT ![r.l].pinned = (r.kind = "pin")]
              /\ Turns(c, "log", r.day)
           \/ Ends(c) /\ UNCHANGED listing
    BY <1>2, <1>3, <1>5, <1>13 DEF PinListing, Labels
  <2>2. listing' \in [Listings -> Row] /\ SameVotes
    <3>1. PICK l \in Listings, w \in Row, p \in BOOLEAN :
            l = r.l /\ w = listing[l] /\ p = (r.kind = "pin")
      BY <1>0, <2>1
    <3>2. [w EXCEPT !.pinned = p] \in Row /\ [w EXCEPT !.pinned = p].votes = w.votes
      BY DEF Row
    <3>3. listing' = [listing EXCEPT ![l] = [w EXCEPT !.pinned = p]] \/ listing' = listing
      BY <2>1, <3>1
    <3> QED
      BY <1>0, <3>1, <3>2, <3>3 DEF SameVotes
  <2>3. Others(c) /\ Working(call'[c], day)
    BY <1>0, <1>4, <1>5, <2>1 DEF Ends, Turns, Working, Labels
  <2>4. Idles(c)
    BY <2>1, <2>2 DEF Idles, Ballot, SameQuota, Labels, Aside
  <2> QED
    BY <1>0, <1>1, <2>1, <2>2, <2>3, <2>4 DEF Goings
<1>14. ASSUME NEW x \in Texts, LogEvent(c, x) \/ \E at \in Instants : InsertComment(c, x, at)
       PROVE  SInv' /\ Goings(c)
  <2>1. /\ r.pc # "idle" /\ Ends(c)
        /\ UNCHANGED <<day, listing, votes, quota, karma, purchases, fees>>
        /\ events' \subseteq Texts
    BY <1>0, <1>3, <1>14 DEF LogEvent, InsertComment
  <2>2. comments' \in [Texts -> Text]
    <3>1. CASE LogEvent(c, x)
      BY <1>0, <3>1 DEF LogEvent
    <3>2. ASSUME NEW at \in Instants, InsertComment(c, x, at)
          PROVE  comments' \in [Texts -> Text]
      <4>1. [m |-> r.m, l |-> r.l, at |-> at, verified |-> r.pc = "buyer"] \in Text
        BY <1>5, <2>1 DEF Text
      <4> QED
        BY <1>0, <3>2, <4>1 DEF InsertComment
    <3> QED
      BY <1>14, <3>1, <3>2
  <2>3. Others(c) /\ Working(call'[c], day)
    BY <1>4, <2>1 DEF Ends
  <2>4. Idles(c)
    BY <2>1 DEF Idles, Ballot, SameVotes, SameQuota
  <2> QED
    BY <1>0, <1>1, <2>1, <2>2, <2>3, <2>4 DEF Goings
<1> QED
  BY <1>6, <1>7, <1>8, <1>9, <1>10, <1>11, <1>12, <1>13, <1>14 DEF CallStep

LEMMA ShelvesTypes ==
  ASSUME SInv, SocietyNext,
         ~\E c \in Calls : CallStep(c)
  PROVE  /\ SInv' /\ UNCHANGED Ballot /\ SameVotes /\ (day' = 1 => day = 1)
         /\ quota' = quota
         /\ \/ call' = call
            \/ \E c \in Calls : Others(c) /\ call'[c].pc = "auth"
<1>0. /\ call \in [Calls -> CallRow] /\ day \in Days
      /\ listing \in [Listings -> Row] /\ votes \subseteq Merchants \X Listings
      /\ quota \in [Merchants -> Quota] /\ karma \in [Merchants -> Nat]
      /\ comments \in [Texts -> Text] /\ purchases \in [Texts -> Text]
      /\ events \subseteq Texts /\ fees \subseteq Texts
      /\ Busy /\ (\A m \in Merchants : quota[m].day <= day)
  BY DEF SInv, SocietyTypeOK, CallRow, Quota, Dated
<1>1. ASSUME call' = call, UNCHANGED <<votes, quota, karma, comments>>,
             day' \in Days, day <= day',
             listing' \in [Listings -> Row], purchases' \in [Texts -> Text],
             events' \subseteq Texts, fees' \subseteq Texts
      PROVE  SInv'
  <2>1. SocietyTypeOK'
    BY <1>0, <1>1 DEF SocietyTypeOK, CallRow, Quota
  <2>2. Busy' /\ Dated'
    BY <1>0, <1>1 DEF Busy, Dated, Working, Days, Quota
  <2> QED
    BY <2>1, <2>2 DEF SInv
<1>2. ASSUME NEW c \in Calls, NEW kind \in Kinds, NEW m \in Merchants, NEW l \in Listings,
             Ask(c, kind, m, l)
      PROVE  /\ SInv' /\ UNCHANGED <<day, listing, votes, quota, karma>>
             /\ Others(c) /\ call'[c].pc = "auth"
  <2> DEFINE n == [pc |-> "auth", kind |-> kind, m |-> m, l |-> l, day |-> day]
  <2>1. /\ UNCHANGED <<day, listing, votes, quota, karma, comments, purchases, events, fees>>
        /\ call' = [call EXCEPT ![c] = n]
    BY <1>2 DEF Ask
  <2>2. n \in CallRow /\ n.pc = "auth" /\ Working(n, day)
    BY <1>0 DEF CallRow, Working, Days
  <2> HIDE DEF n
  <2>3. Others(c) /\ call'[c] = n
    BY <1>0, <2>1, <2>2 DEF Others
  <2>4. Busy'
    BY <1>0, <2>1, <2>2, <2>3, CallsStay DEF Days
  <2>5. SocietyTypeOK' /\ Dated'
    BY <1>0, <2>1, <2>3 DEF SocietyTypeOK, Dated, CallRow, Quota, Others
  <2> QED
    BY <2>1, <2>2, <2>3, <2>4, <2>5 DEF SInv
<1>3. ASSUME NEW l \in Listings, Leave(l) \/ \E at \in Instants : List(l, at)
      PROVE  SInv' /\ SameVotes /\ UNCHANGED <<day, votes, quota, karma, call>>
  <2>1. \E v \in Row : /\ v.votes = listing[l].votes
                       /\ listing' = [listing EXCEPT ![l] = v]
    <3>1. PICK w \in Row : w = listing[l]
      BY <1>0
    <3>2. CASE Leave(l)
      <4>1. listing' = [listing EXCEPT ![l] = [w EXCEPT !.state = "gone"]]
        BY <3>1, <3>2 DEF Leave
      <4>2. [w EXCEPT !.state = "gone"] \in Row
            /\ [w EXCEPT !.state = "gone"].votes = w.votes
        BY DEF Row
      <4> QED
        BY <3>1, <4>1, <4>2
    <3>3. ASSUME NEW at \in Instants, List(l, at)
          PROVE  \E v \in Row : /\ v.votes = listing[l].votes
                                /\ listing' = [listing EXCEPT ![l] = v]
      <4> DEFINE v == [listing[l] EXCEPT !.state = "live", !.at = at]
      <4>1. listing' = [listing EXCEPT ![l] = v]
        BY <3>3 DEF List
      <4>2. v \in Row /\ v.votes = listing[l].votes
        <5>1. [w EXCEPT !.state = "live", !.at = at] \in Row
              /\ [w EXCEPT !.state = "live", !.at = at].votes = w.votes
          BY DEF Row
        <5> QED
          BY <3>1, <5>1
      <4> HIDE DEF v
      <4> QED
        BY <4>1, <4>2
    <3> QED
      BY <1>3, <3>2, <3>3
  <2>2. UNCHANGED <<day, votes, quota, karma, comments, purchases, events, fees, call>>
    BY <1>3 DEF Leave, List
  <2>3. listing' \in [Listings -> Row] /\ SameVotes
    BY <1>0, <2>1 DEF SameVotes
  <2> QED
    BY <1>0, <1>1, <2>2, <2>3 DEF Days
<1>4. ASSUME NEW l \in Listings, NEW x \in Texts, NEW m \in Merchants, NEW at \in Instants,
             Buy(x, m, l, at)
      PROVE  SInv' /\ UNCHANGED <<day, listing, votes, quota, karma, call>>
  <2>1. [m |-> m, l |-> l, at |-> at, verified |-> FALSE] \in Text
    BY DEF Text
  <2> QED
    BY <1>0, <1>1, <1>4, <2>1 DEF Buy, Days
<1>5. ASSUME NEW x \in Texts, LogOther(x) \/ RecordFee(x)
      PROVE  SInv' /\ UNCHANGED <<day, listing, votes, quota, karma, call>>
  BY <1>0, <1>1, <1>5 DEF LogOther, RecordFee, Days
<1>6. ASSUME Midnight
      PROVE  SInv' /\ UNCHANGED <<listing, votes, quota, karma, call>> /\ day' # 1
  BY <1>0, <1>1, <1>6, SocietyAssumption DEF Midnight, Days
<1> QED
  BY <1>2, <1>3, <1>4, <1>5, <1>6 DEF SocietyNext, Ballot, SameVotes

---------------------------------------------------------------------------
(* Votes are counted once.                                                 *)

\* The set of numbers of votes shown, pair by pair.
LEMMA ShownIs ==
  ASSUME NEW m
  PROVE  Shown(m) = {p \in Listings \X Int : /\ Owner[p[1]] = m
                                             /\ p[2] \in 1..listing[p[1]].votes}
BY DEF Shown

Finite == IsFiniteSet(votes) /\ \A m \in Merchants : IsFiniteSet(Shown(m))

LEMMA Subcounts ==
  ASSUME NEW S, IsFiniteSet(S), NEW T \in SUBSET S
  PROVE  Cardinality(T) \in Nat /\ Cardinality(S) \in Nat /\ Cardinality(T) <= Cardinality(S)
BY FS_Subset, FS_CardinalityType

VInv == SInv /\ Finite /\ VotesCounted

LEMMA VotesFinite ==
  ASSUME Finite, NEW l, NEW m
  PROVE  /\ IsFiniteSet(VotesFor(l)) /\ IsFiniteSet(VotesOf(m))
         /\ Cardinality(VotesFor(l)) \in Nat /\ Cardinality(VotesOf(m)) \in Nat
<1>1. VotesFor(l) \in SUBSET votes /\ VotesOf(m) \in SUBSET votes
  BY DEF VotesFor, VotesOf
<1> QED
  BY <1>1, FS_Subset, FS_CardinalityType DEF Finite

LEMMA VotesCast ==
  ASSUME NEW k, NEW i, votes' = votes \cup {<<k, i>>}, NEW l, NEW m
  PROVE  /\ VotesFor(l)' = IF i = l THEN VotesFor(l) \cup {<<k, i>>} ELSE VotesFor(l)
         /\ VotesOf(m)' = IF k = m THEN VotesOf(m) \cup {<<k, i>>} ELSE VotesOf(m)
BY DEF VotesFor, VotesOf

LEMMA ShownSame ==
  ASSUME SameVotes, NEW m
  PROVE  Shown(m)' = Shown(m)
<1>1. Shown(m)' = {p \in Listings \X Int : /\ Owner[p[1]] = m
                                           /\ p[2] \in 1..listing'[p[1]].votes}
  BY ShownIs DEF Shown
<1> QED
  BY <1>1, ShownIs DEF SameVotes

LEMMA ShownMore ==
  ASSUME listing \in [Listings -> Row], NEW i \in Listings, NEW m,
         \A l \in Listings : listing'[l].votes = IF l = i THEN listing[l].votes + 1
                                                          ELSE listing[l].votes
  PROVE  /\ <<i, listing[i].votes + 1>> \notin Shown(m)
         /\ Shown(m)' = IF Owner[i] = m
                        THEN Shown(m) \cup {<<i, listing[i].votes + 1>>}
                        ELSE Shown(m)
<1>1. Shown(m)' = {p \in Listings \X Int : /\ Owner[p[1]] = m
                                           /\ p[2] \in 1..listing'[p[1]].votes}
  BY DEF Shown
<1>2. listing[i].votes \in Nat
  BY DEF Row
<1>3. <<i, listing[i].votes + 1>> \notin Shown(m)
  BY <1>2, ShownIs
<1>4. ASSUME NEW p
      PROVE  p \in Shown(m)' <=>
               \/ p \in Shown(m)
               \/ Owner[i] = m /\ p = <<i, listing[i].votes + 1>>
  <2>1. CASE p \in Listings \X Int
    <3>1. listing[p[1]].votes \in Nat
      BY <2>1 DEF Row
    <3> QED
      BY <1>1, <1>2, <2>1, <3>1, ShownIs
  <2>2. CASE p \notin Listings \X Int
    BY <1>1, <1>2, <2>2, ShownIs
  <2> QED
    BY <2>1, <2>2
<1> QED
  BY <1>3, <1>4

LEMMA Numbers ==
  ASSUME VInv
  PROVE  /\ \A l \in Listings : /\ listing[l].votes \in Nat
                                /\ Cardinality(VotesFor(l)) \in Nat
                                /\ Cardinality(Counting(l)) \in Nat
         /\ \A m \in Merchants : /\ karma[m] \in Nat /\ quota[m].votes \in Nat
                                 /\ Cardinality(VotesOf(m)) \in Nat
                                 /\ Cardinality(Shown(m)) \in Nat
                                 /\ Cardinality(Crediting(m)) \in Nat
                                 /\ Cardinality(Paying(m)) \in Nat
<1>1. /\ \A l \in Listings : listing[l].votes \in Nat
      /\ \A m \in Merchants : karma[m] \in Nat /\ quota[m].votes \in Nat
  BY SocietyAssumption DEF VInv, SInv, SocietyTypeOK, Row
<1>2. \A m \in Merchants : Cardinality(Shown(m)) \in Nat
  BY FS_CardinalityType DEF VInv, Finite
<1>3. \A l, m : /\ Cardinality(Counting(l)) \in Nat /\ Cardinality(Crediting(m)) \in Nat
                /\ Cardinality(Paying(m)) \in Nat
  BY CallsFinite, FS_CardinalityType
<1>4. \A l, m : Cardinality(VotesFor(l)) \in Nat /\ Cardinality(VotesOf(m)) \in Nat
  BY VotesFinite DEF VInv
<1> QED
  BY <1>1, <1>2, <1>3, <1>4

\* Where nobody begins to count, and the tables stay, nothing is counted twice.
LEMMA Uncounted ==
  ASSUME VInv, UNCHANGED Ballot, SameVotes, day' = 1 => day = 1, SameQuota,
         \A l \in Listings : Counting(l)' \subseteq Counting(l),
         \A m \in Merchants : /\ Crediting(m)' \subseteq Crediting(m)
                              /\ Paying(m)' \subseteq Paying(m),
         SInv'
  PROVE  Finite' /\ VotesCounted'
<1>1. Finite'
  BY ShownSame DEF VInv, Finite, Ballot
<1>2. ASSUME NEW l \in Listings
      PROVE  /\ listing'[l].votes + Cardinality(Counting(l)') <= Cardinality(VotesFor(l)')
             /\ <<Owner[l], l>> \notin votes'
  <2>1. VotesFor(l)' = VotesFor(l)
    BY DEF Ballot, VotesFor
  <2>2. /\ Cardinality(Counting(l)') \in Nat /\ Cardinality(Counting(l)) \in Nat
        /\ Cardinality(Counting(l)') <= Cardinality(Counting(l))
    BY CallsFinite, Subcounts
  <2>3. Cardinality(VotesFor(l)) \in Nat /\ listing[l].votes \in Nat
    BY Numbers
  <2> QED
    BY <2>1, <2>2, <2>3 DEF VInv, VotesCounted, SameVotes, Ballot
<1>3. ASSUME NEW m \in Merchants
      PROVE  /\ karma'[m] + Cardinality(Crediting(m)') <= Cardinality(Shown(m)')
             /\ day' = 1 => Cardinality(VotesOf(m)') + Cardinality(Paying(m)')
                              <= quota'[m].votes
  <2>1. VotesOf(m)' = VotesOf(m) /\ Shown(m)' = Shown(m)
    BY ShownSame DEF Ballot, VotesOf
  <2>2. /\ Cardinality(Crediting(m)') \in Nat /\ Cardinality(Crediting(m)) \in Nat
        /\ Cardinality(Crediting(m)') <= Cardinality(Crediting(m))
        /\ Cardinality(Paying(m)') \in Nat /\ Cardinality(Paying(m)) \in Nat
        /\ Cardinality(Paying(m)') <= Cardinality(Paying(m))
    BY CallsFinite, Subcounts
  <2>3. /\ Cardinality(VotesOf(m)) \in Nat /\ karma[m] \in Nat /\ quota[m].votes \in Nat
        /\ Cardinality(Shown(m)) \in Nat
    BY Numbers
  <2> QED
    BY <2>1, <2>2, <2>3 DEF VInv, VotesCounted, SameQuota, Ballot
<1> QED
  BY <1>1, <1>2, <1>3 DEF VotesCounted

LEMMA GoingVotes ==
  ASSUME VInv, NEW c \in Calls, Goings(c), SInv', day' = day
  PROVE  Finite' /\ VotesCounted'
<1> DEFINE r == call[c]
<1>0. /\ call \in [Calls -> CallRow] /\ listing \in [Listings -> Row]
      /\ karma \in [Merchants -> Nat] /\ day \in Days /\ Working(r, day)
  BY DEF VInv, SInv, SocietyTypeOK, CallRow, Busy
<1>1. /\ \A l \in Listings : IsFiniteSet(Counting(l)) /\ IsFiniteSet(VotesFor(l))
      /\ \A m \in Merchants : /\ IsFiniteSet(Crediting(m)) /\ IsFiniteSet(Paying(m))
                              /\ IsFiniteSet(VotesOf(m)) /\ IsFiniteSet(Shown(m))
  BY CallsFinite, VotesFinite DEF VInv, Finite
<1>2. CASE Idles(c)
  <2>1. ASSUME NEW l, NEW m
        PROVE  /\ Counting(l)' \subseteq Counting(l) /\ Crediting(m)' \subseteq Crediting(m)
               /\ Paying(m)' \subseteq Paying(m)
    <3>1. CASE Ends(c)
      BY <3>1, EndsCount
    <3>2. ASSUME NEW label \in Labels, NEW d \in Days, Aside(label), Turns(c, label, d)
          PROVE  /\ Counting(l)' \subseteq Counting(l)
                 /\ Crediting(m)' \subseteq Crediting(m)
                 /\ Paying(m)' \subseteq Paying(m)
      BY <1>0, <3>2, TurnsCount DEF Aside
    <3> QED
      BY <1>2, <3>1, <3>2 DEF Idles
  <2> QED
    BY <1>2, <2>1, Uncounted DEF Idles
<1>3. ASSUME UNCHANGED Ballot, SameVotes,
             Ends(c) \/ Turns(c, "vote", r.day),
             \A m \in Merchants : day' = 1 =>
               Cardinality(VotesOf(m)) + Cardinality(Paying(m)') <= quota'[m].votes
      PROVE  Finite' /\ VotesCounted'
  <2>1. Finite'
    BY <1>3, ShownSame DEF VInv, Finite, Ballot
  <2>2. ASSUME NEW l \in Listings
        PROVE  /\ listing'[l].votes + Cardinality(Counting(l)') <= Cardinality(VotesFor(l)')
               /\ <<Owner[l], l>> \notin votes'
    <3>1. VotesFor(l)' = VotesFor(l)
      BY <1>3 DEF Ballot, VotesFor
    <3>2. Counting(l)' = Counting(l) \ {c}
      BY <1>0, <1>3, TurnsCount, EndsCount
    <3>3. /\ Cardinality(Counting(l)') \in Nat
          /\ Cardinality(Counting(l)') <= Cardinality(Counting(l))
      BY <1>1, <3>2, Counts
    <3> QED
      BY <1>3, <3>1, <3>3, Numbers DEF VInv, VotesCounted, SameVotes, Ballot
  <2>3. ASSUME NEW m \in Merchants
        PROVE  /\ karma'[m] + Cardinality(Crediting(m)') <= Cardinality(Shown(m)')
               /\ day' = 1 => Cardinality(VotesOf(m)') + Cardinality(Paying(m)')
                                <= quota'[m].votes
    <3>1. VotesOf(m)' = VotesOf(m) /\ Shown(m)' = Shown(m)
      BY <1>3, ShownSame DEF Ballot, VotesOf
    <3>2. Crediting(m)' = Crediting(m) \ {c}
      BY <1>0, <1>3, TurnsCount, EndsCount
    <3>3. /\ Cardinality(Crediting(m)') \in Nat
          /\ Cardinality(Crediting(m)') <= Cardinality(Crediting(m))
      BY <1>1, <3>2, Counts
    <3> QED
      BY <1>3, <3>1, <3>3, Numbers DEF VInv, VotesCounted, Ballot
  <2> QED
    BY <2>1, <2>2, <2>3 DEF VotesCounted
<1>4. CASE Spends(c)
  <2>1. ASSUME NEW m \in Merchants, day' = 1
        PROVE  Cardinality(VotesOf(m)) + Cardinality(Paying(m)') <= quota'[m].votes
    <3>1. Paying(m)' = IF r.m = m THEN Paying(m) \cup {c} ELSE Paying(m) \ {c}
      BY <1>0, <1>4, TurnsCount DEF Spends
    <3>2. /\ Cardinality(Paying(m)') \in Nat
          /\ Cardinality(Paying(m)') <= IF r.m = m THEN Cardinality(Paying(m)) + 1
                                                   ELSE Cardinality(Paying(m))
      BY <1>1, <3>1, Counts
    <3>3. quota'[m].votes = IF m = r.m THEN quota[m].votes + 1 ELSE quota[m].votes
      BY <1>4, <2>1 DEF Spends
    <3> QED
      BY <2>1, <3>2, <3>3, Numbers DEF VInv, VotesCounted
  <2> QED
    BY <1>3, <1>4, <2>1 DEF Spends
<1>5. CASE Refunds(c)
  <2>1. ASSUME NEW m \in Merchants, day' = 1
        PROVE  Cardinality(VotesOf(m)) + Cardinality(Paying(m)') <= quota'[m].votes
    <3>1. Paying(m)' = Paying(m) \ {c} /\ (r.m = m => c \in Paying(m))
      BY <1>0, <1>5, EndsCount DEF Refunds, Paying, Working
    <3>2. /\ Cardinality(Paying(m)') \in Nat
          /\ Cardinality(Paying(m)') <= Cardinality(Paying(m))
          /\ r.m = m => Cardinality(Paying(m)') = Cardinality(Paying(m)) - 1
      BY <1>1, <3>1, Counts
    <3>3. quota'[m].votes = IF m = r.m
                            THEN IF quota[m].votes = 0 THEN 0 ELSE quota[m].votes - 1
                            ELSE quota[m].votes
      BY <1>5, <2>1 DEF Refunds
    <3> QED
      BY <2>1, <3>2, <3>3, Numbers DEF VInv, VotesCounted
  <2> QED
    BY <1>3, <1>5, <2>1 DEF Refunds
<1>6. CASE Casts(c)
  <2> DEFINE v == <<r.m, r.l>>
             label == IF v \in votes THEN "refund" ELSE "count"
  <2>0. /\ r.pc = "vote" /\ r.kind = "vote" /\ r.m \in Merchants /\ r.l \in Listings
        /\ Owner[r.l] # r.m
        /\ karma' = karma /\ SameVotes /\ SameQuota /\ votes' = votes \cup {v}
        /\ Turns(c, label, r.day)
    BY <1>0, <1>6 DEF Casts, Working
  <2>1. Finite'
    BY <1>1, <2>0, ShownSame, Counts DEF VInv, Finite
  <2>2. ASSUME NEW l \in Listings
        PROVE  /\ listing'[l].votes + Cardinality(Counting(l)') <= Cardinality(VotesFor(l)')
               /\ <<Owner[l], l>> \notin votes'
    <3>1. VotesFor(l)' = IF r.l = l THEN VotesFor(l) \cup {v} ELSE VotesFor(l)
      BY <2>0, VotesCast
    <3>2. /\ Counting(l)' = IF v \notin votes /\ r.l = l THEN Counting(l) \cup {c}
                                                         ELSE Counting(l) \ {c}
          /\ v \in VotesFor(l) <=> v \in votes /\ r.l = l
      BY <1>0, <2>0, TurnsCount DEF VotesFor
    <3>3. /\ Cardinality(Counting(l)') \in Nat
          /\ Cardinality(Counting(l)') <= IF v \notin votes /\ r.l = l
                                          THEN Cardinality(Counting(l)) + 1
                                          ELSE Cardinality(Counting(l))
      BY <1>1, <3>2, Counts
    <3>4. /\ Cardinality(VotesFor(l)') \in Nat
          /\ Cardinality(VotesFor(l)') = IF v \notin votes /\ r.l = l
                                         THEN Cardinality(VotesFor(l)) + 1
                                         ELSE Cardinality(VotesFor(l))
      <4>1. CASE v \notin votes /\ r.l = l
        BY <1>1, <3>1, <3>2, <4>1, Counts
      <4>2. CASE ~(v \notin votes /\ r.l = l)
        <5>1. VotesFor(l)' = VotesFor(l)
          BY <3>1, <3>2, <4>2
        <5> QED
          BY <4>2, <5>1, Numbers
      <4> QED
        BY <4>1, <4>2
    <3>5. listing'[l].votes = listing[l].votes /\ <<Owner[l], l>> # v
      BY <2>0 DEF SameVotes
    <3> HIDE DEF v
    <3> QED
      BY <2>0, <3>3, <3>4, <3>5, Numbers DEF VInv, VotesCounted
  <2>3. ASSUME NEW m \in Merchants
        PROVE  /\ karma'[m] + Cardinality(Crediting(m)') <= Cardinality(Shown(m)')
               /\ day' = 1 => Cardinality(VotesOf(m)') + Cardinality(Paying(m)')
                                <= quota'[m].votes
    <3>1. /\ VotesOf(m)' = IF r.m = m THEN VotesOf(m) \cup {v} ELSE VotesOf(m)
          /\ Shown(m)' = Shown(m)
      BY <2>0, VotesCast, ShownSame
    <3>2. /\ Crediting(m)' = Crediting(m) \ {c}
          /\ Paying(m)' = IF v \in votes /\ r.m = m THEN Paying(m) \cup {c}
                                                    ELSE Paying(m) \ {c}
      BY <1>0, <2>0, TurnsCount
    <3>5. /\ r.m = m => c \in Paying(m)
          /\ v \in VotesOf(m) <=> v \in votes /\ r.m = m
      BY <2>0 DEF VotesOf, Paying
    <3>3. /\ Cardinality(Crediting(m)') \in Nat
          /\ Cardinality(Crediting(m)') <= Cardinality(Crediting(m))
      BY <1>1, <3>2, Counts
    <3>4. /\ Cardinality(VotesOf(m)') \in Nat /\ Cardinality(Paying(m)') \in Nat
          /\ Cardinality(VotesOf(m)') + Cardinality(Paying(m)')
               <= Cardinality(VotesOf(m)) + Cardinality(Paying(m))
      <4>1. CASE v \notin votes /\ r.m = m
        <5>1. /\ VotesOf(m)' = VotesOf(m) \cup {v} /\ Paying(m)' = Paying(m) \ {c}
              /\ c \in Paying(m)
          BY <3>1, <3>2, <3>5, <4>1
        <5> HIDE DEF v
        <5>2. /\ Cardinality(VotesOf(m)') \in Nat
              /\ Cardinality(VotesOf(m)') <= Cardinality(VotesOf(m)) + 1
          BY <1>1, <5>1, Counts
        <5>3. /\ Cardinality(Paying(m)') \in Nat
              /\ Cardinality(Paying(m)') = Cardinality(Paying(m)) - 1
          BY <1>1, <5>1, Counts
        <5> QED
          BY <5>2, <5>3, Numbers
      <4>2. CASE v \in votes /\ r.m = m
        <5>1. VotesOf(m)' = VotesOf(m) /\ Paying(m)' = Paying(m)
          BY <3>1, <3>2, <3>5, <4>2
        <5> QED
          BY <5>1, Numbers
      <4>3. CASE r.m # m
        <5>1. VotesOf(m)' = VotesOf(m) /\ Paying(m)' = Paying(m) \ {c}
          BY <3>1, <3>2, <4>3
        <5>2. /\ Cardinality(Paying(m)') \in Nat
              /\ Cardinality(Paying(m)') <= Cardinality(Paying(m))
          BY <1>1, <5>1, Counts
        <5> QED
          BY <5>1, <5>2, Numbers
      <4> QED
        BY <4>1, <4>2, <4>3
    <3> QED
      BY <2>0, <3>1, <3>3, <3>4, Numbers DEF VInv, VotesCounted, SameQuota
  <2> QED
    BY <2>1, <2>2, <2>3 DEF VotesCounted

<1>7. CASE Counted(c)
  <2>9. PICK i \in Listings : i = r.l
    BY <1>0, <1>7 DEF Counted, Working
  <2> DEFINE p == <<i, listing[i].votes + 1>>
  <2>0. /\ r.pc = "count" /\ r.l = i /\ UNCHANGED Ballot /\ SameQuota
        /\ Turns(c, "karma", r.day)
        /\ \A l \in Listings : listing'[l].votes = IF l = i THEN listing[l].votes + 1
                                                            ELSE listing[l].votes
    BY <1>7, <2>9 DEF Counted
  <2>1. ASSUME NEW m
        PROVE  p \notin Shown(m) /\ Shown(m)' = IF Owner[i] = m THEN Shown(m) \cup {p}
                                                                ELSE Shown(m)
    BY <1>0, <2>0, ShownMore
  <2>2. Finite'
    BY <1>1, <2>0, <2>1, Counts DEF VInv, Finite, Ballot
  <2>3. ASSUME NEW l \in Listings
        PROVE  /\ listing'[l].votes + Cardinality(Counting(l)') <= Cardinality(VotesFor(l)')
               /\ <<Owner[l], l>> \notin votes'
    <3>1. VotesFor(l)' = VotesFor(l)
      BY <2>0 DEF Ballot, VotesFor
    <3>2. Counting(l)' = Counting(l) \ {c}
      BY <1>0, <2>0, TurnsCount
    <3>4. i = l => c \in Counting(l)
      BY <2>0 DEF Counting
    <3>3. /\ Cardinality(Counting(l)') \in Nat
          /\ Cardinality(Counting(l)') <= Cardinality(Counting(l))
          /\ i = l => Cardinality(Counting(l)') = Cardinality(Counting(l)) - 1
      BY <1>1, <3>2, <3>4, Counts
    <3> QED
      BY <2>0, <3>1, <3>3, Numbers DEF VInv, VotesCounted, Ballot
  <2>4. ASSUME NEW m \in Merchants
        PROVE  /\ karma'[m] + Cardinality(Crediting(m)') <= Cardinality(Shown(m)')
               /\ day' = 1 => Cardinality(VotesOf(m)') + Cardinality(Paying(m)')
                                <= quota'[m].votes
    <3>1. VotesOf(m)' = VotesOf(m)
      BY <2>0 DEF Ballot, VotesOf
    <3>2. /\ Crediting(m)' = IF Owner[i] = m THEN Crediting(m) \cup {c}
                                             ELSE Crediting(m) \ {c}
          /\ Paying(m)' = Paying(m) \ {c}
      BY <1>0, <2>0, TurnsCount
    <3>3. /\ Cardinality(Crediting(m)') \in Nat /\ Cardinality(Paying(m)') \in Nat
          /\ Cardinality(Paying(m)') <= Cardinality(Paying(m))
          /\ Cardinality(Crediting(m)') <= IF Owner[i] = m
                                           THEN Cardinality(Crediting(m)) + 1
                                           ELSE Cardinality(Crediting(m))
      BY <1>1, <3>2, Counts
    <3>4. Cardinality(Shown(m)') = IF Owner[i] = m THEN Cardinality(Shown(m)) + 1
                                                   ELSE Cardinality(Shown(m))
      <4> HIDE DEF p
      <4> QED
        BY <1>1, <2>1, Counts
    <3> QED
      BY <2>0, <3>1, <3>3, <3>4, Numbers DEF VInv, VotesCounted, SameQuota, Ballot
  <2> QED
    BY <2>2, <2>3, <2>4 DEF VotesCounted
<1>8. CASE Credits(c)
  <2> DEFINE o == Owner[r.l]
  <2>0. /\ r.pc = "karma" /\ o \in Merchants /\ votes' = votes /\ SameVotes /\ SameQuota
        /\ Ends(c) /\ karma' = [karma EXCEPT ![o] = @ + 1]
    BY <1>0, <1>8, SocietyAssumption DEF Credits, Working
  <2>1. Finite'
    BY <2>0, ShownSame DEF VInv, Finite
  <2>2. ASSUME NEW l \in Listings
        PROVE  /\ listing'[l].votes + Cardinality(Counting(l)') <= Cardinality(VotesFor(l)')
               /\ <<Owner[l], l>> \notin votes'
    <3>1. VotesFor(l)' = VotesFor(l) /\ Counting(l)' = Counting(l) \ {c}
      BY <2>0, EndsCount DEF VotesFor
    <3>2. /\ Cardinality(Counting(l)') \in Nat
          /\ Cardinality(Counting(l)') <= Cardinality(Counting(l))
      BY <1>1, <3>1, Counts
    <3> QED
      BY <2>0, <3>1, <3>2, Numbers DEF VInv, VotesCounted, SameVotes
  <2>3. ASSUME NEW m \in Merchants
        PROVE  /\ karma'[m] + Cardinality(Crediting(m)') <= Cardinality(Shown(m)')
               /\ day' = 1 => Cardinality(VotesOf(m)') + Cardinality(Paying(m)')
                                <= quota'[m].votes
    <3>1. VotesOf(m)' = VotesOf(m) /\ Shown(m)' = Shown(m)
      BY <2>0, ShownSame DEF VotesOf
    <3>2. /\ Crediting(m)' = Crediting(m) \ {c} /\ (o = m => c \in Crediting(m))
          /\ Paying(m)' = Paying(m) \ {c}
      BY <2>0, EndsCount DEF Crediting
    <3>3. /\ Cardinality(Crediting(m)') \in Nat /\ Cardinality(Paying(m)') \in Nat
          /\ Cardinality(Paying(m)') <= Cardinality(Paying(m))
          /\ Cardinality(Crediting(m)') <= Cardinality(Crediting(m))
          /\ o = m => Cardinality(Crediting(m)') = Cardinality(Crediting(m)) - 1
      BY <1>1, <3>2, Counts
    <3>4. karma'[m] = IF o = m THEN karma[m] + 1 ELSE karma[m]
      BY <1>0, <2>0
    <3> QED
      BY <2>0, <3>1, <3>3, <3>4, Numbers DEF VInv, VotesCounted, SameQuota
  <2> QED
    BY <2>1, <2>2, <2>3 DEF VotesCounted
<1> QED
  BY <1>2, <1>4, <1>5, <1>6, <1>7, <1>8 DEF Goings

LEMMA StepVotes == VInv /\ [PagesNext]_pages => VInv'
<1> SUFFICES ASSUME VInv, [PagesNext]_pages PROVE VInv'
  OBVIOUS
<1>0. /\ SInv /\ day \in Days /\ \A c \in Calls : Working(call[c], day)
  BY DEF VInv, SInv, SocietyTypeOK, Busy
<1>1. CASE UNCHANGED society
  <2>1. SInv'
    BY <1>1 DEF society, VInv, SInv, SocietyTypeOK, Busy, Dated
  <2>2. /\ UNCHANGED Ballot /\ SameVotes /\ SameQuota /\ day' = day /\ call' = call
    BY <1>1 DEF society, Ballot, SameVotes, SameQuota
  <2>3. \A l, m : /\ Counting(l)' = Counting(l) /\ Crediting(m)' = Crediting(m)
                  /\ Paying(m)' = Paying(m)
    BY <2>2 DEF Counting, Crediting, Paying
  <2>4. Finite' /\ VotesCounted'
    BY <2>1, <2>2, <2>3, Uncounted
  <2> QED
    BY <2>1, <2>4 DEF VInv
<1>2. ASSUME NEW c \in Calls, CallStep(c) PROVE VInv'
  <2>1. SInv' /\ Goings(c)
    BY <1>0, <1>2, CallTypes
  <2>2. day' = day
    BY <1>2 DEF CallStep, Auth, Look, ReadPrior, SpendQuota, InsertVote, RefundQuota,
       CountVote, CountKarma, ReadBuyer, PinListing, Abandon, LogEvent, InsertComment
  <2> QED
    BY <2>1, <2>2, GoingVotes DEF VInv
<1>3. CASE SocietyNext /\ ~\E c \in Calls : CallStep(c)
  <2>1. /\ SInv' /\ UNCHANGED Ballot /\ SameVotes /\ (day' = 1 => day = 1)
        /\ quota' = quota
        /\ \/ call' = call
           \/ \E c \in Calls : Others(c) /\ call'[c].pc = "auth"
    BY <1>0, <1>3, ShelvesTypes
  <2>2. ASSUME NEW l, NEW m
        PROVE  /\ Counting(l)' \subseteq Counting(l) /\ Crediting(m)' \subseteq Crediting(m)
               /\ Paying(m)' \subseteq Paying(m)
    BY <2>1 DEF Others, Counting, Crediting, Paying
  <2>3. Finite' /\ VotesCounted'
    BY <2>1, <2>2, Uncounted DEF SameQuota
  <2> QED
    BY <2>1, <2>3 DEF VInv
<1>4. SocietyNext \/ UNCHANGED society
  BY DEF PagesNext, pages, ReadPage, ReadStore, StartAgain
<1> QED
  BY <1>1, <1>2, <1>3, <1>4

\* The votes and the types hold for ever.
LEMMA VotesInvariant == PagesSpec => []VInv
<1>1. PagesInit => VInv
  <2>1. SocietyInit => Finite
    <3>1. SocietyInit => votes = {} /\ \A m \in Merchants : Shown(m) = {}
      BY DEF SocietyInit, Shown, Unlisted
    <3> QED
      BY <3>1, FS_EmptySet DEF Finite
  <2> QED
    BY <2>1, InitSociety DEF PagesInit, VInv
<1> QED
  BY <1>1, StepVotes, PTL DEF PagesSpec

\* The society's tables and requests keep their types.
THEOREM SocietyTyped == PagesSpec => []SocietyTypeOK
<1>1. VInv => SocietyTypeOK
  BY DEF VInv, SInv
<1> QED
  BY <1>1, VotesInvariant, PTL

\* Votes are counted once, and karma and quota keep to them.
THEOREM VotesCountedOnce == PagesSpec => []VotesCounted
<1>1. VInv => VotesCounted
  BY DEF VInv
<1> QED
  BY <1>1, VotesInvariant, PTL

---------------------------------------------------------------------------
(* Positions are ordered.                                                  *)

LEMMA AheadNotSelf ==
  ASSUME NEW n \in Nat, NEW p \in [1..n -> Int]
  PROVE  ~Ahead(p, p)
BY DEF Ahead

LEMMA AheadThrough ==
  ASSUME NEW n \in Nat, NEW p \in [1..n -> Int], NEW q \in [1..n -> Int],
         NEW r \in [1..n -> Int], Ahead(p, q), Ahead(q, r)
  PROVE  Ahead(p, r)
<1>1. PICK i \in 1..n : p[i] > q[i] /\ \A j \in 1..(i - 1) : p[j] = q[j]
  BY DEF Ahead
<1>2. PICK k \in 1..n : q[k] > r[k] /\ \A j \in 1..(k - 1) : q[j] = r[j]
  BY DEF Ahead
<1>0. \A j \in 1..n : p[j] \in Int /\ q[j] \in Int /\ r[j] \in Int
  OBVIOUS
<1>3. CASE i <= k
  <2>1. p[i] > r[i]
    <3>1. CASE i = k
      BY <1>0, <1>1, <1>2, <3>1
    <3>2. CASE i < k
      <4>1. i \in 1..(k - 1)
        BY <3>2
      <4> QED
        BY <1>0, <1>1, <1>2, <4>1
    <3> QED
      BY <1>3, <3>1, <3>2
  <2>2. ASSUME NEW j \in 1..(i - 1) PROVE p[j] = r[j]
    <3>1. j \in 1..(k - 1)
      BY <1>3
    <3> QED
      BY <1>1, <1>2, <3>1
  <2> QED
    BY <2>1, <2>2 DEF Ahead
<1>4. CASE k < i
  <2>1. k \in 1..(i - 1)
    BY <1>4
  <2>2. p[k] > r[k]
    BY <1>0, <1>1, <1>2, <2>1
  <2>3. ASSUME NEW j \in 1..(k - 1) PROVE p[j] = r[j]
    <3>1. j \in 1..(i - 1)
      BY <1>4
    <3> QED
      BY <1>1, <1>2, <3>1
  <2> QED
    BY <2>2, <2>3 DEF Ahead
<1> QED
  BY <1>3, <1>4

\* A set of numbers has a least one.
LEMMA Least ==
  ASSUME NEW S \in SUBSET Nat, S # {}
  PROVE  \E x \in S : \A y \in S : x <= y
<1> DEFINE less == {p \in Nat \X Nat : p[1] < p[2]}
<1>1. IsWellFoundedOn(less, Nat)
  BY NatLessThanWellFounded DEF OpToRel
<1>2. \A y \in Nat, x \in Nat : y < x => <<y, x>> \in less
  OBVIOUS
<1>3. \E x \in S : \A y \in S : ~(<<y, x>> \in less)
  <2> HIDE DEF less
  <2> QED
    BY <1>1, WFMin
<1>4. PICK x \in S : \A y \in S : ~(<<y, x>> \in less)
  BY <1>3
<1>5. ASSUME NEW y \in S PROVE x <= y
  <2>1. ~(y < x)
    BY <1>2, <1>4
  <2> QED
    BY <2>1
<1> QED
  BY <1>5

LEMMA AheadTotal ==
  ASSUME NEW n \in Nat, NEW p \in [1..n -> Int], NEW q \in [1..n -> Int], p # q
  PROVE  Ahead(p, q) \/ Ahead(q, p)
<1> DEFINE D == {i \in 1..n : p[i] # q[i]}
<1>1. D \in SUBSET Nat /\ D # {}
  OBVIOUS
<1>2. PICK i \in D : \A k \in D : i <= k
  <2> HIDE DEF D
  <2> QED
    BY <1>1, Least
<1>3. i \in 1..n /\ p[i] # q[i] /\ \A j \in 1..(i - 1) : p[j] = q[j]
  BY <1>2
<1> QED
  BY <1>3 DEF Ahead

\* A finite set has a first element of any strict order.
LEMMA First ==
  ASSUME NEW S, IsFiniteSet(S), S # {}, NEW R,
         \A x \in S : <<x, x>> \notin R,
         \A x, y, z \in S : <<x, y>> \in R /\ <<y, z>> \in R => <<x, z>> \in R
  PROVE  \E x \in S : \A y \in S : <<y, x>> \notin R
<1> DEFINE Before(x) == {y \in S : <<y, x>> \in R}
           K == {Cardinality(Before(x)) : x \in S}
<1>1. \A x \in S : /\ Before(x) \in SUBSET S /\ IsFiniteSet(Before(x))
                   /\ Cardinality(Before(x)) \in Nat
  BY FS_Subset, FS_CardinalityType
<1> HIDE DEF Before
<1>2. K \in SUBSET Nat /\ K # {}
  <2>1. PICK x \in S : TRUE
    OBVIOUS
  <2>2. Cardinality(Before(x)) \in K
    BY <2>1
  <2>3. \A k \in K : k \in Nat
    BY <1>1
  <2> QED
    BY <2>2, <2>3
<1>3. PICK x \in S : \A y \in S : Cardinality(Before(x)) <= Cardinality(Before(y))
  <2>1. PICK k \in K : \A j \in K : k <= j
    <3> HIDE DEF K
    <3> QED
      BY <1>2, Least
  <2>2. PICK x \in S : k = Cardinality(Before(x))
    BY <2>1
  <2>3. \A y \in S : Cardinality(Before(y)) \in K
    OBVIOUS
  <2> QED
    BY <2>1, <2>2, <2>3
<1>4. ASSUME NEW y \in S, <<y, x>> \in R PROVE FALSE
  <2>1. Before(y) \in SUBSET Before(x) /\ y \in Before(x) /\ y \notin Before(y)
    BY <1>4 DEF Before
  <2>2. /\ Cardinality(Before(y)) <= Cardinality(Before(x))
        /\ Cardinality(Before(y)) = Cardinality(Before(x)) => Before(x) = Before(y)
    BY <1>1, <2>1, FS_Subset
  <2>3. Cardinality(Before(y)) = Cardinality(Before(x))
    <3>1. /\ Cardinality(Before(y)) \in Nat /\ Cardinality(Before(x)) \in Nat
          /\ Cardinality(Before(x)) <= Cardinality(Before(y))
      BY <1>1, <1>3
    <3> QED
      BY <2>2, <3>1
  <2> QED
    BY <2>1, <2>2, <2>3
<1> QED
  BY <1>3, <1>4

---------------------------------------------------------------------------
(* Where the rows of a view stand.                                         *)

Width(v) == CASE v[1] = "karma"                 -> 4
              [] v[1] \in {"new", "store"}      -> 3
              [] v[1] \in {"events", "treasury"} -> 1
              [] OTHER                          -> 2

Places(v) == [1..Width(v) -> Int]

\* A listing or text that is there has its instant.
Placed ==
  /\ \A l \in Listings : listing[l].state # "none" => listing[l].at \in Instants
  /\ \A x \in Texts :
       /\ comments[x] # NoText => comments[x].at \in Instants
       /\ purchases[x] # NoText => purchases[x].at \in Instants

\* Tuples of numbers are functions on their indices.
LEMMA Tuples ==
  /\ \A a \in Int : <<a>> \in [1..1 -> Int]
  /\ \A a \in Int : \A b \in Int : <<a, b>> \in [1..2 -> Int]
  /\ \A a \in Int : \A b \in Int : \A c \in Int : <<a, b, c>> \in [1..3 -> Int]
  /\ \A a \in Int : \A b \in Int : \A c \in Int : \A d \in Int :
       <<a, b, c, d>> \in [1..4 -> Int]
OBVIOUS

\* Every row of a view has a place, and no two the same.
LEMMA RowsStand ==
  ASSUME SInv, Placed, NEW v \in Views
  PROVE  /\ Rows(v) \in SUBSET Listings \/ Rows(v) \in SUBSET Texts
         /\ Width(v) \in Nat
         /\ \A x \in Rows(v) : Position(v, x) \in Places(v)
         /\ \A x, y \in Rows(v) : Position(v, x) = Position(v, y) => x = y
<1>0. /\ listing \in [Listings -> Row] /\ events \subseteq Texts /\ fees \subseteq Texts
      /\ \A l \in Listings : listing[l].votes \in Nat /\ Pinned(l) \in Int
      /\ Listings \subseteq Int /\ Texts \subseteq Int /\ Instants \subseteq Int
      /\ None \notin Merchants /\ None \notin Listings
  BY SocietyAssumption DEF SInv, SocietyTypeOK, Row, Pinned
<1>1. CASE v[1] = "karma"
  <2>1. Rows(v) = ShelfRows /\ Width(v) = 4
        /\ \A x : Position(v, x) = <<Pinned(x), listing[x].votes, listing[x].at, x>>
    BY <1>1 DEF Rows, Position, Shelves, ShelfPosition, Width
  <2>2. ShelfRows \subseteq Listings /\ \A x \in ShelfRows : listing[x].at \in Int
    BY <1>0 DEF ShelfRows, Live, Placed
  <2>7. ASSUME NEW x \in Rows(v) PROVE Position(v, x) \in Places(v)
    <3>1. Pinned(x) \in Int /\ listing[x].votes \in Int /\ listing[x].at \in Int /\ x \in Int
      <4>1. x \in Listings /\ listing[x].at \in Int
        BY <2>1, <2>2
      <4> QED
        BY <1>0, <4>1
    <3>2. <<Pinned(x), listing[x].votes, listing[x].at, x>> \in [1..4 -> Int]
      BY <3>1, Tuples
    <3> QED
      BY <2>1, <2>2, <3>2 DEF Places
  <2>8. ASSUME NEW x \in Rows(v), NEW y \in Rows(v), Position(v, x) = Position(v, y)
        PROVE  x = y
    BY <2>1, <2>2, <2>8
  <2>9. Rows(v) \in SUBSET Listings \/ Rows(v) \in SUBSET Texts
    BY <2>1, <2>2
  <2> QED
    BY <2>1, <2>7, <2>8, <2>9
<1>2. CASE v[1] \in {"new", "store"}
  <2>1. Rows(v) \subseteq ShelfRows /\ Width(v) = 3
        /\ \A x : Position(v, x) = <<Pinned(x), listing[x].at, x>>
    BY <1>2 DEF Rows, StoreRows, Position, Shelves, ShelfPosition, StorePosition, Width
  <2>2. ShelfRows \subseteq Listings /\ \A x \in ShelfRows : listing[x].at \in Int
    BY <1>0 DEF ShelfRows, Live, Placed
  <2>7. ASSUME NEW x \in Rows(v) PROVE Position(v, x) \in Places(v)
    <3>1. Pinned(x) \in Int /\ listing[x].at \in Int /\ x \in Int
      BY <1>0, <2>1, <2>2
    <3>2. <<Pinned(x), listing[x].at, x>> \in [1..3 -> Int]
      BY <3>1, Tuples
    <3> QED
      BY <2>1, <2>2, <3>2 DEF Places
  <2>8. ASSUME NEW x \in Rows(v), NEW y \in Rows(v), Position(v, x) = Position(v, y)
        PROVE  x = y
    BY <2>1, <2>2, <2>8
  <2>9. Rows(v) \in SUBSET Listings \/ Rows(v) \in SUBSET Texts
    BY <2>1, <2>2
  <2> QED
    BY <2>1, <2>7, <2>8, <2>9
<1>3. CASE v[1] = "listings"
  <2>1. /\ Rows(v) \subseteq Listings /\ Width(v) = 2
        /\ \A x \in Rows(v) : Position(v, x) = <<listing[x].at, x>> /\ listing[x].at \in Int
    BY <1>0, <1>3 DEF Rows, MyListings, Position, Shelves, ListingPosition, Width, Placed
  <2>7. ASSUME NEW x \in Rows(v) PROVE Position(v, x) \in Places(v)
    <3>1. listing[x].at \in Int /\ x \in Int
      BY <1>0, <2>1
    <3>2. <<listing[x].at, x>> \in [1..2 -> Int]
      BY <3>1, Tuples
    <3> QED
      BY <2>1, <3>2 DEF Places
  <2>8. ASSUME NEW x \in Rows(v), NEW y \in Rows(v), Position(v, x) = Position(v, y)
        PROVE  x = y
    BY <2>1, <2>8
  <2>9. Rows(v) \in SUBSET Listings \/ Rows(v) \in SUBSET Texts
    BY <2>1
  <2> QED
    BY <2>1, <2>7, <2>8, <2>9
<1>4. CASE v[1] \in {"sales", "purchases", "history"}
  <2>1. v[2] \in Merchants
    BY <1>4 DEF Views, Shelves
  <2>2. /\ Rows(v) \subseteq Texts /\ Width(v) = 2
        /\ \A x \in Rows(v) : Position(v, x) = <<purchases[x].at, x>> /\ purchases[x] # NoText
    BY <1>0, <1>4, <2>1 DEF Rows, MySales, MyPurchases, History, Position, Shelves,
       PurchasePosition, HistoryPosition, Width, NoText
  <2>3. \A x \in Rows(v) : purchases[x].at \in Int
    BY <1>0, <2>2 DEF Placed
  <2>7. ASSUME NEW x \in Rows(v) PROVE Position(v, x) \in Places(v)
    <3>1. purchases[x].at \in Int /\ x \in Int
      BY <1>0, <2>2, <2>3
    <3>2. <<purchases[x].at, x>> \in [1..2 -> Int]
      BY <3>1, Tuples
    <3> QED
      BY <2>2, <2>3, <3>2 DEF Places
  <2>8. ASSUME NEW x \in Rows(v), NEW y \in Rows(v), Position(v, x) = Position(v, y)
        PROVE  x = y
    BY <2>2, <2>3, <2>8
  <2>9. Rows(v) \in SUBSET Listings \/ Rows(v) \in SUBSET Texts
    BY <2>2, <2>3
  <2> QED
    BY <2>2, <2>7, <2>8, <2>9
<1>5. CASE v[1] = "replies"
  <2>1. /\ Rows(v) \subseteq Texts /\ Width(v) = 2
        /\ \A x \in Rows(v) : Position(v, x) = <<comments[x].at, x>> /\ comments[x] # NoText
    BY <1>5 DEF Rows, MyReplies, Position, Shelves, ReplyPosition, Width
  <2>2. \A x \in Rows(v) : comments[x].at \in Int
    BY <1>0, <2>1 DEF Placed
  <2>7. ASSUME NEW x \in Rows(v) PROVE Position(v, x) \in Places(v)
    <3>1. comments[x].at \in Int /\ x \in Int
      BY <1>0, <2>1, <2>2
    <3>2. <<comments[x].at, x>> \in [1..2 -> Int]
      BY <3>1, Tuples
    <3> QED
      BY <2>1, <2>2, <3>2 DEF Places
  <2>8. ASSUME NEW x \in Rows(v), NEW y \in Rows(v), Position(v, x) = Position(v, y)
        PROVE  x = y
    BY <2>1, <2>2, <2>8
  <2>9. Rows(v) \in SUBSET Listings \/ Rows(v) \in SUBSET Texts
    BY <2>1, <2>2
  <2> QED
    BY <2>1, <2>7, <2>8, <2>9
<1>6. CASE v[1] = "comments"
  <2>1. v[2] \in Listings
    BY <1>6 DEF Views, Shelves
  <2>2. /\ Rows(v) \subseteq Texts /\ Width(v) = 2
        /\ \A x \in Rows(v) : Position(v, x) = <<-comments[x].at, -x>> /\ comments[x] # NoText
    BY <1>0, <1>6, <2>1 DEF Rows, CommentRows, Position, Shelves, CommentPosition, Width, NoText
  <2>3. \A x \in Rows(v) : comments[x].at \in Int
    BY <1>0, <2>2 DEF Placed
  <2>4. ASSUME NEW x \in Rows(v)
        PROVE  x \in Int /\ -comments[x].at \in Int /\ -x \in Int
    <3>1. x \in Int /\ comments[x].at \in Int
      BY <1>0, <2>2, <2>3
    <3> QED
      BY <3>1
  <2>7. ASSUME NEW x \in Rows(v) PROVE Position(v, x) \in Places(v)
    <3>1. -comments[x].at \in Int /\ -x \in Int
      BY <2>4
    <3>2. <<-comments[x].at, -x>> \in [1..2 -> Int]
      BY <3>1, Tuples
    <3> QED
      BY <2>2, <2>4, <3>2 DEF Places
  <2>8. ASSUME NEW x \in Rows(v), NEW y \in Rows(v), Position(v, x) = Position(v, y)
        PROVE  x = y
    <3>1. -x = -y
      BY <2>2, <2>8
    <3>2. x \in Int /\ y \in Int
      BY <2>4
    <3> QED
      BY <3>1, <3>2
  <2>9. Rows(v) \in SUBSET Listings \/ Rows(v) \in SUBSET Texts
    BY <2>2
  <2> QED
    BY <2>2, <2>7, <2>8, <2>9
<1>7. CASE v[1] \in {"events", "treasury"}
  <2>1. /\ Rows(v) \subseteq Texts /\ Width(v) = 1
        /\ \A x \in Rows(v) : Position(v, x) = <<x>>
    BY <1>0, <1>7 DEF Rows, Position, Shelves, EventPosition, FeePosition, Width
  <2>7. ASSUME NEW x \in Rows(v) PROVE Position(v, x) \in Places(v)
    <3>1. x \in Int
      BY <1>0, <2>1
    <3>2. <<x>> \in [1..1 -> Int]
      BY <3>1, Tuples
    <3> QED
      BY <2>1, <3>2 DEF Places
  <2>8. ASSUME NEW x \in Rows(v), NEW y \in Rows(v), Position(v, x) = Position(v, y)
        PROVE  x = y
    BY <2>1, <2>8
  <2>9. Rows(v) \in SUBSET Listings \/ Rows(v) \in SUBSET Texts
    BY <2>1
  <2> QED
    BY <2>1, <2>7, <2>8, <2>9
<1> QED
  BY <1>1, <1>2, <1>3, <1>4, <1>5, <1>6, <1>7 DEF Views, Shelves

---------------------------------------------------------------------------
(* A page is the first of the rows that are left.                          *)

IsLast(v, items, x) ==
  x \in items /\ \A y \in items : ~Ahead(Position(v, x), Position(v, y))

\* A page that is not the whole rest has a last row, and holds the rows up to it.
LEMMA PageIs ==
  ASSUME SInv, Placed, NEW v \in Views, NEW n \in Nat, n # 0, NEW rest \in SUBSET Rows(v),
         NEW items, items = PageOf(v, rest, n), rest # items
  PROVE  /\ \E x : IsLast(v, items, x)
         /\ \A x : IsLast(v, items, x) =>
              \A y \in rest : y \in items <=> ~Ahead(Position(v, x), Position(v, y))
<1> DEFINE Pos(x) == Position(v, x)
           Before(x) == {y \in rest : Ahead(Pos(y), Pos(x))}
<1>1. /\ IsFiniteSet(rest) /\ Width(v) \in Nat
      /\ \A x \in rest : Pos(x) \in Places(v)
      /\ \A x, y \in rest : Pos(x) = Pos(y) => x = y
  <2>1. IsFiniteSet(Rows(v))
    BY RowsStand, SocietyAssumption, FS_Subset
  <2> QED
    BY <2>1, RowsStand, FS_Subset
<1>2. /\ \A x \in rest : ~Ahead(Pos(x), Pos(x))
      /\ \A x, y, z \in rest :
           Ahead(Pos(x), Pos(y)) /\ Ahead(Pos(y), Pos(z)) => Ahead(Pos(x), Pos(z))
      /\ \A x, y \in rest : x # y => Ahead(Pos(x), Pos(y)) \/ Ahead(Pos(y), Pos(x))
  <2> HIDE DEF Pos
  <2>1. \A x \in rest : ~Ahead(Pos(x), Pos(x))
    BY <1>1, AheadNotSelf DEF Places
  <2>2. ASSUME NEW x \in rest, NEW y \in rest, NEW z \in rest,
               Ahead(Pos(x), Pos(y)), Ahead(Pos(y), Pos(z))
        PROVE  Ahead(Pos(x), Pos(z))
    BY <1>1, <2>2, AheadThrough DEF Places
  <2>3. ASSUME NEW x \in rest, NEW y \in rest, x # y
        PROVE  Ahead(Pos(x), Pos(y)) \/ Ahead(Pos(y), Pos(x))
    BY <1>1, <2>3, AheadTotal DEF Places
  <2> QED
    BY <2>1, <2>2, <2>3
<1>3. items = {x \in rest : Cardinality(Before(x)) < n}
  BY DEF PageOf
<1> HIDE DEF Pos
<1>4. \A x \in rest : IsFiniteSet(Before(x)) /\ Cardinality(Before(x)) \in Nat
  <2>1. \A x \in rest : Before(x) \in SUBSET rest
    OBVIOUS
  <2> QED
    BY <1>1, <2>1, FS_Subset, FS_CardinalityType
<1>5. ASSUME NEW x \in items, NEW y \in rest, Ahead(Pos(y), Pos(x)) PROVE y \in items
  <2>1. x \in rest /\ Cardinality(Before(x)) < n
    BY <1>3
  <2>2. Before(y) \in SUBSET Before(x)
    BY <1>2, <1>5, <2>1
  <2>3. Cardinality(Before(y)) <= Cardinality(Before(x))
    <3> HIDE DEF Before
    <3> QED
      BY <1>4, <2>1, <2>2, FS_Subset
  <2>4. Cardinality(Before(y)) < n
    <3> HIDE DEF Before
    <3> QED
      BY <1>4, <2>1, <2>3
  <2> QED
    BY <1>3, <2>4
<1>6. items # {} /\ items \in SUBSET rest /\ IsFiniteSet(items)
  <2>1. items \in SUBSET rest /\ rest # {}
    BY <1>3
  <2> DEFINE R == {p \in rest \X rest : Ahead(Pos(p[1]), Pos(p[2]))}
  <2>2. \A x, y \in rest : <<x, y>> \in R <=> Ahead(Pos(x), Pos(y))
    OBVIOUS
  <2> HIDE DEF R
  <2>3. \E x \in rest : \A y \in rest : <<y, x>> \notin R
    <3>1. \A x \in rest : <<x, x>> \notin R
      BY <1>2, <2>2
    <3>2. \A x, y, z \in rest : <<x, y>> \in R /\ <<y, z>> \in R => <<x, z>> \in R
      BY <1>2, <2>2
    <3> QED
      BY <1>1, <2>1, <3>1, <3>2, First
  <2>4. PICK x \in rest : Before(x) = {}
    BY <2>2, <2>3
  <2>5. Cardinality(Before(x)) = 0
    BY <2>4, FS_EmptySet
  <2>6. x \in items
    BY <1>3, <2>5
  <2> QED
    BY <1>1, <2>1, <2>6, FS_Subset
<1>7. \E x : IsLast(v, items, x)
  <2> DEFINE R == {p \in items \X items : Ahead(Pos(p[2]), Pos(p[1]))}
  <2>2. \A x, y \in items : <<x, y>> \in R <=> Ahead(Pos(y), Pos(x))
    OBVIOUS
  <2> HIDE DEF R
  <2>3. \E x \in items : \A y \in items : <<y, x>> \notin R
    <3>1. \A x \in items : <<x, x>> \notin R
      BY <1>2, <1>6, <2>2
    <3>2. \A x, y, z \in items : <<x, y>> \in R /\ <<y, z>> \in R => <<x, z>> \in R
      BY <1>2, <1>6, <2>2
    <3> QED
      BY <1>6, <3>1, <3>2, First
  <2> QED
    BY <2>2, <2>3 DEF IsLast, Pos
<1>8. ASSUME NEW x, IsLast(v, items, x), NEW y \in rest
      PROVE  y \in items <=> ~Ahead(Position(v, x), Position(v, y))
  <2>1. x \in items /\ x \in rest /\ \A z \in items : ~Ahead(Pos(x), Pos(z))
    BY <1>6, <1>8 DEF IsLast, Pos
  <2>2. ASSUME y \notin items PROVE Ahead(Pos(x), Pos(y))
    BY <1>2, <1>5, <2>1, <2>2
  <2> QED
    BY <2>1, <2>2 DEF Pos
<1> QED
  BY <1>7, <1>8

---------------------------------------------------------------------------
(* What a row keeps while the society goes on.                             *)

\* A listing that is there stays, with its instant; a new one has one.
Moves(l) ==
  /\ listing[l].state # "none" =>
       listing'[l].state # "none" /\ listing'[l].at = listing[l].at
  /\ listing'[l].state # "none" =>
       listing[l].state # "none" \/ listing'[l].at \in Instants

LEMMA RowMoves ==
  ASSUME listing \in [Listings -> Row], NEW l \in Listings, NEW row \in Row,
         listing' = [listing EXCEPT ![l] = row],
         listing[l].state # "none" => row.state # "none" /\ row.at = listing[l].at,
         row.state # "none" => listing[l].state # "none" \/ row.at \in Instants
  PROVE  \A k \in Listings : Moves(k)
<1>1. listing'[l] = row /\ \A k \in Listings : k # l => listing'[k] = listing[k]
  OBVIOUS
<1> QED
  BY <1>1 DEF Moves

LEMMA CallMoves ==
  ASSUME SInv, NEW c \in Calls, CallStep(c)
  PROVE  \A k \in Listings : Moves(k)
<1>0. listing \in [Listings -> Row]
  BY DEF SInv, SocietyTypeOK
<1>1. CASE UNCHANGED listing
  BY <1>1 DEF Moves
<1>2. CASE CountVote(c)
  <2> DEFINE l == call[c].l
             r == listing[l]
             row == [r EXCEPT !.votes = @ + 1]
  <2>1. l \in Listings
    BY <1>2 DEF SInv, Busy, Working, CountVote
  <2>2. r \in Row
    BY <1>0, <2>1
  <2>3. listing' = [listing EXCEPT ![l] = row]
    BY <1>2 DEF CountVote
  <2>4. row \in Row /\ row.state = r.state /\ row.at = r.at
    <3> HIDE DEF r
    <3> QED
      BY <2>2 DEF Row
  <2> HIDE DEF row, l
  <2> QED
    BY <1>0, <2>1, <2>3, <2>4, RowMoves DEF r
<1>3. CASE PinListing(c)
  <2> DEFINE l == call[c].l
             r == listing[l]
             row == [r EXCEPT !.pinned = (call[c].kind = "pin")]
  <2>1. l \in Listings
    BY <1>3 DEF SInv, Busy, Working, PinListing
  <2>2. r \in Row
    BY <1>0, <2>1
  <2>3. UNCHANGED listing \/ listing' = [listing EXCEPT ![l] = row]
    BY <1>3 DEF PinListing
  <2>4. row \in Row /\ row.state = r.state /\ row.at = r.at
    <3> HIDE DEF r
    <3>1. (call[c].kind = "pin") \in BOOLEAN
      OBVIOUS
    <3> QED
      BY <2>2, <3>1 DEF Row
  <2> HIDE DEF row, l
  <2> QED
    BY <1>0, <1>1, <2>1, <2>3, <2>4, RowMoves DEF r
<1> QED
  BY <1>1, <1>2, <1>3 DEF CallStep, Auth, Look, ReadPrior, SpendQuota, InsertVote,
     RefundQuota, CountKarma, ReadBuyer, Abandon, LogEvent, InsertComment

LEMMA ListingsMove ==
  ASSUME SInv, [SocietyNext]_society
  PROVE  \A k \in Listings : Moves(k)
<1>0. listing \in [Listings -> Row]
  BY DEF SInv, SocietyTypeOK
<1>1. CASE UNCHANGED listing
  BY <1>1 DEF Moves
<1>2. ASSUME NEW l \in Listings, NEW at \in Instants, List(l, at)
      PROVE  \A k \in Listings : Moves(k)
  <2> DEFINE row == [listing[l] EXCEPT !.state = "live", !.at = at]
  <2>1. listing[l] \in Row
    BY <1>0
  <2>2. row \in Row /\ row.state = "live" /\ row.at = at
    BY <2>1 DEF Row
  <2>3. listing' = [listing EXCEPT ![l] = row] /\ listing[l].state = "none"
    BY <1>2 DEF List
  <2> HIDE DEF row
  <2> QED
    BY <1>0, <2>2, <2>3, RowMoves
<1>3. ASSUME NEW l \in Listings, Leave(l) PROVE \A k \in Listings : Moves(k)
  <2> DEFINE row == [listing[l] EXCEPT !.state = "gone"]
  <2>1. listing[l] \in Row
    BY <1>0
  <2>2. row \in Row /\ row.state = "gone" /\ row.at = listing[l].at
    BY <2>1 DEF Row
  <2>3. listing' = [listing EXCEPT ![l] = row] /\ listing[l].state = "live"
    BY <1>3 DEF Leave, Live
  <2> HIDE DEF row
  <2> QED
    BY <1>0, <2>2, <2>3, RowMoves
<1>4. ASSUME NEW c \in Calls, CallStep(c) PROVE \A k \in Listings : Moves(k)
  BY <1>4, CallMoves
<1> QED
  BY <1>1, <1>2, <1>3, <1>4 DEF SocietyNext, society, Ask, Buy, LogOther, RecordFee, Midnight

TextsStay ==
  /\ \A x \in Texts : comments[x] # NoText => comments'[x] = comments[x]
  /\ \A x \in Texts : purchases[x] # NoText => purchases'[x] = purchases[x]
  /\ events \subseteq events' /\ fees \subseteq fees'

TextsPlaced == \A x \in Texts :
                 /\ comments[x] # NoText => comments[x].at \in Instants
                 /\ purchases[x] # NoText => purchases[x].at \in Instants

LEMMA TextsPersist ==
  ASSUME SInv, TextsPlaced, [SocietyNext]_society
  PROVE  TextsStay /\ TextsPlaced'
<1>0. comments \in [Texts -> Text] /\ purchases \in [Texts -> Text]
  BY DEF SInv, SocietyTypeOK
<1>1. CASE UNCHANGED <<comments, purchases>> /\ events \subseteq events' /\ fees \subseteq fees'
  BY <1>1 DEF TextsStay, TextsPlaced
<1>2. ASSUME NEW c \in Calls, NEW x \in Texts, NEW at \in Instants, InsertComment(c, x, at)
      PROVE  TextsStay /\ TextsPlaced'
  <2>1. /\ comments[x] = NoText /\ UNCHANGED <<purchases, events, fees>>
        /\ comments'[x].at = at
        /\ \A y \in Texts : y # x => comments'[y] = comments[y]
    BY <1>0, <1>2 DEF InsertComment
  <2> QED
    BY <2>1 DEF TextsStay, TextsPlaced
<1>3. ASSUME NEW x \in Texts, NEW m \in Merchants, NEW l \in Listings, NEW at \in Instants,
             Buy(x, m, l, at)
      PROVE  TextsStay /\ TextsPlaced'
  <2>1. /\ purchases[x] = NoText /\ UNCHANGED <<comments, events, fees>>
        /\ purchases'[x].at = at
        /\ \A y \in Texts : y # x => purchases'[y] = purchases[y]
    BY <1>0, <1>3 DEF Buy
  <2> QED
    BY <2>1 DEF TextsStay, TextsPlaced
<1> QED
  BY <1>1, <1>2, <1>3 DEF SocietyNext, society, Ask, CallStep, Auth, Look, ReadPrior,
     SpendQuota, InsertVote, RefundQuota, CountVote, CountKarma, ReadBuyer, PinListing,
     Abandon, LogEvent, List, Leave, LogOther, RecordFee, Midnight

LEMMA PlacedStays ==
  ASSUME SInv, Placed, [SocietyNext]_society
  PROVE  Placed'
<1>1. TextsPlaced' /\ \A l \in Listings : Moves(l)
  BY TextsPersist, ListingsMove DEF Placed, TextsPlaced
<1> QED
  BY <1>1 DEF Moves, Placed, TextsPlaced

\* In every view but the shelves and the stores a row stays, where it stands.
LEMMA RowsStay ==
  ASSUME SInv, Placed, [SocietyNext]_society, NEW v \in Views,
         v[1] \notin Shelves \cup {"store"}, NEW x \in Rows(v)
  PROVE  x \in Rows(v)' /\ Position(v, x)' = Position(v, x)
<1>0. /\ TextsStay /\ events \subseteq Texts /\ fees \subseteq Texts
      /\ None \notin Merchants /\ None \notin Listings
  BY TextsPersist, SocietyAssumption DEF Placed, TextsPlaced, SInv, SocietyTypeOK
<1>1. CASE v[1] = "listings"
  <2>1. x \in Listings /\ Owner[x] = v[2] /\ listing[x].state # "none"
    BY <1>1 DEF Rows, MyListings, Shelves
  <2>2. listing'[x].state # "none" /\ listing'[x].at = listing[x].at
    BY <2>1, ListingsMove DEF Moves
  <2> QED
    BY <1>1, <2>1, <2>2 DEF Rows, MyListings, Position, ListingPosition, Shelves
<1>2. CASE v[1] \in {"sales", "purchases", "history"}
  <2>1. v[2] \in Merchants
    BY <1>2 DEF Views, Shelves
  <2>2. x \in Texts /\ purchases[x] # NoText
    BY <1>0, <1>2, <2>1 DEF Rows, MySales, MyPurchases, History, Shelves, NoText
  <2>3. purchases'[x] = purchases[x]
    BY <1>0, <2>2 DEF TextsStay
  <2> QED
    BY <1>2, <2>2, <2>3 DEF Rows, MySales, MyPurchases, History, Position, PurchasePosition,
       HistoryPosition, Shelves
<1>3. CASE v[1] \in {"replies", "comments"}
  <2>1. v[1] = "comments" => v[2] \in Listings
    BY <1>3 DEF Views, Shelves
  <2>2. x \in Texts /\ comments[x] # NoText
    BY <1>0, <1>3, <2>1 DEF Rows, MyReplies, CommentRows, Shelves, NoText
  <2>3. comments'[x] = comments[x]
    BY <1>0, <2>2 DEF TextsStay
  <2> QED
    BY <1>3, <2>2, <2>3 DEF Rows, MyReplies, CommentRows, Position, ReplyPosition,
       CommentPosition, Shelves
<1>4. CASE v[1] \in {"events", "treasury"}
  BY <1>0, <1>4 DEF TextsStay, Rows, Position, EventPosition, FeePosition, Shelves
<1> QED
  BY <1>1, <1>2, <1>3, <1>4 DEF Views, Shelves

---------------------------------------------------------------------------
(* The reader and what he has seen.                                        *)

Fields == DOMAIN IdleReader

\* Between two pages: the cursor is the place of the last row, which is still there
\* unless the view is a shelf or a store; and of the rows that kept their places he
\* has seen those up to the cursor.
Between(r) ==
  LET v == r.view IN
  /\ v \in Views /\ r.cursor.id \in Listings \cup Texts /\ r.cursor.pos \in Places(v)
  /\ \A x \in r.kept : r.stood[x] \in Places(v)
  /\ ~r.slid => \A x \in r.kept : x \in r.seen <=> ~Ahead(r.cursor.pos, r.stood[x])

Anchored ==
  \A v \in Views : \A x \in Listings \cup Texts :
    reader.view = v /\ reader.cursor.id = x =>
    \/ v[1] \in Shelves \cup {"store"}
    \/ x \in Rows(v) /\ Position(v, x) = reader.cursor.pos

RInv ==
  /\ DOMAIN reader = Fields
  /\ reader.pc \in {"idle", "more", "done", "refused"}
  /\ reader.pc = "idle" => reader = IdleReader
  /\ reader.pc = "more" => Between(reader) /\ Anchored
  /\ PagesWhole

LEMMA GivenIs ==
  ASSUME DOMAIN reader = Fields, NEW v, NEW items, NEW g, g = Given(v, items)
  PROVE  /\ DOMAIN g = Fields
         /\ g.pc = reader.pc /\ g.view = v /\ g.cursor = reader.cursor
         /\ g.seen = reader.seen \cup items
         /\ g.twice = reader.twice \cup (reader.seen \cap items)
         /\ reader.cursor.id = None =>
              g.stood = [x \in Rows(v) |-> Position(v, x)] /\ g.kept = Rows(v)
         /\ reader.cursor.id # None =>
              /\ g.stood = reader.stood
              /\ g.kept = {x \in reader.kept \cap Rows(v) : Position(v, x) = reader.stood[x]}
         /\ g.slid <=> \/ reader.slid
                       \/ /\ v[1] \notin Shelves /\ ~(reader.cursor.id = None)
                          /\ Position(v, reader.cursor.id) # reader.cursor.pos
<1> DEFINE r == reader
<1>1. /\ "pc" \in DOMAIN r /\ "view" \in DOMAIN r /\ "cursor" \in DOMAIN r
      /\ "kept" \in DOMAIN r /\ "stood" \in DOMAIN r /\ "seen" \in DOMAIN r
      /\ "twice" \in DOMAIN r /\ "slid" \in DOMAIN r
  BY DEF Fields, IdleReader
<1> DEFINE first == r.cursor.id = None
           stood == IF first THEN [x \in Rows(v) |-> Position(v, x)] ELSE r.stood
           kept == IF first THEN Rows(v)
                   ELSE {x \in r.kept \cap Rows(v) : Position(v, x) = stood[x]}
           slides == \/ r.slid
                     \/ /\ v[1] \notin Shelves /\ ~(r.cursor.id = None)
                        /\ Position(v, r.cursor.id) # r.cursor.pos
<1> HIDE DEF r
<1>2. g = [r EXCEPT !.view = v, !.stood = stood, !.kept = kept, !.seen = r.seen \cup items,
                    !.twice = r.twice \cup (r.seen \cap items), !.slid = slides]
  BY DEF Given, r
<1>3. g.slid <=> slides
  <2> HIDE DEF stood, kept
  <2> QED
    BY <1>1, <1>2
<1> HIDE DEF stood, kept, slides
<1>4. /\ DOMAIN g = DOMAIN r
      /\ g.pc = r.pc /\ g.view = v /\ g.cursor = r.cursor /\ g.stood = stood
      /\ g.kept = kept /\ g.seen = r.seen \cup items
      /\ g.twice = r.twice \cup (r.seen \cap items)
  BY <1>1, <1>2
<1> QED
  BY <1>3, <1>4 DEF r, stood, kept, slides

LEMMA SameViews ==
  ASSUME UNCHANGED society, NEW v, NEW x
  PROVE  Rows(v)' = Rows(v) /\ Position(v, x)' = Position(v, x)
BY DEF society, Rows, ShelfRows, Live, StoreRows, MyListings, MySales, MyPurchases, History,
   MyReplies, CommentRows, Position, ShelfPosition, StorePosition, Pinned, ListingPosition,
   PurchasePosition, HistoryPosition, ReplyPosition, CommentPosition, EventPosition, FeePosition

\* What a page does, in the terms of the view.
LEMMA PageGives ==
  ASSUME SInv, Placed, RInv, NEW v \in Views, NEW n \in Nat, n # 0, ReadPage(v, n)
  PROVE  LET r == reader
             s == reader'
         IN
         \/ /\ r.pc = "more" /\ v = r.view /\ v[1] = "store"
            /\ s = [r EXCEPT !.pc = "refused"]
         \/ \E rest \in SUBSET Rows(v), items \in SUBSET Rows(v) :
              /\ s.pc \in {"more", "done"}
              /\ s.pc = "done" => rest = items
              /\ \A x \in items : x \in rest
              /\ s.pc = "more" =>
                   /\ IsLast(v, items, s.cursor.id)
                   /\ s.cursor.pos = Position(v, s.cursor.id)
                   /\ \A y \in rest : y \in items <=> ~Ahead(s.cursor.pos, Position(v, y))
              /\ DOMAIN s = Fields /\ s.view = v /\ s.seen = r.seen \cup items
              /\ s.twice = r.twice \cup (r.seen \cap items)
              /\ \/ /\ r = IdleReader /\ rest = Rows(v) /\ ~s.slid
                    /\ s.kept = Rows(v) /\ \A x \in Rows(v) : s.stood[x] = Position(v, x)
                 \/ /\ r.pc = "more" /\ v = r.view /\ s.stood = r.stood
                    /\ \A x \in s.kept : /\ x \in r.kept /\ x \in Rows(v)
                                         /\ Position(v, x) = r.stood[x]
                    /\ s.slid => r.slid \/ v[1] = "store"
                    /\ ~s.slid => ~r.slid /\ rest = {x \in Rows(v) :
                                                  Ahead(r.cursor.pos, Position(v, x))}
<1> DEFINE r == reader
           rest == Rest(v, r.cursor)
           items == PageOf(v, rest, n)
           last == CHOOSE x \in items : \A y \in items : ~Ahead(Position(v, x), Position(v, y))
           g == Given(v, items)
<1>1. /\ \/ r = IdleReader
         \/ r.pc = "more" /\ v = r.view
      /\ reader' = IF Refused(v, r.cursor) THEN [r EXCEPT !.pc = "refused"]
                   ELSE IF rest = items THEN [g EXCEPT !.pc = "done"]
                   ELSE [g EXCEPT !.pc = "more",
                                  !.cursor = [id |-> last, pos |-> Position(v, last)]]
  <2>1. \/ r.pc = "idle"
        \/ r.pc = "more" /\ v = r.view
    BY DEF ReadPage
  <2>2. r.pc = "idle" => r = IdleReader
    BY DEF RInv
  <2> QED
    BY <2>1, <2>2, Zenon DEF ReadPage
<1>2. r.pc = "more" => Between(r) /\ Anchored
  BY DEF RInv
<1>3. ASSUME Refused(v, r.cursor)
      PROVE  /\ r.pc = "more" /\ v = r.view /\ v[1] = "store"
             /\ reader' = [r EXCEPT !.pc = "refused"]
  <2>1. r.cursor.id # None /\ r.cursor.id \notin Rows(v) /\ v[1] \notin Shelves
    BY <1>3 DEF Refused
  <2>2. r.pc = "more" /\ v = r.view
    BY <1>1, <2>1 DEF IdleReader, NoCursor
  <2> QED
    BY <1>1, <1>2, <1>3, <2>1, <2>2 DEF Anchored, Between
<1>4. rest \in SUBSET Rows(v) /\ items \in SUBSET rest
  BY DEF Rest, PageOf
<1>5. /\ DOMAIN g = Fields /\ g.view = v /\ g.seen = r.seen \cup items
      /\ g.twice = r.twice \cup (r.seen \cap items)
      /\ r.cursor.id = None =>
           g.stood = [x \in Rows(v) |-> Position(v, x)] /\ g.kept = Rows(v)
      /\ r.cursor.id # None =>
           /\ g.stood = r.stood
           /\ g.kept = {x \in r.kept \cap Rows(v) : Position(v, x) = r.stood[x]}
      /\ g.slid <=> \/ r.slid
                    \/ /\ v[1] \notin Shelves /\ ~(r.cursor.id = None)
                       /\ Position(v, r.cursor.id) # r.cursor.pos
  <2> HIDE DEF items
  <2> QED
    BY GivenIs DEF RInv
<1>6. ASSUME rest # items
      PROVE  /\ IsLast(v, items, last)
             /\ \A y \in rest : y \in items <=> ~Ahead(Position(v, last), Position(v, y))
  <2> HIDE DEF rest
  <2>1. /\ \E x : IsLast(v, items, x)
        /\ \A x : IsLast(v, items, x) =>
             \A y \in rest : y \in items <=> ~Ahead(Position(v, x), Position(v, y))
    BY <1>4, <1>6, PageIs
  <2> HIDE DEF items
  <2>2. IsLast(v, items, last)
    BY <2>1 DEF IsLast
  <2> HIDE DEF last
  <2> QED
    BY <2>1, <2>2
<1> HIDE DEF g, last, items, rest
<1>7. ASSUME ~Refused(v, r.cursor)
      PROVE  LET s == reader' IN
             /\ s.pc = IF rest = items THEN "done" ELSE "more"
             /\ rest # items => s.cursor.id = last /\ s.cursor.pos = Position(v, last)
             /\ DOMAIN s = Fields /\ s.view = g.view /\ s.seen = g.seen
             /\ s.twice = g.twice /\ s.stood = g.stood /\ s.kept = g.kept /\ s.slid = g.slid
  <2>1. /\ "pc" \in DOMAIN g /\ "view" \in DOMAIN g /\ "cursor" \in DOMAIN g
        /\ "kept" \in DOMAIN g /\ "stood" \in DOMAIN g /\ "seen" \in DOMAIN g
        /\ "twice" \in DOMAIN g /\ "slid" \in DOMAIN g
    BY <1>5 DEF Fields, IdleReader
  <2>2. CASE rest = items
    <3>1. reader' = [g EXCEPT !.pc = "done"]
      BY <1>1, <1>7, <2>2
    <3> QED
      BY <1>5, <2>1, <2>2, <3>1
  <2>3. CASE rest # items
    <3>1. reader' = [g EXCEPT !.pc = "more",
                              !.cursor = [id |-> last, pos |-> Position(v, last)]]
      BY <1>1, <1>7, <2>3
    <3> QED
      BY <1>5, <2>1, <2>3, <3>1
  <2> QED
    BY <2>2, <2>3
<1>8. CASE ~Refused(v, r.cursor) /\ r = IdleReader
  <2>1. r.cursor.id = None /\ ~r.slid
    BY <1>8 DEF IdleReader, NoCursor
  <2>2. rest = Rows(v)
    BY <2>1 DEF rest, Rest
  <2>3. items \in SUBSET Rows(v) /\ rest \in SUBSET Rows(v)
    BY <1>4
  <2>4. /\ reader'.pc \in {"more", "done"}
        /\ reader'.pc = "done" => rest = items
        /\ reader'.pc = "more" =>
             /\ IsLast(v, items, reader'.cursor.id)
             /\ reader'.cursor.pos = Position(v, reader'.cursor.id)
             /\ \A y \in rest : y \in items <=> ~Ahead(reader'.cursor.pos, Position(v, y))
    BY <1>6, <1>7, <1>8
  <2>5. /\ DOMAIN reader' = Fields /\ reader'.view = v /\ reader'.seen = r.seen \cup items
        /\ reader'.twice = r.twice \cup (r.seen \cap items)
        /\ ~reader'.slid /\ reader'.kept = Rows(v)
        /\ \A x \in Rows(v) : reader'.stood[x] = Position(v, x)
    BY <1>5, <1>7, <1>8, <2>1
  <2> QED
    BY <1>4, <1>8, <2>2, <2>3, <2>4, <2>5
<1>9. CASE ~Refused(v, r.cursor) /\ r.pc = "more" /\ v = r.view
  <2>1. r.cursor.id # None /\ r.cursor.id \in Listings \cup Texts /\ Anchored
    BY <1>2, <1>9, SocietyAssumption DEF Between
  <2>3. items \in SUBSET Rows(v) /\ rest \in SUBSET Rows(v)
    BY <1>4
  <2>4. /\ reader'.pc \in {"more", "done"}
        /\ reader'.pc = "done" => rest = items
        /\ reader'.pc = "more" =>
             /\ IsLast(v, items, reader'.cursor.id)
             /\ reader'.cursor.pos = Position(v, reader'.cursor.id)
             /\ \A y \in rest : y \in items <=> ~Ahead(reader'.cursor.pos, Position(v, y))
    BY <1>6, <1>7, <1>9
  <2>5. /\ DOMAIN reader' = Fields /\ reader'.view = v /\ reader'.seen = r.seen \cup items
        /\ reader'.twice = r.twice \cup (r.seen \cap items)
        /\ reader'.stood = r.stood
        /\ reader'.kept = {x \in r.kept \cap Rows(v) : Position(v, x) = r.stood[x]}
        /\ reader'.slid <=> \/ r.slid
                            \/ /\ v[1] \notin Shelves
                               /\ Position(v, r.cursor.id) # r.cursor.pos
    BY <1>5, <1>7, <1>9, <2>1
  <2>6. reader'.slid => r.slid \/ v[1] = "store"
    BY <1>9, <2>1, <2>5 DEF Anchored
  <2>7. ASSUME ~reader'.slid
        PROVE  ~r.slid /\ rest = {x \in Rows(v) : Ahead(r.cursor.pos, Position(v, x))}
    <3>1. ~r.slid /\ After(v, r.cursor) = r.cursor.pos
      BY <2>5, <2>7 DEF After
    <3> QED
      BY <2>1, <3>1 DEF rest, Rest
  <2> QED
    BY <1>4, <1>9, <2>3, <2>4, <2>5, <2>6, <2>7
<1> QED
  BY <1>1, <1>3, <1>8, <1>9

LEMMA AheadThroughRows ==
  ASSUME SInv, Placed, NEW v \in Views, NEW p \in Places(v), NEW x \in Rows(v),
         NEW y \in Rows(v), Ahead(p, Position(v, x)), Ahead(Position(v, x), Position(v, y))
  PROVE  Ahead(p, Position(v, y))
BY RowsStand, AheadThrough DEF Places

\* A page leaves the reader a whole view so far.
LEMMA PageKeeps ==
  ASSUME SInv, Placed, RInv, NEW v \in Views, NEW n \in Nat, n # 0, ReadPage(v, n)
  PROVE  RInv'
<1> DEFINE r == reader
           s == reader'
<1>1. CASE /\ r.pc = "more" /\ v = r.view /\ v[1] = "store"
           /\ s = [r EXCEPT !.pc = "refused"]
  <2>1. /\ "pc" \in DOMAIN r /\ "view" \in DOMAIN r /\ "kept" \in DOMAIN r
        /\ "seen" \in DOMAIN r /\ "twice" \in DOMAIN r /\ "slid" \in DOMAIN r
        /\ DOMAIN r = Fields
    BY DEF RInv, Fields, IdleReader
  <2>2. /\ DOMAIN s = Fields /\ s.pc = "refused" /\ s.view = r.view /\ s.kept = r.kept
        /\ s.seen = r.seen /\ s.twice = r.twice /\ s.slid = r.slid
    BY <1>1, <2>1
  <2> QED
    BY <1>1, <2>2 DEF RInv, PagesWhole
<1>2. ASSUME NEW rest \in SUBSET Rows(v), NEW items \in SUBSET Rows(v),
             s.pc \in {"more", "done"}, s.pc = "done" => rest = items,
             \A x \in items : x \in rest,
             s.pc = "more" =>
               /\ IsLast(v, items, s.cursor.id)
               /\ s.cursor.pos = Position(v, s.cursor.id)
               /\ \A y \in rest : y \in items <=> ~Ahead(s.cursor.pos, Position(v, y)),
             DOMAIN s = Fields, s.view = v, s.seen = r.seen \cup items,
             s.twice = r.twice \cup (r.seen \cap items),
             \/ /\ r = IdleReader /\ rest = Rows(v) /\ ~s.slid
                /\ s.kept = Rows(v) /\ \A x \in Rows(v) : s.stood[x] = Position(v, x)
             \/ /\ r.pc = "more" /\ v = r.view /\ s.stood = r.stood
                /\ \A x \in s.kept : /\ x \in r.kept /\ x \in Rows(v)
                                     /\ Position(v, x) = r.stood[x]
                /\ s.slid => r.slid \/ v[1] = "store"
                /\ ~s.slid => ~r.slid /\ rest = {x \in Rows(v) :
                                              Ahead(r.cursor.pos, Position(v, x))}
      PROVE  RInv'
  <2>1. \A x \in Rows(v) : Position(v, x) \in Places(v)
    BY RowsStand
  <2>2. \A x \in Rows(v) : x \in Listings \cup Texts
    BY RowsStand
  <2>3. ASSUME NEW x \in s.kept PROVE x \in Rows(v) /\ s.stood[x] = Position(v, x)
    BY <1>2
  <2> DEFINE Whole == /\ ~s.slid => s.kept \cap s.twice = {}
                      /\ s.pc = "done" /\ ~s.slid => s.kept \subseteq s.seen
                      /\ s.pc = "more" /\ ~s.slid => \A x \in s.kept :
                           x \in s.seen <=> ~Ahead(s.cursor.pos, s.stood[x])
                      /\ s.slid => v[1] = "store"
  <2>4. ASSUME r = IdleReader /\ rest = Rows(v) /\ ~s.slid /\ s.kept = Rows(v) PROVE Whole
    <3>1. r.seen = {} /\ r.twice = {}
      BY <2>4 DEF IdleReader
    <3>2. s.seen = items /\ s.twice = {}
      BY <1>2, <3>1
    <3>3. ASSUME s.pc = "more", NEW x \in s.kept
          PROVE  x \in s.seen <=> ~Ahead(s.cursor.pos, s.stood[x])
      <4>1. x \in rest /\ s.stood[x] = Position(v, x)
        BY <2>3, <2>4
      <4> QED
        BY <1>2, <3>2, <3>3, <4>1
    <3> QED
      BY <1>2, <2>4, <3>2, <3>3
  <2>5. ASSUME r.pc = "more", v = r.view, s.stood = r.stood,
               \A x \in s.kept : /\ x \in r.kept /\ x \in Rows(v)
                                 /\ Position(v, x) = r.stood[x],
               s.slid => r.slid \/ v[1] = "store",
               ~s.slid => ~r.slid /\ rest = {x \in Rows(v) :
                                           Ahead(r.cursor.pos, Position(v, x))}
        PROVE  Whole
    <3>1. /\ Between(r) /\ r.cursor.pos \in Places(v)
          /\ r.slid => v[1] = "store"
          /\ ~r.slid => r.kept \cap r.twice = {}
      BY <2>5 DEF RInv, Between, PagesWhole
    <3>2. ASSUME ~s.slid, NEW x \in s.kept
          PROVE  /\ x \in rest <=> Ahead(r.cursor.pos, Position(v, x))
                 /\ x \in r.seen <=> ~Ahead(r.cursor.pos, Position(v, x))
      BY <2>5, <3>1, <3>2 DEF Between
    <3>3. ASSUME ~s.slid PROVE s.kept \cap s.twice = {}
      <4>1. ASSUME NEW x \in s.kept, x \in s.twice PROVE FALSE
        <5>1. x \in r.kept /\ ~r.slid
          BY <2>5, <3>3
        <5>2. x \in r.seen /\ x \in items
          BY <1>2, <3>1, <4>1, <5>1
        <5> QED
          BY <1>2, <3>2, <3>3, <5>2
      <4> QED
        BY <4>1
    <3>4. ASSUME ~s.slid, s.pc = "done" PROVE s.kept \subseteq s.seen
      BY <1>2, <3>2, <3>4
    <3>5. ASSUME ~s.slid, s.pc = "more", NEW x \in s.kept
          PROVE  x \in s.seen <=> ~Ahead(s.cursor.pos, s.stood[x])
      <4> DEFINE last == s.cursor.id
      <4>1. /\ last \in rest /\ last \in Rows(v) /\ x \in Rows(v)
            /\ s.cursor.pos = Position(v, last) /\ s.stood[x] = Position(v, x)
            /\ \A y \in items : ~Ahead(Position(v, last), Position(v, y))
            /\ Ahead(r.cursor.pos, Position(v, last))
        BY <1>2, <2>3, <2>5, <3>5 DEF IsLast
      <4>2. ASSUME x \in r.seen PROVE ~Ahead(Position(v, last), Position(v, x))
        BY <3>1, <3>2, <3>5, <4>1, <4>2, AheadThroughRows
      <4>3. CASE x \in rest
        BY <1>2, <3>2, <3>5, <4>1, <4>3
      <4>4. CASE x \notin rest
        BY <1>2, <3>2, <3>5, <4>1, <4>2, <4>4
      <4> QED
        BY <4>3, <4>4
    <3> QED
      BY <2>5, <3>1, <3>3, <3>4, <3>5
  <2>6. Whole
    <3> HIDE DEF Whole
    <3> QED
      BY <1>2, <2>4, <2>5
  <2>7. s.pc = "more" => Between(s)
    <3>1. ASSUME s.pc = "more"
          PROVE  s.cursor.id \in Listings \cup Texts /\ s.cursor.pos \in Places(v)
      BY <1>2, <2>1, <2>2, <3>1 DEF IsLast
    <3>2. \A x \in s.kept : s.stood[x] \in Places(v)
      BY <2>1, <2>3
    <3> QED
      BY <1>2, <2>6, <3>1, <3>2 DEF Between
  <2>8. ASSUME s.pc = "more", NEW w \in Views, NEW x \in Listings \cup Texts,
               s.view = w, s.cursor.id = x
        PROVE  x \in Rows(w)' /\ Position(w, x)' = s.cursor.pos
    <3>1. w = v /\ x \in Rows(v) /\ Position(v, x) = s.cursor.pos
      BY <1>2, <2>8 DEF IsLast
    <3>2. UNCHANGED society
      BY DEF ReadPage
    <3>3. Rows(w)' = Rows(w) /\ Position(w, x)' = Position(w, x)
      BY <3>2, SameViews
    <3> QED
      BY <3>1, <3>3
  <2>9. s.pc = "more" => Anchored'
    BY <2>8 DEF Anchored
  <2> QED
    <3>1. PagesWhole'
      BY <1>2, <2>6 DEF PagesWhole
    <3>2. s.pc = "more" => Between(reader)'
      BY <2>7 DEF Between
    <3> QED
      BY <1>2, <2>9, <3>1, <3>2 DEF RInv
<1> QED
  BY <1>1, <1>2, PageGives

LEMMA StoreKeeps ==
  ASSUME SInv, Placed, RInv, NEW m \in Merchants, ReadStore(m)
  PROVE  RInv'
<1> DEFINE v == <<"store", m>>
           g == Given(v, StoreRows(m))
<1>1. /\ reader = IdleReader /\ DOMAIN reader = Fields /\ reader' = [g EXCEPT !.pc = "done"]
  BY DEF ReadStore, RInv
<1>2. reader.cursor.id = None
  BY <1>1 DEF IdleReader, NoCursor
<1>7. ~reader.slid /\ reader.seen = {} /\ reader.twice = {}
  BY <1>1 DEF IdleReader
<1>3. Rows(v) = StoreRows(m)
  BY DEF Rows, Shelves
<1>4. /\ DOMAIN g = Fields /\ g.view = v /\ g.kept = StoreRows(m)
      /\ g.seen = reader.seen \cup StoreRows(m)
      /\ g.twice = reader.twice \cup (reader.seen \cap StoreRows(m)) /\ ~g.slid
  <2>1. PICK items : items = StoreRows(m)
    OBVIOUS
  <2>2. g = Given(v, items) /\ DOMAIN reader = Fields
    BY <1>1, <2>1
  <2> HIDE DEF v, g
  <2>3. /\ DOMAIN g = Fields /\ g.view = v /\ g.kept = Rows(v)
        /\ g.seen = reader.seen \cup items
        /\ g.twice = reader.twice \cup (reader.seen \cap items) /\ ~g.slid
    <3>1. /\ DOMAIN g = Fields /\ g.view = v
          /\ g.seen = reader.seen \cup items
          /\ g.twice = reader.twice \cup (reader.seen \cap items)
          /\ reader.cursor.id = None =>
               g.stood = [x \in Rows(v) |-> Position(v, x)] /\ g.kept = Rows(v)
          /\ g.slid <=> \/ reader.slid
                        \/ /\ v[1] \notin Shelves /\ ~(reader.cursor.id = None)
                           /\ Position(v, reader.cursor.id) # reader.cursor.pos
      BY <2>2, GivenIs
    <3> QED
      BY <1>2, <1>7, <3>1
  <2> QED
    BY <1>3, <2>1, <2>3
<1>5. /\ "pc" \in DOMAIN g /\ "view" \in DOMAIN g /\ "kept" \in DOMAIN g
      /\ "seen" \in DOMAIN g /\ "twice" \in DOMAIN g /\ "slid" \in DOMAIN g
  BY <1>4 DEF Fields, IdleReader
<1> HIDE DEF g
<1>6. /\ DOMAIN reader' = Fields /\ reader'.pc = "done" /\ reader'.kept = StoreRows(m)
      /\ reader'.seen = StoreRows(m) /\ reader'.twice = {} /\ ~reader'.slid
  BY <1>1, <1>4, <1>5, <1>7
<1> QED
  BY <1>6 DEF RInv, PagesWhole

LEMMA IdleWhole ==
  ASSUME reader = IdleReader
  PROVE  RInv
BY DEF RInv, PagesWhole, Fields, IdleReader

LEMMA SocietyKeeps ==
  ASSUME SInv, Placed, RInv, [SocietyNext]_society, UNCHANGED reader
  PROVE  RInv'
<1>1. ASSUME reader.pc = "more", NEW v \in Views, NEW x \in Listings \cup Texts,
             reader'.view = v, reader'.cursor.id = x,
             v[1] \notin Shelves \cup {"store"}
      PROVE  x \in Rows(v)' /\ Position(v, x)' = reader'.cursor.pos
  <2>1. x \in Rows(v) /\ Position(v, x) = reader.cursor.pos
    BY <1>1 DEF RInv, Anchored
  <2> QED
    BY <1>1, <2>1, RowsStay
<1>2. reader.pc = "more" => Anchored'
  BY <1>1 DEF Anchored
<1> QED
  BY <1>2 DEF RInv, Between, PagesWhole

LEMMA InitPlaced == SocietyInit => Placed
BY DEF SocietyInit, Placed, Unlisted

PInv == SInv /\ Placed /\ RInv

LEMMA StepPages == VInv /\ PInv /\ [PagesNext]_pages => PInv'
<1> SUFFICES ASSUME VInv, PInv, [PagesNext]_pages PROVE PInv'
  OBVIOUS
<1>1. SInv'
  BY StepVotes DEF VInv
<1>2. [SocietyNext]_society
  BY DEF PagesNext, pages, ReadPage, ReadStore, StartAgain
<1>3. Placed'
  BY <1>2, PlacedStays DEF PInv
<1>4. ASSUME NEW v \in Views, NEW n \in 1..PageLimit, ReadPage(v, n) PROVE RInv'
  <2>1. n \in Nat /\ n # 0
    BY PagesAssumption
  <2> QED
    BY <1>4, <2>1, PageKeeps DEF PInv
<1>5. ASSUME NEW m \in Merchants, ReadStore(m) PROVE RInv'
  BY <1>5, StoreKeeps DEF PInv
<1>6. ASSUME StartAgain PROVE RInv'
  <2>1. reader' = IdleReader
    BY <1>6 DEF StartAgain
  <2> QED
    BY <2>1 DEF RInv, PagesWhole, Fields, IdleReader
<1>7. ASSUME UNCHANGED reader PROVE RInv'
  BY <1>2, <1>7, SocietyKeeps DEF PInv
<1>8. RInv'
  BY <1>4, <1>5, <1>6, <1>7 DEF PagesNext, pages
<1> QED
  BY <1>1, <1>3, <1>8 DEF PInv

\* A reader who pages to the end has seen every row that kept its place, once.
THEOREM PagesAreWhole == PagesSpec => []PagesWhole
<1>1. PagesInit => PInv
  BY InitSociety, InitPlaced, IdleWhole DEF PagesInit, PInv
<1>2. PInv => PagesWhole
  BY DEF PInv, RInv
<1> QED
  BY <1>1, <1>2, StepPages, VotesInvariant, PTL DEF PagesSpec
=============================================================================
