------------------------------ MODULE Society ------------------------------
(***************************************************************************)
(* What merchants do to each other's listings: votes, comments and flags   *)
(* under their daily quotas, src/society-routes.ts with src/core.ts, and   *)
(* the pin of src/moderation-routes.ts.                                    *)
(*                                                                         *)
(* A request is a chain of statements with no transaction around them: a   *)
(* vote is read, paid from the day's quota, stored, given back if it was   *)
(* stored before, and counted twice.  Each statement is a step, and the    *)
(* request may die between two of them.  Listings appear and leave as      *)
(* other parts of the market list, sell, withdraw and remove them.         *)
(***************************************************************************)
EXTENDS Integers, FiniteSets

CONSTANTS
  Merchants,  \* merchants with a key
  Maintainer, \* the merchant who moderates
  Listings,   \* numbers of listings
  Owner,      \* the merchant of each listing
  Calls,      \* concurrently running requests
  Votes,      \* votes of a merchant and day
  Remarks,    \* comments and flags, together, of a merchant and day
  Texts,      \* bound: numbers of comments, of purchases, of events and of fees
  MaxDay,     \* bound: last UTC day
  Instants,   \* bound: values of created_at
  None        \* absent merchant, listing or day

ASSUME SocietyAssumption ==
  /\ Listings \subseteq Nat /\ Texts \subseteq Nat /\ Instants \subseteq Nat
  /\ IsFiniteSet(Listings) /\ IsFiniteSet(Texts) /\ IsFiniteSet(Calls)
  /\ Owner \in [Listings -> Merchants] /\ Maintainer \in Merchants
  /\ Votes \in Nat /\ Remarks \in Nat /\ MaxDay \in Nat \ {0}
  /\ None \notin Merchants \cup Listings \cup Texts \cup Instants \cup 1..MaxDay

VARIABLES
  day,       \* the UTC day of every clock
  listing,   \* table listings: state, pinned, votes and created_at
  votes,     \* table votes: pairs of a merchant and a listing
  quota,     \* quota_day, votes_today and comments_today of each merchant
  karma,     \* merchants.karma
  comments,  \* table comments by id: author, listing, verified_buyer and created_at
  purchases, \* table purchases by id: buyer, listing and created_at
  events,    \* table events: the ids in it
  fees,      \* table fees: the ids in it
  call       \* the state of each running request

society == <<day, listing, votes, quota, karma, comments, purchases, events, fees, call>>

Days == 1..MaxDay

Row == [state  : {"none", "live", "gone"},
        pinned : BOOLEAN,
        votes  : Nat,
        at     : Instants \cup {None}]

Unlisted == [state |-> "none", pinned |-> FALSE, votes |-> 0, at |-> None]

Text == [m : Merchants \cup {None}, l : Listings \cup {None}, at : Instants \cup {None},
         verified : BOOLEAN]

NoText == [m |-> None, l |-> None, at |-> None, verified |-> FALSE]

Kinds == {"vote", "comment", "flag", "pin", "unpin"}

IdleCall == [pc |-> "idle", kind |-> "none", m |-> None, l |-> None, day |-> None]

SocietyInit ==
  /\ day = 1
  /\ listing = [l \in Listings |-> Unlisted]
  /\ votes = {}
  /\ quota = [m \in Merchants |-> [day |-> 1, votes |-> 0, remarks |-> 0]]
  /\ karma = [m \in Merchants |-> 0]
  /\ comments = [x \in Texts |-> NoText]
  /\ purchases = [x \in Texts |-> NoText]
  /\ events = {}
  /\ fees = {}
  /\ call = [c \in Calls |-> IdleCall]

---------------------------------------------------------------------------

Live(l) == listing[l].state = "live"

Goto(c, label) == call' = [call EXCEPT ![c].pc = label]

\* A statement written for today: the day is read before it is sent.
GotoToday(c, label) == call' = [call EXCEPT ![c].pc = label, ![c].day = day]

Finish(c) == call' = [call EXCEPT ![c] = IdleCall]

\* The counters as of a day: those of another day count as nothing.
AsOf(q, d) == IF q.day = d THEN q ELSE [day |-> d, votes |-> 0, remarks |-> 0]

\* POST /api/vote, /api/comment, /api/flag or /api/mod/pin.
Ask(c, kind, m, l) ==
  /\ call[c].pc = "idle"
  /\ call' = [call EXCEPT ![c] = [pc |-> "auth", kind |-> kind, m |-> m, l |-> l,
                                  day |-> day]]
  /\ UNCHANGED <<day, listing, votes, quota, karma, comments, purchases, events, fees>>

\* merchantBySecret: the counters start again as the day of the request begins.
Auth(c) ==
  LET m == call[c].m IN
  /\ call[c].pc = "auth"
  /\ quota' = [quota EXCEPT ![m] = AsOf(@, call[c].day)]
  /\ IF call[c].kind \in {"pin", "unpin"}
     THEN IF m = Maintainer THEN Goto(c, "pin") ELSE Finish(c)
     ELSE Goto(c, "look")
  /\ UNCHANGED <<day, listing, votes, karma, comments, purchases, events, fees>>

\* The target: a live listing of another merchant for a vote, a live listing for
\* a comment, any row for a flag.
Look(c) ==
  LET r == call[c] IN
  /\ r.pc = "look"
  /\ IF CASE r.kind = "vote"    -> Live(r.l) /\ Owner[r.l] # r.m
          [] r.kind = "comment" -> Live(r.l)
          [] r.kind = "flag"    -> listing[r.l].state # "none"
     THEN IF r.kind = "vote" THEN Goto(c, "prior") ELSE GotoToday(c, "spend")
     ELSE Finish(c)
  /\ UNCHANGED <<day, listing, votes, quota, karma, comments, purchases, events, fees>>

\* A repeat vote does not reach the quota, unless its twin is still on the way.
ReadPrior(c) ==
  LET r == call[c] IN
  /\ r.pc = "prior"
  /\ IF <<r.m, r.l>> \in votes THEN Finish(c) ELSE GotoToday(c, "spend")
  /\ UNCHANGED <<day, listing, votes, quota, karma, comments, purchases, events, fees>>

\* spendQuota: comments and flags draw on one counter.
SpendQuota(c) ==
  LET r == call[c]
      q == AsOf(quota[r.m], r.day)
      left == IF r.kind = "vote" THEN q.votes < Votes ELSE q.remarks < Remarks
  IN
  /\ r.pc = "spend"
  /\ IF left
     THEN /\ quota' = [quota EXCEPT ![r.m] =
               IF r.kind = "vote" THEN [q EXCEPT !.votes = @ + 1]
                                  ELSE [q EXCEPT !.remarks = @ + 1]]
          /\ Goto(c, IF r.kind = "flag" THEN "log" ELSE r.kind)
     ELSE Finish(c) /\ UNCHANGED quota
  /\ UNCHANGED <<day, listing, votes, karma, comments, purchases, events, fees>>

\* Mutant of InsertVote: on conflict nothing is done, and the vote is counted.
InsertVoteQuietly(c) ==
  /\ call[c].pc = "vote"
  /\ votes' = votes \cup {<<call[c].m, call[c].l>>}
  /\ Goto(c, "count")
  /\ UNCHANGED <<day, listing, quota, karma, comments, purchases, events, fees>>

\* The row of the vote, or votes_pkey.
InsertVote(c) ==
  LET v == <<call[c].m, call[c].l>> IN
  /\ call[c].pc = "vote"
  /\ votes' = votes \cup {v}
  /\ Goto(c, IF v \in votes THEN "refund" ELSE "count")
  /\ UNCHANGED <<day, listing, quota, karma, comments, purchases, events, fees>>

\* A unit goes back to the day it was spent on.
Refunded(q, d) ==
  IF q.day = d THEN [q EXCEPT !.votes = IF @ = 0 THEN 0 ELSE @ - 1] ELSE q

RefundQuota(c) ==
  LET m == call[c].m IN
  /\ call[c].pc = "refund"
  /\ quota' = [quota EXCEPT ![m] = Refunded(@, call[c].day)]
  /\ Finish(c)
  /\ UNCHANGED <<day, listing, votes, karma, comments, purchases, events, fees>>

CountVote(c) ==
  /\ call[c].pc = "count"
  /\ listing' = [listing EXCEPT ![call[c].l].votes = @ + 1]
  /\ Goto(c, "karma")
  /\ UNCHANGED <<day, votes, quota, karma, comments, purchases, events, fees>>

CountKarma(c) ==
  /\ call[c].pc = "karma"
  /\ karma' = [karma EXCEPT ![Owner[call[c].l]] = @ + 1]
  /\ Finish(c)
  /\ UNCHANGED <<day, listing, votes, quota, comments, purchases, events, fees>>

Bought(m, l) == \E x \in Texts : purchases[x].m = m /\ purchases[x].l = l

\* Whether the author has bought the listing, read before the comment is stored.
ReadBuyer(c) ==
  LET r == call[c] IN
  /\ r.pc = "comment"
  /\ Goto(c, IF Bought(r.m, r.l) THEN "buyer" ELSE "visitor")
  /\ UNCHANGED <<day, listing, votes, quota, karma, comments, purchases, events, fees>>

\* Ids are drawn before they are seen, and created_at is the start of the
\* statement: a row appears anywhere in the order of either.
InsertComment(c, x, at) ==
  LET r == call[c] IN
  /\ r.pc \in {"buyer", "visitor"} /\ comments[x] = NoText
  /\ comments' = [comments EXCEPT ![x] =
       [m |-> r.m, l |-> r.l, at |-> at, verified |-> r.pc = "buyer"]]
  /\ Finish(c)
  /\ UNCHANGED <<day, listing, votes, quota, karma, purchases, events, fees>>

PinListing(c) ==
  LET r == call[c] IN
  /\ r.pc = "pin"
  /\ IF Live(r.l)
     THEN /\ listing' = [listing EXCEPT ![r.l].pinned = (r.kind = "pin")]
          /\ Goto(c, "log")
     ELSE Finish(c) /\ UNCHANGED listing
  /\ UNCHANGED <<day, votes, quota, karma, comments, purchases, events, fees>>

\* logEvent, of a flag or of the pin.
LogEvent(c, x) ==
  /\ call[c].pc = "log" /\ x \notin events
  /\ events' = events \cup {x}
  /\ Finish(c)
  /\ UNCHANGED <<day, listing, votes, quota, karma, comments, purchases, fees>>

\* A request dies, or the database fails it.
Abandon(c) ==
  /\ call[c].pc # "idle"
  /\ Finish(c)
  /\ UNCHANGED <<day, listing, votes, quota, karma, comments, purchases, events, fees>>

---------------------------------------------------------------------------
(* The shelves change, and days pass.                                      *)

\* Listed by its merchant, at the instant its statement began.
List(l, at) ==
  /\ listing[l].state = "none"
  /\ listing' = [listing EXCEPT ![l].state = "live", ![l].at = at]
  /\ UNCHANGED <<day, votes, quota, karma, comments, purchases, events, fees, call>>

\* Withdrawn, removed, or sold by the city.
Leave(l) ==
  /\ Live(l)
  /\ listing' = [listing EXCEPT ![l].state = "gone"]
  /\ UNCHANGED <<day, votes, quota, karma, comments, purchases, events, fees, call>>

\* A sale of an artifact that its buyer paid for, or of a place in the city.
Buy(x, m, l, at) ==
  /\ purchases[x] = NoText
  /\ listing[l].state # "none" /\ Owner[l] # m /\ ~Bought(m, l)
  /\ purchases' = [purchases EXCEPT ![x] = [m |-> m, l |-> l, at |-> at, verified |-> FALSE]]
  /\ UNCHANGED <<day, listing, votes, quota, karma, comments, events, fees, call>>

\* An event of another part of the market.
LogOther(x) ==
  /\ x \notin events
  /\ events' = events \cup {x}
  /\ UNCHANGED <<day, listing, votes, quota, karma, comments, purchases, fees, call>>

\* A listing fee is recorded.
RecordFee(x) ==
  /\ x \notin fees
  /\ fees' = fees \cup {x}
  /\ UNCHANGED <<day, listing, votes, quota, karma, comments, purchases, events, call>>

Midnight ==
  /\ day < MaxDay
  /\ day' = day + 1
  /\ UNCHANGED <<listing, votes, quota, karma, comments, purchases, events, fees, call>>

---------------------------------------------------------------------------

CallStep(c) ==
  \/ Auth(c) \/ Look(c) \/ ReadPrior(c) \/ SpendQuota(c) \/ InsertVote(c)
  \/ RefundQuota(c) \/ CountVote(c) \/ CountKarma(c) \/ ReadBuyer(c)
  \/ PinListing(c) \/ Abandon(c)
  \/ \E x \in Texts : LogEvent(c, x) \/ \E at \in Instants : InsertComment(c, x, at)

SocietyNext ==
  \/ \E c \in Calls :
       \/ \E kind \in Kinds, m \in Merchants, l \in Listings :
            Ask(c, kind, m, l)
       \/ CallStep(c)
  \/ \E l \in Listings :
       \/ Leave(l)
       \/ \E at \in Instants : List(l, at)
       \/ \E x \in Texts, m \in Merchants, at \in Instants : Buy(x, m, l, at)
  \/ \E x \in Texts : LogOther(x) \/ RecordFee(x)
  \/ Midnight

---------------------------------------------------------------------------

SocietyTypeOK ==
  /\ day \in Days
  /\ listing \in [Listings -> Row]
  /\ votes \subseteq Merchants \X Listings
  /\ quota \in [Merchants -> [day : Days, votes : 0..Votes, remarks : 0..Remarks]]
  /\ karma \in [Merchants -> Nat]
  /\ comments \in [Texts -> Text]
  /\ purchases \in [Texts -> Text]
  /\ events \subseteq Texts /\ fees \subseteq Texts
  /\ call \in [Calls -> [pc   : {"idle", "auth", "look", "prior", "spend", "vote",
                                 "comment", "log", "buyer", "visitor", "pin", "refund", "count", "karma"},
                         kind : Kinds \cup {"none"},
                         m    : Merchants \cup {None},
                         l    : Listings \cup {None},
                         day  : Days \cup {None}]]

VotesFor(l) == {v \in votes : v[2] = l}
VotesOf(m)  == {v \in votes : v[1] = m}

Counting(l) == {c \in Calls : call[c].pc = "count" /\ call[c].l = l}

\* A merchant's listings, with a number for each vote a listing shows.
Shown(m) ==
  UNION {{l} \X (1..listing[l].votes) : l \in {k \in Listings : Owner[k] = m}}

Crediting(m) == {c \in Calls : call[c].pc = "karma" /\ Owner[call[c].l] = m}

Paying(m) ==
  {c \in Calls : /\ call[c].pc \in {"vote", "refund"}
                 /\ call[c].kind = "vote" /\ call[c].m = m}

\* Votes are counted once.  A listing shows no vote that is not stored, nobody
\* votes for his own, and karma is never more than the votes shown: what a dying
\* or a second request leaves is a vote too few, never one too many.  Until a
\* request of the day before meets the next day, a merchant's stored votes, and
\* those on their way, are paid from his quota: a repeat gives back no more than
\* it took.
VotesCounted ==
  /\ \A l \in Listings :
       /\ listing[l].votes + Cardinality(Counting(l)) <= Cardinality(VotesFor(l))
       /\ <<Owner[l], l>> \notin votes
  /\ \A m \in Merchants :
       /\ karma[m] + Cardinality(Crediting(m)) <= Cardinality(Shown(m))
       /\ day = 1 => Cardinality(VotesOf(m)) + Cardinality(Paying(m)) <= quota[m].votes
=============================================================================
