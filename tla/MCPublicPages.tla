--------------------------- MODULE MCPublicPages ---------------------------
(***************************************************************************)
(* Merchant a has up to three listings; b, who moderates, votes for them,  *)
(* buys and remarks.  The run is the union of a few small instances, each  *)
(* moving what one kind of view shows.                                     *)
(***************************************************************************)
EXTENDS PublicPages, TLC

CONSTANTS a, b, c1, c2

OwnerOf == [l \in Listings |-> a]

Interchangeable == Permutations(Calls)

Busy == {c \in Calls : call[c].pc # "idle"}

\* At most one request of b runs, of these kinds, and not once the reader is through.
OneOf(kinds) ==
  /\ Cardinality(Busy) <= 1
  /\ Busy # {} => reader.pc \notin {"done", "refused"}
  /\ \A c \in Busy : call[c].kind \in kinds /\ (call[c].m = b \/ call[c].kind = "comment")

NoTexts == comments = [x \in Texts |-> NoText] /\ purchases = [x \in Texts |-> NoText] /\ fees = {}

Unmoved == \A l \in Listings : listing[l] \in {Unlisted, [Unlisted EXCEPT !.state = "live", !.at = 1]}

Reading(views) == reader.pc # "idle" => reader.view[1] \in views

Unspent == \A m \in Merchants : quota[m].votes = 0 /\ quota[m].remarks = 0

\* Two votes race on two listings over two days, with nobody reading.
Race ==
  /\ reader.pc = "idle" /\ NoTexts /\ events = {}
  /\ \A l \in Listings : listing[l].at \in {None, 1} /\ ~listing[l].pinned
  /\ listing[3].state = "none"
  /\ listing[2].state # "gone"
  /\ Busy # {} \/ votes # {} => listing[2].state = "live" /\ listing[1].state # "none"
  /\ \A c \in Calls : call[c].kind \in {"none", "vote"}
  /\ \A m \in Merchants : quota[m].remarks = 0
  /\ Cardinality(Busy) = 2 => \A c \in Calls : call[c].m = b /\ call[c].l = 1

\* Listings come, go and are pinned.
Pinning ==
  /\ Reading({"new", "store"})
  /\ day = 1 /\ NoTexts /\ events = {} /\ votes = {} /\ Unspent
  /\ listing[1].at # 2 /\ listing[2].at # 2 /\ listing[3].at # 1
  /\ listing[1].state # "gone" /\ listing[3].state # "gone"
  /\ Cardinality({l \in Listings : listing[l].pinned}) <= 1
  /\ reader.pc = "idle" => Busy = {}
  /\ OneOf({"pin", "unpin"})

\* A merchant looks at his own.
Leaving ==
  /\ Reading({"listings"})
  /\ day = 1 /\ NoTexts /\ events = {} /\ votes = {} /\ Unspent /\ Busy = {}
  /\ \A l \in Listings : ~listing[l].pinned

\* Listings are voted for.
Voting ==
  /\ Reading({"karma"})
  /\ day = 1 /\ NoTexts /\ events = {}
  /\ \A l \in Listings : listing[l].at \in {None, 1} /\ ~listing[l].pinned
  /\ \A l \in Listings \ {1} : listing[l].state # "gone"
  /\ reader.pc = "idle" => Busy = {}
  /\ Busy = {} => karma[a] = Cardinality(votes) /\ quota[b].votes = karma[a]
  /\ quota[a].votes = 0 /\ \A m \in Merchants : quota[m].remarks = 0
  /\ OneOf({"vote"})

\* Comments are written on one listing.
Remarking ==
  /\ Reading({"comments", "replies"})
  /\ day = 1 /\ votes = {} /\ events = {} /\ fees = {} /\ Unmoved
  /\ \A l \in Listings \ {1} : listing[l].state = "none"
  /\ \A x \in Texts : purchases[x] = NoText \/ x = 1
  /\ comments[1].at # 2 /\ comments[1].m # a /\ comments[2].m # a
  /\ \A m \in Merchants : quota[m].votes = 0
  /\ quota[b].remarks <= Cardinality({x \in Texts : comments[x].m = b} \cup Busy)
  /\ OneOf({"comment"})

\* Listings are bought.
Buying ==
  /\ Reading({"sales", "purchases", "history"})
  /\ day = 1 /\ votes = {} /\ events = {} /\ fees = {} /\ Unmoved /\ Unspent /\ Busy = {}
  /\ comments = [x \in Texts |-> NoText]

\* Fees are recorded.
Charging ==
  /\ Reading({"treasury"})
  /\ day = 1 /\ votes = {} /\ Unmoved /\ Unspent /\ events = {} /\ Busy = {}
  /\ \A l \in Listings : listing[l].state = "none"
  /\ \A x \in Texts : comments[x] = NoText /\ purchases[x] = NoText

\* Events are logged.
Logging ==
  /\ Reading({"events"})
  /\ day = 1 /\ votes = {} /\ Unmoved /\ NoTexts
  /\ \A l \in Listings \ {1} : listing[l].state = "none"
  /\ OneOf({"flag"})

SmallInstance ==
  Race \/ Pinning \/ Leaving \/ Voting \/ Remarking \/ Buying \/ Charging \/ Logging
=============================================================================
