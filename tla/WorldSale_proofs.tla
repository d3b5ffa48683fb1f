-------------------------- MODULE WorldSale_proofs --------------------------
(***************************************************************************)
(* Proofs about WorldSale, for every set of listings, buyers, checkouts,   *)
(* transactions and calls, and every record the city may publish: a thing  *)
(* is sold once and its tables agree on it, a payment goes to review for a *)
(* cause only, and world receipts implement PaymentLedger.                 *)
(***************************************************************************)
EXTENDS WorldSale, WellFoundedInduction, TLAPS

---------------------------------------------------------------------------
(* What the memory of a call says at each label.                           *)

\* A call the city has told of a claim, until it finds or stores an attempt.
Telling == {"existing", "insert", "reread", "conflict"}

\* A call that settles the attempt stored for its listing.
Settling == {"chain", "sell", "raced", "review", "missing"}

Known == Terms \cup {NoTerms}

CallRow == [pc : Labels, listing : Listings \cup {None}, buyer : Buyers \cup {None},
            door : Doors \cup {"none"}, stamp : Time, seen : SUBSET Slots,
            gone : Time, terms : Known, row : Known, answer : Answers]

MemoryOK(m) ==
  /\ m.pc # "idle" \/ m.answer # "none" => m.listing \in Listings
  /\ m.pc # "idle" => m.answer = "none"
  /\ m.pc \in {"look", "sweep", "bind"} => m.buyer \in Buyers
  /\ m.pc = "closing" => m.door \in Doors /\ m.stamp # 0
  /\ m.pc \in Telling => m.terms \in Terms
  /\ m.pc \in Settling => m.row \in Terms
  /\ m.pc \in Settling \cup {"reread"} => attempt[m.listing].status # "none"

ChainOK ==
  /\ now \in Time /\ now # 0 /\ fin \in Time
  /\ mined \in [Txs -> Time]

TablesOK ==
  /\ listing \in [Listings -> Row]
  /\ checkout \in [Slots -> Checkout]
  /\ attempt \in [Listings -> Attempt]
  /\ purchases \subseteq Purchase
  /\ uses \in [Txs -> Owners]
  /\ \A l \in Listings : attempt[l].status # "none" => attempt[l].terms \in Terms

Typed ==
  /\ ChainOK /\ TablesOK
  /\ call \in [Calls -> CallRow]
  /\ \A c \in Calls : MemoryOK(call[c])

LEMMA Basics ==
  /\ 0 \in Time /\ NoTerms \notin Terms
  /\ NewRow \in Row /\ NoCheckout \in Checkout /\ NoAttempt \in Attempt
  /\ IdleCall \in CallRow /\ IdleCall.pc = "idle" /\ IdleCall.answer = "none"
  /\ IdleCall.terms = NoTerms /\ IdleCall.row = NoTerms
<1>1. 0 \in Time /\ 0 \in 0..(MaxTime + Life)
  BY SaleAssumption DEF Time
<1>2. NoTerms \notin Terms
  BY SaleAssumption DEF NoTerms, Terms
<1>3. NewRow \in Row /\ NoCheckout \in Checkout /\ NoAttempt \in Attempt
  BY <1>1 DEF NewRow, Row, NoCheckout, Checkout, NoAttempt, Attempt
<1>4. IdleCall \in CallRow
  BY <1>1 DEF IdleCall, CallRow, Labels, Answers, Known
<1> QED
  BY <1>1, <1>2, <1>3, <1>4 DEF IdleCall

\* The ids of checkouts are numbers: a free one can be chosen.
LEMMA Least ==
  ASSUME NEW S \in SUBSET Nat, S # {}
  PROVE  \E x \in S : \A y \in S : x <= y
<1> DEFINE less == {p \in Nat \X Nat : p[1] < p[2]}
<1>1. IsWellFoundedOn(less, Nat)
  BY NatLessThanWellFounded DEF OpToRel
<1>2. \A y \in Nat, x \in Nat : y < x => <<y, x>> \in less
  OBVIOUS
<1>3. \E x \in S : \A y \in S : ~(<<y, x>> \in less)
  <2> HIDE DEF less
  <2> QED
    BY <1>1, WFMin
<1>4. PICK x \in S : \A y \in S : ~(<<y, x>> \in less)
  BY <1>3
<1>5. ASSUME NEW y \in S PROVE x <= y
  <2>1. ~(y < x)
    BY <1>2, <1>4
  <2> QED
    BY <2>1
<1> QED
  BY <1>5

LEMMA FreeSlot == FreeSlots # {} => NextSlot \in FreeSlots
<1>1. FreeSlots \in SUBSET Nat
  BY SaleAssumption DEF FreeSlots
<1> HIDE DEF FreeSlots
<1>2. FreeSlots # {} => \E k \in FreeSlots : \A j \in FreeSlots : k <= j
  BY <1>1, Least
<1> QED
  BY <1>2 DEF NextSlot

\* The earlier of two instants, of which 0 has not come.
Earliest(a, b) == IF a = 0 THEN b ELSE IF b = 0 \/ a <= b THEN a ELSE b

LEMMA EarliestIs ==
  ASSUME NEW a \in Time, NEW b \in Time
  PROVE  LET out == {a, b} \ {0} IN
         (IF out = {} THEN 0 ELSE CHOOSE x \in out : \A y \in out : x <= y)
           = Earliest(a, b)
<1> DEFINE out == {a, b} \ {0}
           e == Earliest(a, b)
<1>0. a \in Int /\ b \in Int
  BY DEF Time
<1>1. CASE a = 0 /\ b = 0
  BY <1>1 DEF Earliest
<1>2. CASE a # 0 \/ b # 0
  <2>1. e \in out /\ \A y \in out : e <= y
    BY <1>0, <1>2 DEF Earliest
  <2>2. \A x \in out : (\A y \in out : x <= y) => x = e
    <3>1. \A x \in out : x \in Int /\ e \in Int
      BY <1>0 DEF Earliest
    <3> HIDE DEF out, e
    <3> QED
      BY <2>1, <3>1
  <2> HIDE DEF out, e
  <2> QED
    BY <2>1, <2>2 DEF out, e
<1> QED
  BY <1>1, <1>2

---------------------------------------------------------------------------
(* How a call moves: it answers, starts, goes on with what it has, or      *)
(* takes up the attempt it found.                                          *)

Others(c) == /\ call' \in [Calls -> CallRow]
             /\ \A d \in Calls : d # c => call'[d] = call[d]

Replied(c, x) ==
  /\ Others(c) /\ call'[c].pc = "idle" /\ call'[c].answer = x
  /\ x # "none" => call'[c].listing = call[c].listing

Fresh(c, label) ==
  /\ Others(c) /\ call'[c].pc = label /\ label \in {"look", "prior", "closing"}
  /\ call'[c].listing \in Listings /\ call'[c].answer = "none"
  /\ label = "look" => call'[c].buyer \in Buyers
  /\ label = "closing" => call'[c].door \in Doors /\ call'[c].stamp # 0

Went(c, label) ==
  /\ Others(c) /\ call'[c].pc = label
  /\ call'[c].listing = call[c].listing /\ call'[c].buyer = call[c].buyer
  /\ call'[c].answer = call[c].answer
  /\ call'[c].terms = call[c].terms /\ call'[c].row = call[c].row

OnRow(c, label, w) ==
  /\ Others(c) /\ call'[c].pc = label
  /\ call'[c].listing = call[c].listing /\ call'[c].buyer = call[c].buyer
  /\ call'[c].answer = call[c].answer
  /\ call'[c].terms = call[c].terms /\ call'[c].row = w

Told(c, w) ==
  /\ Others(c) /\ call'[c].pc = "existing"
  /\ call'[c].listing = call[c].listing /\ call'[c].answer = call[c].answer
  /\ call'[c].terms = w

SettlesOn(c, a) ==
  \/ a.status = "needs_review" /\ Replied(c, "review")
  \/ a.status = "completed" /\ OnRow(c, "missing", a.terms)
  \/ a.status = "payment_pending" /\ OnRow(c, "chain", a.terms)

LEMMA ReplyMoves ==
  ASSUME Typed, NEW c \in Calls, NEW x, Reply(c, x)
  PROVE  Replied(c, IF x \in {"receipt", "review"} THEN x ELSE "none")
<1> DEFINE n == IF x \in {"receipt", "review"}
                THEN [IdleCall EXCEPT !.answer = x, !.listing = call[c].listing]
                ELSE IdleCall
<1>1. /\ n \in CallRow /\ n.pc = "idle"
      /\ n.answer = (IF x \in {"receipt", "review"} THEN x ELSE "none")
      /\ x \in {"receipt", "review"} => n.listing = call[c].listing
  BY Basics DEF CallRow, Answers, Typed
<1>2. call' = [call EXCEPT ![c] = n]
  BY DEF Reply
<1> HIDE DEF n
<1> QED
  BY <1>1, <1>2 DEF Replied, Others, Typed

LEMMA GotoMoves ==
  ASSUME Typed, NEW c \in Calls, NEW label \in Labels, Goto(c, label)
  PROVE  Went(c, label)
<1> DEFINE n == [call[c] EXCEPT !.pc = label]
<1>1. /\ n \in CallRow /\ n.pc = label /\ n.listing = call[c].listing
      /\ n.buyer = call[c].buyer /\ n.answer = call[c].answer
      /\ n.terms = call[c].terms /\ n.row = call[c].row
  BY DEF Typed, CallRow
<1>2. call' = [call EXCEPT ![c] = n]
  BY DEF Goto, Typed
<1> HIDE DEF n
<1> QED
  BY <1>1, <1>2 DEF Went, Others, Typed

LEMMA RowMoves ==
  ASSUME Typed, NEW c \in Calls, NEW label \in Labels, NEW w \in Terms,
         call' = [call EXCEPT ![c].pc = label, ![c].row = w]
  PROVE  OnRow(c, label, w)
<1> DEFINE n == [call[c] EXCEPT !.pc = label, !.row = w]
<1>1. /\ n \in CallRow /\ n.pc = label /\ n.listing = call[c].listing
      /\ n.buyer = call[c].buyer /\ n.answer = call[c].answer
      /\ n.terms = call[c].terms /\ n.row = w
  BY DEF Typed, CallRow, Known
<1>2. call' = [call EXCEPT ![c] = n]
  BY DEF Typed
<1> HIDE DEF n
<1> QED
  BY <1>1, <1>2 DEF OnRow, Others, Typed

LEMMA SettleMoves ==
  ASSUME Typed, NEW c \in Calls, NEW a, Settle(c, a), a.terms \in Terms,
         a.status \in {"payment_pending", "completed", "needs_review"}
  PROVE  SettlesOn(c, a)
<1>1. CASE a.status = "needs_review"
  <2>1. Reply(c, "review")
    BY <1>1 DEF Settle
  <2> QED
    BY <1>1, <2>1, ReplyMoves DEF SettlesOn
<1>2. CASE a.status = "completed"
  <2>1. call' = [call EXCEPT ![c].pc = "missing", ![c].row = a.terms]
    BY <1>2 DEF Settle
  <2> QED
    BY <1>2, <2>1, RowMoves DEF SettlesOn, Labels
<1>3. CASE a.status = "payment_pending"
  <2>1. call' = [call EXCEPT ![c].pc = "chain", ![c].row = a.terms]
    BY <1>3 DEF Settle
  <2> QED
    BY <1>3, <2>1, RowMoves DEF SettlesOn, Labels
<1> QED
  BY <1>1, <1>2, <1>3

LEMMA FreshMoves ==
  ASSUME Typed, NEW c \in Calls, NEW n \in CallRow, call' = [call EXCEPT ![c] = n],
         n.pc \in {"look", "prior", "closing"}, n.listing \in Listings,
         n.answer = "none", n.pc = "look" => n.buyer \in Buyers,
         n.pc = "closing" => n.door \in Doors /\ n.stamp # 0
  PROVE  Fresh(c, n.pc)
BY DEF Typed, Fresh, Others

LEMMA CloseMoves ==
  ASSUME Typed, NEW c \in Calls, NEW l \in Listings, NEW door \in Doors,
         Close(c, l, door)
  PROVE  Fresh(c, "closing")
<1> DEFINE n == [IdleCall EXCEPT !.pc = "closing", !.listing = l, !.door = door,
                                 !.stamp = now, !.seen = Open(l)]
<1>1. n \in CallRow
  BY Basics DEF CallRow, Labels, Open, Typed, ChainOK
<1>2. /\ n.pc = "closing" /\ n.listing = l /\ n.answer = "none" /\ n.door = door
      /\ n.stamp = now
  BY Basics DEF CallRow
<1>3. call' = [call EXCEPT ![c] = n]
  BY DEF Close
<1> HIDE DEF n
<1> QED
  BY <1>1, <1>2, <1>3, FreshMoves DEF Typed, ChainOK

\* What becomes of a call by each of its steps.
LEMMA ArriveMoves ==
  ASSUME Typed, NEW c \in Calls, NEW l \in Listings, Arrive(c, l)
  PROVE  Fresh(c, "prior") \/ Fresh(c, "look") \/ Fresh(c, "closing")
<1>1. CASE Sync(c, l)
  <2> DEFINE n == [IdleCall EXCEPT !.pc = "prior", !.listing = l]
  <2>1. n \in CallRow
    BY Basics DEF CallRow, Labels
  <2>2. n.pc = "prior" /\ n.listing = l /\ n.answer = "none"
    BY Basics DEF CallRow
  <2>3. call' = [call EXCEPT ![c] = n]
    BY <1>1 DEF Sync, Begin
  <2> HIDE DEF n
  <2> QED
    BY <2>1, <2>2, <2>3, FreshMoves
<1>2. ASSUME NEW b \in Buyers, AskCheckout(c, l, b) PROVE Fresh(c, "look")
  <2> DEFINE n == [IdleCall EXCEPT !.pc = "look", !.listing = l, !.buyer = b]
  <2>1. n \in CallRow
    BY Basics DEF CallRow, Labels
  <2>2. n.pc = "look" /\ n.listing = l /\ n.answer = "none" /\ n.buyer = b
    BY Basics DEF CallRow
  <2>3. call' = [call EXCEPT ![c] = n]
    BY <1>2 DEF AskCheckout
  <2> HIDE DEF n
  <2> QED
    BY <2>1, <2>2, <2>3, FreshMoves
<1>3. ASSUME NEW door \in {"removed", "withdrawn"}, CloseStarts(c, l, door)
      PROVE  Fresh(c, "closing")
  BY <1>3, CloseMoves DEF CloseStarts, Doors
<1> QED
  BY <1>1, <1>2, <1>3 DEF Arrive

LEMMA CheckoutMoves ==
  ASSUME Typed, NEW c \in Calls, CheckoutStep(c) \/ CloseCommits(c) \/ Abandon(c)
  PROVE  \/ Replied(c, "none")
         \/ call[c].pc = "look" /\ Went(c, "sweep")
         \/ call[c].pc = "sweep" /\ Went(c, "bind")
<1>1. ASSUME NEW x, Reply(c, x), x \notin {"receipt", "review"}
      PROVE  Replied(c, "none")
  BY <1>1, ReplyMoves
<1> QED
  BY <1>1, GotoMoves DEF CheckoutStep, LookCheckout, Sweep, Bind, CloseCommits,
     Abandon, Labels

LEMMA CityMoves ==
  ASSUME Typed, NEW c \in Calls, CityStep(c)
  PROVE  \/ Replied(c, "none")
         \/ Fresh(c, "closing")
         \/ /\ call[c].pc = "city"
            /\ \E w \in Terms : FitsCheckout(call[c].listing, w) /\ Told(c, w)
<1>1. CASE CityIsOpen(c)
  BY <1>1, ReplyMoves DEF CityIsOpen
<1>2. ASSUME NEW door \in {"canceled", "stale"}, CityIsOver(c, door)
      PROVE  Fresh(c, "closing")
  <2>1. call[c].listing \in Listings
    BY <1>2 DEF CityIsOver, Typed, MemoryOK
  <2> QED
    BY <1>2, <2>1, CloseMoves DEF CityIsOver, Doors
<1>3. ASSUME NEW w \in Says, CityIsClaimed(c, w)
      PROVE  w \in Terms /\ FitsCheckout(call[c].listing, w) /\ Told(c, w)
  <2> DEFINE n == [call[c] EXCEPT !.pc = "existing", !.terms = w]
  <2>1. w \in Terms
    BY SaysAssumption
  <2>2. /\ n \in CallRow /\ n.pc = "existing" /\ n.listing = call[c].listing
        /\ n.answer = call[c].answer /\ n.terms = w
    BY <2>1 DEF Typed, CallRow, Known, Labels
  <2>3. call' = [call EXCEPT ![c] = n]
    BY <1>3 DEF CityIsClaimed, Typed
  <2> HIDE DEF n
  <2>4. Told(c, w)
    BY <2>2, <2>3 DEF Told, Others, Typed
  <2> QED
    BY <1>3, <2>1, <2>4 DEF CityIsClaimed, Admissible
<1> QED
  BY <1>1, <1>2, <1>3 DEF CityStep, CityIsClaimed

Finds(c, a) ==
  \/ a.terms = call[c].terms /\ SettlesOn(c, a)
  \/ a.terms # call[c].terms /\ OnRow(c, "review", a.terms)

\* The steps of a synchronization that store nothing ...
LEMMA ReadMoves ==
  ASSUME Typed, NEW c \in Calls, NEW l, NEW a, l = call[c].listing, a = attempt[l]
  PROVE  /\ ReadPrior(c) => (Sold(l) /\ Replied(c, "receipt")) \/ Went(c, "listing")
         /\ ReadListing(c) => Went(c, "stored")
         /\ ReadStored(c) => \/ Went(c, "city")
                             \/ /\ a.status = "payment_pending"
                                /\ ~FitsCheckout(l, a.terms)
                                /\ OnRow(c, "review", a.terms)
                             \/ a.status # "none" /\ SettlesOn(c, a)
         /\ ReadExisting(c) => \/ a.status # "none" /\ Finds(c, a)
                               \/ Went(c, "insert")
         /\ RereadAttempt(c) => a.status # "none" /\ Finds(c, a)
         /\ ReadChain(c) => \/ Replied(c, "none")
                            \/ /\ Final(call[c].row.tx)
                               /\ Went(c, IF Proven(l, call[c].row) THEN "sell"
                                                                    ELSE "review")
         /\ ReadRaced(c) => (Sold(l) /\ Replied(c, "receipt")) \/ Went(c, "review")
         /\ ReadMissing(c) => (Sold(l) /\ Replied(c, "receipt")) \/ Replied(c, "none")
<1>0. call[c].pc # "idle" => l \in Listings /\ a \in Attempt
  BY DEF Typed, MemoryOK, TablesOK
<1>1. ASSUME NEW x, Reply(c, x)
      PROVE  Replied(c, IF x \in {"receipt", "review"} THEN x ELSE "none")
  BY <1>1, ReplyMoves
<1>2. ASSUME NEW label \in Labels, Goto(c, label) PROVE Went(c, label)
  BY <1>2, GotoMoves
<1>3. ASSUME call[c].pc # "idle", a.status # "none"
      PROVE  /\ a.terms \in Terms
             /\ a.status \in {"payment_pending", "completed", "needs_review"}
  BY <1>0, <1>3 DEF Typed, TablesOK, Attempt
<1>4. ASSUME call[c].pc # "idle", a.status # "none", Settle(c, a)
      PROVE  SettlesOn(c, a)
  BY <1>3, <1>4, SettleMoves
<1>5. ASSUME call[c].pc # "idle", a.status # "none",
             call' = [call EXCEPT ![c].pc = "review", ![c].row = a.terms]
      PROVE  OnRow(c, "review", a.terms)
  BY <1>3, <1>5, RowMoves DEF Labels
<1>6. ASSUME call[c].pc # "idle", a.status # "none", Found(c, a) PROVE Finds(c, a)
  BY <1>4, <1>5, <1>6 DEF Found, Finds
<1>7. ReadPrior(c) => (Sold(l) /\ Replied(c, "receipt")) \/ Went(c, "listing")
  BY <1>1, <1>2 DEF ReadPrior, Labels
<1>8. ReadListing(c) => Went(c, "stored")
  <2> SUFFICES ASSUME ReadListing(c) PROVE Went(c, "stored")
    OBVIOUS
  <2> DEFINE n == [call[c] EXCEPT !.pc = "stored", !.gone = Gone(l)]
  <2>1. Gone(l) \in Time
    <3>1. l \in Listings
      BY <1>0 DEF ReadListing
    <3>2. listing[l].removed \in Time /\ listing[l].withdrawn \in Time
      BY <3>1 DEF Typed, TablesOK, Row
    <3>3. Gone(l) = Earliest(listing[l].removed, listing[l].withdrawn)
      BY <3>2, EarliestIs DEF Gone
    <3> QED
      BY <3>2, <3>3 DEF Earliest
  <2>2. /\ n \in CallRow /\ n.pc = "stored" /\ n.listing = call[c].listing
        /\ n.buyer = call[c].buyer /\ n.answer = call[c].answer
        /\ n.terms = call[c].terms /\ n.row = call[c].row
    BY <2>1 DEF Typed, CallRow, Labels
  <2>3. call' = [call EXCEPT ![c] = n]
    BY DEF ReadListing, Typed
  <2> HIDE DEF n
  <2> QED
    BY <2>2, <2>3 DEF Went, Others, Typed
<1>9. ReadStored(c) => \/ Went(c, "city")
                       \/ /\ a.status = "payment_pending"
                          /\ ~FitsCheckout(l, a.terms)
                          /\ OnRow(c, "review", a.terms)
                       \/ a.status # "none" /\ SettlesOn(c, a)
  BY <1>2, <1>4, <1>5 DEF ReadStored, Labels
<1>10. ReadExisting(c) => (a.status # "none" /\ Finds(c, a)) \/ Went(c, "insert")
  BY <1>2, <1>6 DEF ReadExisting, Labels
<1>11. RereadAttempt(c) => a.status # "none" /\ Finds(c, a)
  BY <1>6 DEF RereadAttempt, Typed, MemoryOK
<1>12. ReadChain(c) => \/ Replied(c, "none")
                       \/ /\ Final(call[c].row.tx)
                          /\ Went(c, IF Proven(l, call[c].row) THEN "sell" ELSE "review")
  BY <1>1, <1>2 DEF ReadChain, Labels
<1>13. ReadRaced(c) => (Sold(l) /\ Replied(c, "receipt")) \/ Went(c, "review")
  BY <1>1, <1>2 DEF ReadRaced, Labels
<1>14. ReadMissing(c) => (Sold(l) /\ Replied(c, "receipt")) \/ Replied(c, "none")
  BY <1>1 DEF ReadMissing
<1> QED
  BY <1>7, <1>8, <1>9, <1>10, <1>11, <1>12, <1>13, <1>14

\* ... and those that write, on the row of their listing.
InsertEnds(c, l, w) ==
  /\ l \in Listings /\ w \in Terms
  /\ \/ /\ attempt' = attempt /\ uses' = uses
        /\ \/ Replied(c, "none")
           \/ attempt[l].status # "none" /\ Went(c, "reread")
           \/ Went(c, "conflict")
     \/ /\ attempt[l].status = "none" /\ uses[w.tx] = None
        /\ attempt' = [attempt EXCEPT ![l] = Pending(w)]
        /\ uses' = [uses EXCEPT ![w.tx] = World(l)]
        /\ OnRow(c, "chain", w)

ConflictEnds(c, l, w) ==
  /\ l \in Listings /\ w \in Terms
  /\ \/ attempt' = attempt /\ Replied(c, "none")
     \/ /\ attempt[l].status = "none"
        /\ attempt' = [attempt EXCEPT ![l] = [status |-> "needs_review", terms |-> w]]
        /\ Replied(c, "review")

Sale(l, v) == [listing |-> l, ck |-> v.ck, tx |-> v.tx]

Sellable(l, v) ==
  /\ StillSold(l, v.from) /\ checkout[v.ck].status \in {"active", "expired"}
  /\ attempt[l] = Pending(v) /\ ~Conflicting(Sale(l, v))

SellEnds(c, l, v) ==
  /\ l \in Listings /\ v \in Terms
  /\ \/ /\ ~Sellable(l, v)
        /\ UNCHANGED <<listing, checkout, attempt, purchases>>
        /\ Went(c, "raced")
     \/ /\ Sellable(l, v)
        /\ attempt' = [attempt EXCEPT ![l].status = "completed"]
        /\ purchases' = purchases \cup {Sale(l, v)}
        /\ listing' = [listing EXCEPT ![l].state = "sold", ![l].draft = "sold"]
        /\ checkout' = [checkout EXCEPT ![v.ck].status = "completed"]
        /\ Replied(c, "receipt")

ReviewEnds(c, l) ==
  /\ l \in Listings
  /\ \/ /\ attempt[l].status = "payment_pending"
        /\ attempt' = [attempt EXCEPT ![l].status = "needs_review"]
        /\ Replied(c, "review")
     \/ attempt' = attempt /\ attempt[l].status = "completed" /\ Went(c, "missing")
     \/ /\ attempt' = attempt /\ attempt[l].status = "needs_review"
        /\ Replied(c, "review")

LEMMA SyncWrites ==
  ASSUME Typed, NEW c \in Calls, NEW l, NEW w, NEW v,
         l = call[c].listing, w = call[c].terms, v = call[c].row
  PROVE  /\ InsertAttempt(c) => InsertEnds(c, l, w)
         /\ InsertConflict(c) => ConflictEnds(c, l, w)
         /\ Sell(c) => SellEnds(c, l, v)
         /\ Review(c) => ReviewEnds(c, l)
<1>0. /\ call[c].pc # "idle" => l \in Listings
      /\ call[c].pc \in Telling => w \in Terms
      /\ call[c].pc \in Settling => v \in Terms /\ attempt[l].status # "none"
  BY DEF Typed, MemoryOK, Settling, Telling
<1>1. ASSUME NEW x, Reply(c, x)
      PROVE  Replied(c, IF x \in {"receipt", "review"} THEN x ELSE "none")
  BY <1>1, ReplyMoves
<1>2. ASSUME NEW label \in Labels, Goto(c, label) PROVE Went(c, label)
  BY <1>2, GotoMoves
<1>3. ASSUME InsertAttempt(c) PROVE InsertEnds(c, l, w)
  <2>1. l \in Listings /\ w \in Terms
    BY <1>0, <1>3 DEF InsertAttempt, Telling
  <2>2. ASSUME Settle(c, Pending(w)) PROVE OnRow(c, "chain", w)
    <3>1. Pending(w).status = "payment_pending" /\ Pending(w).terms = w
      BY DEF Pending
    <3>2. SettlesOn(c, Pending(w))
      BY <2>1, <2>2, <3>1, SettleMoves
    <3> QED
      BY <3>1, <3>2 DEF SettlesOn
  <2>3. "reread" \in Labels /\ "conflict" \in Labels
    BY DEF Labels
  <2>4. CASE Reply(c, "uncertain") /\ UNCHANGED <<attempt, uses>>
    BY <1>1, <2>1, <2>4 DEF InsertEnds
  <2>5. CASE attempt[l].status # "none" /\ Goto(c, "reread") /\ UNCHANGED <<attempt, uses>>
    BY <1>2, <2>1, <2>3, <2>5 DEF InsertEnds
  <2>6. CASE Goto(c, "conflict") /\ UNCHANGED <<attempt, uses>>
    BY <1>2, <2>1, <2>3, <2>6 DEF InsertEnds
  <2>7. CASE /\ attempt[l].status = "none" /\ Unused(w.tx)
             /\ attempt' = [attempt EXCEPT ![l] = Pending(w)]
             /\ uses' = [uses EXCEPT ![w.tx] = World(l)]
             /\ Settle(c, Pending(w))
    BY <2>1, <2>2, <2>7 DEF Unused, InsertEnds
  <2> QED
    BY <1>3, <2>4, <2>5, <2>6, <2>7 DEF InsertAttempt
<1>4. InsertConflict(c) => ConflictEnds(c, l, w)
  BY <1>0, <1>1 DEF InsertConflict, Telling, ConflictEnds
<1>5. Sell(c) => SellEnds(c, l, v)
  BY <1>0, <1>1, <1>2 DEF Sell, SellEnds, Sellable, Sale, Settling, Labels
<1>6. ASSUME Review(c) PROVE ReviewEnds(c, l)
  <2>1. l \in Listings /\ attempt[l].status # "none" /\ attempt[l] \in Attempt
    BY <1>0, <1>6 DEF Review, Settling, Typed, TablesOK
  <2> QED
    BY <1>1, <1>2, <1>6, <2>1 DEF Review, ReviewEnds, Labels, Attempt
<1> QED
  BY <1>3, <1>4, <1>5, <1>6

---------------------------------------------------------------------------
(* Which steps write: everything else leaves the tables, and all but the   *)
(* steps of Base leave the chain.                                          *)

ChainKept == now' = now /\ fin' = fin /\ mined' = mined
StoreKept == /\ listing' = listing /\ checkout' = checkout /\ attempt' = attempt
             /\ purchases' = purchases /\ uses' = uses

CallStep(c) == \/ \E l \in Listings : Arrive(c, l)
               \/ CheckoutStep(c) \/ CloseCommits(c) \/ CityStep(c) \/ SyncStep(c)
               \/ Abandon(c)

Chain == (\E t \in Txs : Mine(t) \/ Reorg(t)) \/ NewBlock \/ FinalizeBlock

Writes(c) == Sweep(c) \/ Bind(c) \/ CloseCommits(c) \/ InsertAttempt(c)
             \/ InsertConflict(c) \/ Sell(c) \/ Review(c)

LEMMA CallWrites ==
  ASSUME NEW c \in Calls, CallStep(c)
  PROVE  ChainKept /\ (StoreKept \/ Writes(c))
<1>1. ASSUME NEW l \in Listings, Arrive(c, l) PROVE ChainKept /\ StoreKept
  BY <1>1 DEF Arrive, Sync, Begin, AskCheckout, CloseStarts, chain, store, ChainKept,
     StoreKept
<1>2. CASE CheckoutStep(c) \/ CloseCommits(c) \/ Abandon(c)
  BY <1>2 DEF CheckoutStep, LookCheckout, Sweep, Bind, CloseCommits, Abandon, chain,
     store, ChainKept, StoreKept, Writes
<1>3. CASE CityStep(c)
  BY <1>3 DEF CityStep, CityIsOpen, CityIsOver, CityIsClaimed, chain, store, ChainKept,
     StoreKept
<1>4. CASE ReadPrior(c) \/ ReadListing(c) \/ ReadStored(c) \/ ReadExisting(c)
           \/ RereadAttempt(c) \/ ReadChain(c) \/ ReadRaced(c) \/ ReadMissing(c)
  BY <1>4 DEF ReadPrior, ReadListing, ReadStored, ReadExisting, RereadAttempt,
     ReadChain, ReadRaced, ReadMissing, chain, store, ChainKept, StoreKept
<1>5. CASE InsertAttempt(c) \/ InsertConflict(c) \/ Sell(c) \/ Review(c)
  BY <1>5 DEF InsertAttempt, InsertConflict, Sell, Review, chain, ChainKept, Writes
<1> QED
  BY <1>1, <1>2, <1>3, <1>4, <1>5 DEF CallStep, SyncStep

LEMMA StepKinds ==
  ASSUME [Next]_vars
  PROVE  \/ \E c \in Calls : CallStep(c)
         \/ /\ call' = call
            /\ \/ ChainKept /\ StoreKept
               \/ ChainKept /\ \E t \in Txs : RivalClaims(t)
               \/ Chain /\ StoreKept
<1>1. CASE UNCHANGED vars
  BY <1>1 DEF vars, chain, store, ChainKept, StoreKept
<1>2. ASSUME NEW t \in Txs, RivalClaims(t) PROVE call' = call /\ ChainKept
  BY <1>2 DEF RivalClaims, chain, ChainKept
<1>3. CASE Chain
  BY <1>3 DEF Chain, Mine, Reorg, NewBlock, FinalizeBlock, store, StoreKept
<1> QED
  BY <1>1, <1>2, <1>3 DEF Next, CallStep, Chain

LEMMA StepWrites ==
  ASSUME [Next]_vars
  PROVE  /\ ChainKept \/ Chain
         /\ \/ StoreKept
            \/ \E c \in Calls : Writes(c)
            \/ \E t \in Txs : RivalClaims(t)
BY StepKinds, CallWrites

LEMMA StepChain ==
  ASSUME ChainOK, [Next]_vars
  PROVE  /\ ChainOK'
         /\ \A t \in Txs : Final(t) => Final(t)' /\ mined'[t] = mined[t]
<1>1. /\ now \in Time /\ now # 0 /\ fin \in Time /\ mined \in [Txs -> Time]
  BY DEF ChainOK
<1>2. CASE ChainKept
  BY <1>2 DEF ChainKept, ChainOK, Final
<1>3. ASSUME NEW t \in Txs, Mine(t) \/ Reorg(t)
      PROVE  /\ now' = now /\ fin' = fin /\ mined' \in [Txs -> Time]
             /\ ~Final(t)
             /\ \A s \in Txs : s # t => mined'[s] = mined[s]
  <2>1. 0 \in Time
    BY Basics
  <2> QED
    BY <1>1, <1>3, <2>1 DEF Mine, Reorg, Final, Time
<1>4. CASE NewBlock \/ FinalizeBlock
  BY <1>1, <1>4, SaleAssumption DEF NewBlock, FinalizeBlock, Time, ChainOK, Final
<1>5. ASSUME NEW t \in Txs, Mine(t) \/ Reorg(t)
      PROVE  /\ ChainOK'
             /\ \A s \in Txs : Final(s) => Final(s)' /\ mined'[s] = mined[s]
  BY <1>1, <1>3, <1>5 DEF ChainOK, Final
<1> QED
  BY <1>2, <1>4, <1>5, StepWrites DEF Chain

---------------------------------------------------------------------------
(* How each table changes.                                                 *)

\* The sale: what SellEnds writes.
Sells(c) == /\ call[c].listing \in Listings /\ call[c].row \in Terms
            /\ Sellable(call[c].listing, call[c].row)
            /\ attempt' = [attempt EXCEPT ![call[c].listing].status = "completed"]
            /\ purchases' = purchases \cup {Sale(call[c].listing, call[c].row)}
            /\ listing' = [listing EXCEPT ![call[c].listing].state = "sold",
                                          ![call[c].listing].draft = "sold"]
            /\ checkout' = [checkout EXCEPT ![call[c].row.ck].status = "completed"]

LEMMA SellSells ==
  ASSUME Typed, NEW c \in Calls, Sell(c)
  PROVE  /\ Sells(c) \/ UNCHANGED <<listing, checkout, attempt, purchases>>
         /\ uses' = uses
<1>1. PICK l, v : l = call[c].listing /\ v = call[c].row
  OBVIOUS
<1>2. SellEnds(c, l, v)
  BY <1>1, SyncWrites
<1> QED
  BY <1>1, <1>2 DEF SellEnds, Sells, Sell

\* A checkout is created once, and afterwards only its status changes.
LEMMA StepCheckouts ==
  ASSUME Typed, [Next]_vars
  PROVE  /\ checkout' \in [Slots -> Checkout]
         /\ \A k \in Slots :
              \/ checkout'[k] = checkout[k]
              \/ checkout[k].status = "none" /\ checkout'[k].status = "active"
              \/ /\ checkout[k].status = "active"
                 /\ checkout'[k] = [checkout[k] EXCEPT !.status = "expired"]
              \/ \E c \in Calls :
                   /\ Sell(c) /\ Sells(c) /\ k = call[c].row.ck
                   /\ checkout'[k] = [checkout[k] EXCEPT !.status = "completed"]
<1> DEFINE P == /\ checkout' \in [Slots -> Checkout]
                /\ \A k \in Slots :
                     \/ checkout'[k] = checkout[k]
                     \/ checkout[k].status = "none" /\ checkout'[k].status = "active"
                     \/ /\ checkout[k].status = "active"
                        /\ checkout'[k] = [checkout[k] EXCEPT !.status = "expired"]
                     \/ \E c \in Calls :
                          /\ Sell(c) /\ Sells(c) /\ k = call[c].row.ck
                          /\ checkout'[k] = [checkout[k] EXCEPT !.status = "completed"]
<1>0. /\ checkout \in [Slots -> Checkout] /\ now \in Time
      /\ \A k \in Slots, s \in {"expired", "completed"} :
           [checkout[k] EXCEPT !.status = s] \in Checkout
  BY DEF Typed, TablesOK, ChainOK, Checkout
<1>1. ASSUME checkout' = checkout PROVE P
  BY <1>0, <1>1
<1>2. ASSUME NEW S \in SUBSET Slots, \A k \in S : checkout[k].status = "active",
             checkout' = [k \in Slots |->
               IF k \in S THEN [checkout[k] EXCEPT !.status = "expired"] ELSE checkout[k]]
      PROVE  P
  BY <1>0, <1>2
<1>3. ASSUME NEW c \in Calls, Sweep(c) PROVE P
  <2> DEFINE S == {k \in Open(call[c].listing) : checkout[k].expires <= now}
  <2>1. S \in SUBSET Slots /\ \A k \in S : checkout[k].status = "active"
    BY DEF Open
  <2>2. checkout' = [k \in Slots |->
               IF k \in S THEN [checkout[k] EXCEPT !.status = "expired"] ELSE checkout[k]]
    BY <1>3 DEF Sweep
  <2> HIDE DEF S, P
  <2> QED
    BY <1>2, <2>1, <2>2
<1>4. ASSUME NEW c \in Calls, Bind(c) PROVE P
  <2> DEFINE n == [status |-> "active", listing |-> call[c].listing,
                   buyer |-> call[c].buyer, created |-> now, expires |-> now + Life]
  <2>1. CASE checkout' = checkout
    BY <1>1, <2>1
  <2>2. CASE FreeSlots # {} /\ checkout' = [checkout EXCEPT ![NextSlot] = n]
    <3>1. NextSlot \in Slots /\ checkout[NextSlot].status = "none"
      BY <2>2, FreeSlot DEF FreeSlots
    <3>2. n \in Checkout /\ n.status = "active"
      <4>1. now + Life \in 0..(MaxTime + Life)
        BY <1>0, SaleAssumption DEF Time
      <4>2. call[c].listing \in Listings /\ call[c].buyer \in Buyers
        BY <1>4 DEF Bind, Typed, MemoryOK
      <4> QED
        BY <1>0, <4>1, <4>2 DEF Checkout
    <3> HIDE DEF n
    <3> QED
      BY <1>0, <2>2, <3>1, <3>2
  <2> QED
    BY <1>4, <2>1, <2>2 DEF Bind
<1>5. ASSUME NEW c \in Calls, CloseCommits(c) PROVE P
  <2> DEFINE S == call[c].seen \cap Open(call[c].listing)
  <2>1. S \in SUBSET Slots /\ \A k \in S : checkout[k].status = "active"
    BY DEF Open
  <2>2. \/ checkout' = checkout
        \/ checkout' = [k \in Slots |->
               IF k \in S THEN [checkout[k] EXCEPT !.status = "expired"] ELSE checkout[k]]
    BY <1>5 DEF CloseCommits
  <2> HIDE DEF S, P
  <2> QED
    BY <1>1, <1>2, <2>1, <2>2
<1>6. ASSUME NEW c \in Calls, Sell(c) PROVE P
  <2>1. CASE Sells(c)
    <3>1. call[c].row.ck \in Slots
      BY <2>1 DEF Sells, Terms
    <3> QED
      BY <1>0, <1>6, <2>1, <3>1 DEF Sells
  <2> QED
    BY <1>1, <1>6, <2>1, SellSells
<1>7. ASSUME NEW c \in Calls, InsertAttempt(c) \/ InsertConflict(c) \/ Review(c) PROVE P
  BY <1>1, <1>7 DEF InsertAttempt, InsertConflict, Review
<1>8. ASSUME NEW t \in Txs, RivalClaims(t) PROVE P
  BY <1>1, <1>8 DEF RivalClaims
<1> QED
  BY <1>1, <1>3, <1>4, <1>5, <1>6, <1>7, <1>8, StepWrites DEF StoreKept, Writes

\* A listing is closed through one of its doors, or sold.
LEMMA StepListings ==
  ASSUME Typed, [Next]_vars
  PROVE  /\ listing' \in [Listings -> Row]
         /\ \A l \in Listings :
              \/ listing'[l] = listing[l]
              \/ \E door \in Doors, at \in Time \ {0} :
                   Closable(l, door) /\ listing'[l] = Closed(listing[l], door, at)
              \/ \E c \in Calls :
                   /\ Sell(c) /\ Sells(c) /\ l = call[c].listing
                   /\ listing'[l] = [listing[l] EXCEPT !.state = "sold", !.draft = "sold"]
<1> DEFINE P == /\ listing' \in [Listings -> Row]
                /\ \A l \in Listings :
                     \/ listing'[l] = listing[l]
                     \/ \E door \in Doors, at \in Time \ {0} :
                          Closable(l, door) /\ listing'[l] = Closed(listing[l], door, at)
                     \/ \E c \in Calls :
                          /\ Sell(c) /\ Sells(c) /\ l = call[c].listing
                          /\ listing'[l] = [listing[l] EXCEPT !.state = "sold",
                                                              !.draft = "sold"]
<1>0. listing \in [Listings -> Row]
  BY DEF Typed, TablesOK
<1>1. ASSUME listing' = listing PROVE P
  BY <1>0, <1>1
<1>2. ASSUME NEW c \in Calls, CloseCommits(c) PROVE P
  <2> DEFINE l == call[c].listing
             door == call[c].door
             at == call[c].stamp
             r == Closed(listing[l], door, at)
  <2>1. l \in Listings /\ door \in Doors /\ at \in Time \ {0}
    BY <1>2 DEF CloseCommits, Typed, MemoryOK, CallRow
  <2>2. listing[l] \in Row
    BY <1>0, <2>1
  <2>3. r \in Row
    BY <2>1, <2>2 DEF Closed, Row
  <2>4. CASE Closable(l, door) /\ listing' = [listing EXCEPT ![l] = r]
    <3>1. \E d \in Doors, a \in Time \ {0} : Closable(l, d) /\ r = Closed(listing[l], d, a)
      BY <2>1, <2>4
    <3> HIDE DEF r
    <3> QED
      BY <1>0, <2>1, <2>3, <2>4, <3>1
  <2> QED
    BY <1>1, <1>2, <2>4 DEF CloseCommits
<1>3. ASSUME NEW c \in Calls, Sell(c) PROVE P
  <2>1. CASE Sells(c)
    <3> DEFINE l == call[c].listing
               r == [listing[l] EXCEPT !.state = "sold", !.draft = "sold"]
    <3>1. l \in Listings /\ r \in Row
      BY <1>0, <2>1 DEF Sells, Row
    <3>2. listing' = [listing EXCEPT ![l] = r]
      BY <1>0, <2>1, <3>1 DEF Sells
    <3>3. \A x \in Listings : x # l => listing'[x] = listing[x]
      BY <1>0, <3>1, <3>2
    <3>4. listing' \in [Listings -> Row] /\ listing'[l] = r
      <4> HIDE DEF r, l
      <4> QED
        BY <1>0, <3>1, <3>2
    <3> QED
      BY <1>3, <2>1, <3>3, <3>4
  <2> QED
    BY <1>1, <1>3, <2>1, SellSells
<1>4. ASSUME NEW c \in Calls, Sweep(c) \/ Bind(c) \/ InsertAttempt(c)
                              \/ InsertConflict(c) \/ Review(c)
      PROVE  P
  BY <1>1, <1>4 DEF Sweep, Bind, InsertAttempt, InsertConflict, Review
<1>5. ASSUME NEW t \in Txs, RivalClaims(t) PROVE P
  BY <1>1, <1>5 DEF RivalClaims
<1> QED
  BY <1>1, <1>2, <1>3, <1>4, <1>5, StepWrites DEF StoreKept, Writes

\* An attempt is stored once, with its transaction or for review, and is then
\* sold or reviewed.
AttemptsMove ==
  \/ UNCHANGED <<attempt, uses, purchases>>
  \/ /\ attempt' = attempt /\ purchases' = purchases
     /\ \E t \in Txs : uses[t] = None /\ uses' = [uses EXCEPT ![t] = Rival]
  \/ \E c \in Calls : Sell(c) /\ Sells(c) /\ uses' = uses
  \/ \E c \in Calls, l \in Listings :
       /\ l = call[c].listing /\ purchases' = purchases
       /\ \/ /\ InsertAttempt(c) /\ attempt[l].status = "none"
             /\ \E w \in Terms :
                  /\ w = call[c].terms /\ uses[w.tx] = None
                  /\ attempt' = [attempt EXCEPT ![l] = Pending(w)]
                  /\ uses' = [uses EXCEPT ![w.tx] = World(l)]
          \/ /\ InsertConflict(c) /\ attempt[l].status = "none" /\ uses' = uses
             /\ \E w \in Terms :
                  /\ w = call[c].terms
                  /\ attempt' = [attempt EXCEPT ![l] =
                                   [status |-> "needs_review", terms |-> w]]
          \/ /\ Review(c) /\ attempt[l].status = "payment_pending"
             /\ uses' = uses
             /\ attempt' = [attempt EXCEPT ![l].status = "needs_review"]

LEMMA StepAttempts ==
  ASSUME Typed, [Next]_vars
  PROVE  /\ attempt' \in [Listings -> Attempt]
         /\ \A l \in Listings : attempt'[l].status # "none" => attempt'[l].terms \in Terms
         /\ uses' \in [Txs -> Owners]
         /\ purchases' \subseteq Purchase
         /\ AttemptsMove
<1> DEFINE A == /\ attempt' \in [Listings -> Attempt]
                /\ \A l \in Listings : attempt'[l].status # "none"
                                         => attempt'[l].terms \in Terms
           U == uses' \in [Txs -> Owners]
           P == purchases' \subseteq Purchase
<1>0. /\ attempt \in [Listings -> Attempt] /\ uses \in [Txs -> Owners]
      /\ purchases \subseteq Purchase
      /\ \A l \in Listings : attempt[l].status # "none" => attempt[l].terms \in Terms
  BY DEF Typed, TablesOK
<1>1. ASSUME NEW l \in Listings, NEW w \in Terms, NEW s \in {"payment_pending", "needs_review"},
             attempt' = [attempt EXCEPT ![l] = [status |-> s, terms |-> w]]
      PROVE  A
  <2>1. [status |-> s, terms |-> w] \in Attempt
    BY <1>1 DEF Attempt
  <2> QED
    BY <1>0, <1>1, <2>1
<1>2. ASSUME NEW l \in Listings, NEW s \in {"completed", "needs_review"},
             attempt[l].status # "none",
             attempt' = [attempt EXCEPT ![l].status = s]
      PROVE  A
  <2> DEFINE b == [attempt[l] EXCEPT !.status = s]
  <2>1. b \in Attempt /\ b.terms = attempt[l].terms
    BY <1>0, <1>2 DEF Attempt
  <2>2. attempt' = [attempt EXCEPT ![l] = b]
    BY <1>0, <1>2
  <2> HIDE DEF b
  <2> QED
    BY <1>0, <1>2, <2>1, <2>2
<1>3. ASSUME UNCHANGED <<attempt, uses, purchases>> PROVE A /\ U /\ P
  BY <1>0, <1>3
<1>4. ASSUME NEW c \in Calls, Sell(c), Sells(c) PROVE A /\ U /\ P /\ uses' = uses
  <2>1. uses' = uses
    BY <1>4, SellSells
  <2>2. PICK l \in Listings, v \in Terms : l = call[c].listing /\ v = call[c].row
    BY <1>4 DEF Sells
  <2>3. attempt[l].status # "none"
    BY <1>4, <2>2 DEF Sells, Sellable, Pending
  <2>4. A
    BY <1>2, <1>4, <2>2, <2>3 DEF Sells
  <2>5. Sale(l, v) \in Purchase
    BY <2>2 DEF Sale, Purchase, Terms
  <2> QED
    BY <1>0, <1>4, <2>1, <2>2, <2>4, <2>5 DEF Sells
<1>5. ASSUME NEW c \in Calls, InsertAttempt(c), ~UNCHANGED <<attempt, uses, purchases>>
      PROVE  \E l \in Listings, w \in Terms :
               /\ l = call[c].listing /\ purchases' = purchases
               /\ attempt[l].status = "none"
               /\ w = call[c].terms /\ uses[w.tx] = None
               /\ attempt' = [attempt EXCEPT ![l] = Pending(w)]
               /\ uses' = [uses EXCEPT ![w.tx] = World(l)]
               /\ A /\ U
  <2>1. PICK l, w : l = call[c].listing /\ w = call[c].terms
    OBVIOUS
  <2>2. /\ l \in Listings /\ w \in Terms /\ attempt[l].status = "none"
        /\ uses[w.tx] = None /\ purchases' = purchases
        /\ attempt' = [attempt EXCEPT ![l] = Pending(w)]
        /\ uses' = [uses EXCEPT ![w.tx] = World(l)]
    <3>1. InsertEnds(c, l, w)
      BY <1>5, <2>1, SyncWrites
    <3> QED
      BY <1>5, <3>1 DEF InsertEnds, InsertAttempt
  <2>3. A
    BY <1>1, <2>2 DEF Pending
  <2>4. U
    BY <1>0, <2>2 DEF Owners
  <2> QED
    BY <2>1, <2>2, <2>3, <2>4
<1>6. ASSUME NEW c \in Calls, InsertConflict(c), ~UNCHANGED <<attempt, uses, purchases>>
      PROVE  \E l \in Listings, w \in Terms :
               /\ l = call[c].listing /\ purchases' = purchases /\ uses' = uses
               /\ attempt[l].status = "none" /\ w = call[c].terms
               /\ attempt' = [attempt EXCEPT ![l] = [status |-> "needs_review",
                                                     terms |-> w]]
               /\ A
  <2>1. PICK l, w : l = call[c].listing /\ w = call[c].terms
    OBVIOUS
  <2>2. /\ l \in Listings /\ w \in Terms /\ attempt[l].status = "none"
        /\ attempt' = [attempt EXCEPT ![l] = [status |-> "needs_review", terms |-> w]]
        /\ purchases' = purchases /\ uses' = uses
    <3>1. ConflictEnds(c, l, w)
      BY <1>6, <2>1, SyncWrites
    <3> QED
      BY <1>6, <3>1 DEF ConflictEnds, InsertConflict
  <2>3. A
    BY <1>1, <2>2
  <2> QED
    BY <2>1, <2>2, <2>3
<1>7. ASSUME NEW c \in Calls, Review(c), ~UNCHANGED <<attempt, uses, purchases>>
      PROVE  \E l \in Listings :
               /\ l = call[c].listing /\ purchases' = purchases /\ uses' = uses
               /\ attempt[l].status = "payment_pending"
               /\ attempt' = [attempt EXCEPT ![l].status = "needs_review"]
               /\ A
  <2>1. PICK l : l = call[c].listing
    OBVIOUS
  <2>2. /\ l \in Listings /\ attempt[l].status = "payment_pending"
        /\ attempt' = [attempt EXCEPT ![l].status = "needs_review"]
        /\ purchases' = purchases /\ uses' = uses
    <3>1. ReviewEnds(c, l)
      BY <1>7, <2>1, SyncWrites
    <3> QED
      BY <1>7, <3>1 DEF ReviewEnds, Review
  <2>3. A
    BY <1>2, <2>2
  <2> QED
    BY <2>1, <2>2, <2>3
<1>8. ASSUME NEW c \in Calls, Sweep(c) \/ Bind(c) \/ CloseCommits(c)
      PROVE  UNCHANGED <<attempt, uses, purchases>>
  BY <1>8 DEF Sweep, Bind, CloseCommits
<1>9. ASSUME NEW t \in Txs, RivalClaims(t)
       PROVE  /\ attempt' = attempt /\ purchases' = purchases
              /\ uses[t] = None /\ uses' = [uses EXCEPT ![t] = Rival] /\ U
  BY <1>0, <1>9 DEF RivalClaims, Unused, Owners
<1> DEFINE G == A /\ U /\ P /\ AttemptsMove
<1>10. ASSUME UNCHANGED <<attempt, uses, purchases>> PROVE G
  BY <1>3, <1>10 DEF AttemptsMove
<1>11. ASSUME NEW c \in Calls, Sell(c) PROVE G
  BY <1>4, <1>10, <1>11, SellSells DEF AttemptsMove
<1>12. ASSUME NEW c \in Calls, InsertAttempt(c) PROVE G
  BY <1>0, <1>5, <1>10, <1>12 DEF AttemptsMove
<1>13. ASSUME NEW c \in Calls, InsertConflict(c) PROVE G
  BY <1>0, <1>6, <1>10, <1>13 DEF AttemptsMove
<1>14. ASSUME NEW c \in Calls, Review(c) PROVE G
  BY <1>0, <1>7, <1>10, <1>14 DEF AttemptsMove
<1>15. ASSUME NEW t \in Txs, RivalClaims(t) PROVE G
  BY <1>0, <1>9, <1>15 DEF AttemptsMove
<1> HIDE DEF G
<1>16. G
  BY <1>8, <1>10, <1>11, <1>12, <1>13, <1>14, <1>15, StepWrites DEF StoreKept, Writes
<1> QED
  BY <1>16 DEF G

---------------------------------------------------------------------------
(* What a step of a call adds to what the call knows.                      *)

SoldNext(l) == \E p \in purchases' : p.listing = l

Answered(m, n) ==
  /\ n.pc = "idle" /\ n.answer # "none" => m.pc # "idle" /\ n.listing = m.listing
  /\ n.answer = "receipt" => SoldNext(m.listing)
  /\ n.answer = "review" => attempt'[m.listing].status = "needs_review"

Started(n) ==
  /\ n.pc \in {"look", "prior", "closing"}
  /\ n.listing \in Listings /\ n.answer = "none"
  /\ n.pc = "look" => n.buyer \in Buyers
  /\ n.pc = "closing" => n.door \in Doors /\ n.stamp # 0

WentOn(m, n) ==
  /\ m.pc # "idle" /\ n.pc \notin {"idle", "look", "prior", "closing"}
  /\ n.listing = m.listing /\ n.answer = m.answer
  /\ n.pc \in {"sweep", "bind"} => m.pc \in {"look", "sweep"} /\ n.buyer = m.buyer
  /\ n.pc \in Telling => /\ n.terms \in Terms
                         /\ \/ m.pc \in Telling /\ n.terms = m.terms
                            \/ FitsCheckout(m.listing, n.terms)
  /\ n.pc \in Settling \cup {"reread"} => attempt'[m.listing].status # "none"
  /\ n.pc \in Settling => /\ n.row \in Terms
                          /\ \/ m.pc \in Settling /\ n.row = m.row
                             \/ n.row = attempt'[m.listing].terms
  /\ n.pc = "sell" => Final(n.row.tx) /\ Proven(m.listing, n.row)
  /\ n.pc = "raced" => /\ m.pc = "sell" /\ n.row = m.row
                       /\ attempt' = attempt /\ listing' = listing
                       /\ ~Sellable(m.listing, n.row)
  /\ n.pc = "review" => \/ m.pc = "raced" /\ n.row = m.row
                        \/ Final(n.row.tx) /\ ~Proven(m.listing, n.row)
                        \/ n.terms \notin {NoTerms, n.row}
                        \/ /\ attempt[m.listing].status # "none"
                           /\ ~FitsCheckout(m.listing, attempt[m.listing].terms)

Moved(c) == /\ Others(c)
            /\ \/ call'[c].pc = "idle" /\ Answered(call[c], call'[c])
               \/ Started(call'[c])
               \/ WentOn(call[c], call'[c])

LEMMA NoneMoves ==
  ASSUME NEW c \in Calls, Replied(c, "none")
  PROVE  Moved(c)
BY DEF Replied, Moved, Answered

LEMMA StartMoves ==
  ASSUME NEW c \in Calls, NEW label, Fresh(c, label)
  PROVE  Moved(c)
BY DEF Fresh, Moved, Started

\* What a found attempt makes of a call, in a step that stores nothing.
LEMMA SettlesMoves ==
  ASSUME Typed, NEW c \in Calls, NEW l \in Listings, l = call[c].listing,
         attempt' = attempt, call[c].pc # "idle", attempt[l].status # "none"
  PROVE  /\ SettlesOn(c, attempt[l]) => Moved(c)
         /\ OnRow(c, "review", attempt[l].terms)
              /\ (call[c].terms \notin {NoTerms, attempt[l].terms}
                  \/ ~FitsCheckout(l, attempt[l].terms)) => Moved(c)
<1>1. attempt[l].terms \in Terms
  BY DEF Typed, TablesOK
<1>2. CASE Replied(c, "review") /\ attempt[l].status = "needs_review"
  BY <1>2 DEF Replied, Moved, Answered
<1>3. CASE OnRow(c, "missing", attempt[l].terms) \/ OnRow(c, "chain", attempt[l].terms)
  BY <1>1, <1>3 DEF OnRow, Moved, WentOn, Telling, Settling
<1>4. CASE OnRow(c, "review", attempt[l].terms)
           /\ (call[c].terms \notin {NoTerms, attempt[l].terms}
               \/ ~FitsCheckout(l, attempt[l].terms))
  BY <1>1, <1>4 DEF OnRow, Moved, WentOn, Telling, Settling
<1> QED
  BY <1>2, <1>3, <1>4 DEF SettlesOn

LEMMA SyncMoves ==
  ASSUME Typed, NEW c \in Calls, SyncStep(c)
  PROVE  Moved(c)
<1>1. PICK l, w, v : l = call[c].listing /\ w = call[c].terms /\ v = call[c].row
  OBVIOUS
<1> DEFINE a == attempt[l]
<1>2. /\ call[c].pc # "idle" /\ l \in Listings
      /\ call[c].pc \in Telling => w \in Terms /\ w # NoTerms
      /\ call[c].pc \in Settling => v \in Terms /\ attempt[l].status # "none"
  <2>1. call[c].pc # "idle"
    BY DEF SyncStep, ReadPrior, ReadListing, ReadStored, ReadExisting, InsertAttempt,
       RereadAttempt, InsertConflict, ReadChain, Sell, ReadRaced, Review, ReadMissing
  <2> QED
    BY <1>1, <2>1, Basics DEF Typed, MemoryOK
<1>3. ASSUME purchases' = purchases, Sold(l), Replied(c, "receipt") PROVE Moved(c)
  BY <1>1, <1>2, <1>3 DEF Replied, Moved, Answered, Sold, SoldNext
<1>4. ASSUME NEW label \in {"listing", "stored", "city"}, Went(c, label) PROVE Moved(c)
  BY <1>2, <1>4 DEF Went, Moved, WentOn, Telling, Settling
<1>5. ASSUME call[c].pc \in {"existing", "insert"}, Went(c, "insert") \/ Went(c, "conflict")
      PROVE  Moved(c)
  BY <1>1, <1>2, <1>5 DEF Went, Moved, WentOn, Telling, Settling
<1>6. ASSUME attempt' = attempt, a.status # "none", call[c].pc \in Telling, Finds(c, a)
      PROVE  Moved(c)
  BY <1>1, <1>2, <1>6, SettlesMoves DEF Finds
<1>7. ASSUME ReadPrior(c) \/ ReadListing(c) \/ ReadStored(c) \/ ReadExisting(c)
             \/ RereadAttempt(c) \/ ReadChain(c) \/ ReadRaced(c) \/ ReadMissing(c)
      PROVE  attempt' = attempt /\ purchases' = purchases
  BY <1>7 DEF ReadPrior, ReadListing, ReadStored, ReadExisting, RereadAttempt,
     ReadChain, ReadRaced, ReadMissing, store
<1>8. CASE ReadPrior(c) \/ ReadListing(c) \/ ReadMissing(c)
  BY <1>1, <1>3, <1>4, <1>7, <1>8, ReadMoves, NoneMoves
<1>9. CASE ReadStored(c)
  BY <1>1, <1>2, <1>4, <1>7, <1>9, ReadMoves, SettlesMoves
<1>10. CASE ReadExisting(c)
  <2>1. call[c].pc = "existing" /\ call[c].pc \in Telling
    BY <1>10 DEF ReadExisting, Telling
  <2> QED
    BY <1>1, <1>5, <1>6, <1>7, <1>10, <2>1, ReadMoves
<1>11. CASE RereadAttempt(c)
  <2>1. call[c].pc \in Telling
    BY <1>11 DEF RereadAttempt, Telling
  <2> QED
    BY <1>1, <1>6, <1>7, <1>11, <2>1, ReadMoves
<1>12. CASE ReadChain(c)
  <2>1. call[c].pc = "chain" /\ call[c].pc \in Settling
    BY <1>12 DEF ReadChain, Settling
  <2>2. ASSUME Final(v.tx), Went(c, IF Proven(l, v) THEN "sell" ELSE "review")
        PROVE  Moved(c)
    <3>1. CASE Proven(l, v)
      BY <1>1, <1>2, <1>7, <1>12, <2>1, <2>2, <3>1
         DEF Went, Moved, WentOn, Telling, Settling
    <3>2. CASE ~Proven(l, v)
      BY <1>1, <1>2, <1>7, <1>12, <2>1, <2>2, <3>2
         DEF Went, Moved, WentOn, Telling, Settling
    <3> QED
      BY <3>1, <3>2
  <2> QED
    BY <1>1, <1>12, <2>2, ReadMoves, NoneMoves
<1>13. CASE ReadRaced(c)
  <2>1. call[c].pc = "raced" /\ call[c].pc \in Settling
    BY <1>13 DEF ReadRaced, Settling
  <2>2. ASSUME Went(c, "review") PROVE Moved(c)
    BY <1>1, <1>2, <1>7, <1>13, <2>1, <2>2 DEF Went, Moved, WentOn, Telling, Settling
  <2> QED
    BY <1>1, <1>3, <1>7, <1>13, <2>2, ReadMoves
<1>14. CASE InsertAttempt(c)
  <2>1. InsertEnds(c, l, w) /\ call[c].pc = "insert"
    BY <1>1, <1>14, SyncWrites DEF InsertAttempt
  <2>2. ASSUME attempt' = attempt, a.status # "none", Went(c, "reread") PROVE Moved(c)
    BY <1>1, <1>2, <2>1, <2>2 DEF Went, Moved, WentOn, Telling, Settling
  <2>3. ASSUME attempt' = [attempt EXCEPT ![l] = Pending(w)], OnRow(c, "chain", w)
        PROVE  Moved(c)
    <3>1. attempt'[l].status # "none" /\ attempt'[l].terms = w /\ w \in Terms
      BY <2>1, <2>3 DEF Pending, InsertEnds, Typed, TablesOK
    <3> QED
      BY <1>1, <1>2, <2>3, <3>1 DEF OnRow, Moved, WentOn, Telling, Settling
  <2> QED
    BY <1>5, <2>1, <2>2, <2>3, NoneMoves DEF InsertEnds
<1>15. CASE InsertConflict(c)
  <2>1. ConflictEnds(c, l, w)
    BY <1>1, <1>15, SyncWrites
  <2>2. ASSUME attempt' = [attempt EXCEPT ![l] = [status |-> "needs_review", terms |-> w]],
               Replied(c, "review")
        PROVE  Moved(c)
    <3>1. attempt'[l].status = "needs_review"
      BY <1>2, <2>2 DEF Typed, TablesOK
    <3> QED
      BY <1>1, <1>2, <2>2, <3>1 DEF Replied, Moved, Answered
  <2> QED
    BY <2>1, <2>2, NoneMoves DEF ConflictEnds
<1>16. CASE Sell(c)
  <2>1. SellEnds(c, l, v) /\ call[c].pc = "sell" /\ call[c].pc \in Settling
    BY <1>1, <1>16, SyncWrites DEF Sell, Settling
  <2>2. ASSUME UNCHANGED <<listing, checkout, attempt, purchases>>, ~Sellable(l, v),
               Went(c, "raced")
        PROVE  Moved(c)
    BY <1>1, <1>2, <2>1, <2>2 DEF Went, Moved, WentOn, Telling, Settling
  <2>3. ASSUME purchases' = purchases \cup {Sale(l, v)}, Replied(c, "receipt")
        PROVE  Moved(c)
    <3>1. SoldNext(l)
      <4>1. Sale(l, v) \in purchases' /\ Sale(l, v).listing = l
        BY <2>3 DEF Sale
      <4> QED
        BY <4>1 DEF SoldNext
    <3> QED
      BY <1>1, <1>2, <2>3, <3>1 DEF Replied, Moved, Answered
  <2> QED
    BY <2>1, <2>2, <2>3 DEF SellEnds
<1>17. CASE Review(c)
  <2>1. ReviewEnds(c, l) /\ call[c].pc = "review" /\ call[c].pc \in Settling
    BY <1>1, <1>17, SyncWrites DEF Review, Settling
  <2>2. ASSUME attempt'[l].status = "needs_review", Replied(c, "review")
        PROVE  Moved(c)
    BY <1>1, <1>2, <2>2 DEF Replied, Moved, Answered
  <2>3. ASSUME attempt' = attempt, Went(c, "missing") PROVE Moved(c)
    BY <1>1, <1>2, <2>1, <2>3 DEF Went, Moved, WentOn, Telling, Settling
  <2>4. attempt' = [attempt EXCEPT ![l].status = "needs_review"]
          => attempt'[l].status = "needs_review"
    BY <1>2 DEF Typed, TablesOK, Attempt
  <2> QED
    BY <2>1, <2>2, <2>3, <2>4 DEF ReviewEnds
<1> QED
  BY <1>8, <1>9, <1>10, <1>11, <1>12, <1>13, <1>14, <1>15, <1>16, <1>17 DEF SyncStep

LEMMA CallMoves ==
  ASSUME Typed, NEW c \in Calls, CallStep(c)
  PROVE  Moved(c)
<1>1. ASSUME NEW l \in Listings, Arrive(c, l) PROVE Moved(c)
  BY <1>1, ArriveMoves, StartMoves
<1>2. CASE CheckoutStep(c) \/ CloseCommits(c) \/ Abandon(c)
  <2>1. ASSUME NEW label, \/ call[c].pc = "look" /\ label = "sweep"
                          \/ call[c].pc = "sweep" /\ label = "bind",
               Went(c, label)
        PROVE  Moved(c)
    BY <2>1 DEF Went, Moved, WentOn, Telling, Settling
  <2> QED
    BY <1>2, <2>1, CheckoutMoves, NoneMoves
<1>3. CASE CityStep(c)
  <2>1. ASSUME NEW w \in Terms, call[c].pc = "city", FitsCheckout(call[c].listing, w),
               Told(c, w)
        PROVE  Moved(c)
    BY <2>1 DEF Told, Moved, WentOn, Telling, Settling
  <2> QED
    BY <1>3, <2>1, CityMoves, NoneMoves, StartMoves
<1> QED
  BY <1>1, <1>2, <1>3, SyncMoves DEF CallStep

---------------------------------------------------------------------------
(* What no step takes back.                                                *)

Kept ==
  /\ \A k \in Slots : checkout[k].status # "none" =>
       /\ checkout'[k].status # "none"
       /\ checkout'[k].listing = checkout[k].listing
       /\ checkout'[k].buyer = checkout[k].buyer
       /\ checkout'[k].created = checkout[k].created
       /\ checkout'[k].expires = checkout[k].expires
  /\ \A l \in Listings : attempt[l].status # "none" =>
       /\ attempt'[l].status # "none" /\ attempt'[l].terms = attempt[l].terms
       /\ attempt[l].status # "payment_pending" => attempt'[l] = attempt[l]
  /\ purchases \subseteq purchases'
  /\ \A t \in Txs : uses[t] # None => uses'[t] = uses[t]

\* A listing that left, left no later than it is seen to have.
GoneNext(l) == Earliest(listing'[l].removed, listing'[l].withdrawn)

LEMMA GoneIs ==
  ASSUME Typed, [Next]_vars, NEW l \in Listings
  PROVE  /\ Gone(l) = Earliest(listing[l].removed, listing[l].withdrawn)
         /\ Gone(l)' = GoneNext(l)
         /\ Gone(l) \in Time /\ Gone(l)' \in Time
         /\ Gone(l) # 0 => Gone(l)' # 0 /\ Gone(l)' <= Gone(l)
<1> DEFINE r == listing[l]
           n == listing'[l]
<1>1. r \in Row /\ n \in Row
  BY StepListings DEF Typed, TablesOK
<1>2. /\ r.removed \in Time /\ r.withdrawn \in Time
      /\ n.removed \in Time /\ n.withdrawn \in Time
  BY <1>1 DEF Row
<1>3. Gone(l) = Earliest(r.removed, r.withdrawn) /\ Gone(l) \in Time
  <2>1. Gone(l) = Earliest(r.removed, r.withdrawn)
    BY <1>2, EarliestIs DEF Gone
  <2> QED
    BY <1>2, <2>1 DEF Earliest
<1>4. Gone(l)' = Earliest(n.removed, n.withdrawn) /\ Gone(l)' \in Time
  <2>1. Gone(l)' = Earliest(n.removed, n.withdrawn)
    BY <1>2, EarliestIs DEF Gone
  <2> QED
    BY <1>2, <2>1 DEF Earliest
<1>5. n.removed = r.removed /\ n.withdrawn = r.withdrawn
        => Gone(l)' = Gone(l)
  BY <1>3, <1>4
<1>6. ASSUME NEW door \in Doors, NEW at \in Time \ {0}, Closable(l, door),
             n = Closed(r, door, at)
      PROVE  Gone(l) # 0 => Gone(l)' # 0 /\ Gone(l)' <= Gone(l)
  <2>1. r.removed = 0
    BY <1>6 DEF Closable
  <2>2. \/ n.removed = at /\ n.withdrawn = r.withdrawn
        \/ n.removed = r.removed
           /\ n.withdrawn = IF r.withdrawn = 0 THEN at ELSE r.withdrawn
    BY <1>1, <1>6 DEF Closed, Row
  <2> HIDE DEF r, n
  <2> QED
    BY <1>2, <1>3, <1>4, <1>6, <2>1, <2>2 DEF Earliest, Time
<1>7. n = [r EXCEPT !.state = "sold", !.draft = "sold"]
        => n.removed = r.removed /\ n.withdrawn = r.withdrawn
  BY <1>1 DEF Row
<1>8. Gone(l) <= Gone(l)
  BY <1>3 DEF Time
<1>9. Gone(l) # 0 => Gone(l)' # 0 /\ Gone(l)' <= Gone(l)
  <2>1. \/ n = r
        \/ \E door \in Doors, at \in Time \ {0} :
             Closable(l, door) /\ n = Closed(r, door, at)
        \/ n = [r EXCEPT !.state = "sold", !.draft = "sold"]
    BY StepListings
  <2>2. CASE n = r \/ n = [r EXCEPT !.state = "sold", !.draft = "sold"]
    BY <1>5, <1>7, <1>8, <2>2
  <2> QED
    BY <1>6, <2>1, <2>2
<1> QED
  BY <1>3, <1>4, <1>9 DEF GoneNext

LEMMA StepKept ==
  ASSUME Typed, [Next]_vars
  PROVE  Kept
<1>1. \A k \in Slots : checkout[k].status # "none" =>
       /\ checkout'[k].status # "none"
       /\ checkout'[k].listing = checkout[k].listing
       /\ checkout'[k].buyer = checkout[k].buyer
       /\ checkout'[k].created = checkout[k].created
       /\ checkout'[k].expires = checkout[k].expires
  <2> SUFFICES ASSUME NEW k \in Slots, checkout[k].status # "none"
               PROVE  /\ checkout'[k].status # "none"
                      /\ checkout'[k].listing = checkout[k].listing
                      /\ checkout'[k].buyer = checkout[k].buyer
                      /\ checkout'[k].created = checkout[k].created
                      /\ checkout'[k].expires = checkout[k].expires
    OBVIOUS
  <2>1. checkout[k] \in Checkout
    BY DEF Typed, TablesOK
  <2>2. \/ checkout'[k] = checkout[k]
        \/ \E s \in {"expired", "completed"} :
             checkout'[k] = [checkout[k] EXCEPT !.status = s]
    BY StepCheckouts
  <2> QED
    BY <2>1, <2>2 DEF Checkout
<1>2. /\ attempt \in [Listings -> Attempt] /\ uses \in [Txs -> Owners]
      /\ AttemptsMove
  BY StepAttempts DEF Typed, TablesOK
<1> DEFINE K == /\ \A l \in Listings : attempt[l].status # "none" =>
                     /\ attempt'[l].status # "none" /\ attempt'[l].terms = attempt[l].terms
                     /\ attempt[l].status # "payment_pending" => attempt'[l] = attempt[l]
                /\ purchases \subseteq purchases'
                /\ \A t \in Txs : uses[t] # None => uses'[t] = uses[t]
<1>3. ASSUME NEW l \in Listings, NEW b, attempt[l].status = "none",
             attempt' = [attempt EXCEPT ![l] = b], purchases' = purchases,
             \A t \in Txs : uses[t] # None => uses'[t] = uses[t]
      PROVE  K
  BY <1>2, <1>3
<1>4. ASSUME NEW l \in Listings, NEW s \in {"completed", "needs_review"},
             attempt[l].status = "payment_pending",
             attempt' = [attempt EXCEPT ![l].status = s],
             purchases \subseteq purchases', uses' = uses
      PROVE  K
  <2>1. /\ attempt'[l].status = s /\ attempt'[l].terms = attempt[l].terms
        /\ \A x \in Listings : x # l => attempt'[x] = attempt[x]
    BY <1>2, <1>4 DEF Attempt
  <2> QED
    BY <1>4, <2>1
<1>5. ASSUME NEW c \in Calls, Sells(c), uses' = uses PROVE K
  <2>1. PICK l, v : l = call[c].listing /\ v = call[c].row
    OBVIOUS
  <2>2. attempt[l].status = "payment_pending"
    BY <1>5, <2>1 DEF Sells, Sellable, Pending
  <2> QED
    BY <1>4, <1>5, <2>1, <2>2 DEF Sells
<1>6. ASSUME UNCHANGED <<attempt, uses, purchases>> PROVE K
  BY <1>6
<1>7. ASSUME attempt' = attempt, purchases' = purchases, NEW t \in Txs, uses[t] = None,
             uses' = [uses EXCEPT ![t] = Rival]
      PROVE  K
  BY <1>2, <1>7
<1>8. ASSUME NEW c \in Calls, NEW l \in Listings, l = call[c].listing,
             purchases' = purchases, attempt[l].status = "none", NEW w \in Terms,
             uses[w.tx] = None, attempt' = [attempt EXCEPT ![l] = Pending(w)],
             uses' = [uses EXCEPT ![w.tx] = World(l)]
      PROVE  K
  <2>1. \A t \in Txs : uses[t] # None => uses'[t] = uses[t]
    BY <1>2, <1>8
  <2> QED
    BY <1>3, <1>8, <2>1
<1>9. ASSUME NEW l \in Listings, purchases' = purchases, attempt[l].status = "none",
             NEW w \in Terms, uses' = uses,
             attempt' = [attempt EXCEPT ![l] = [status |-> "needs_review", terms |-> w]]
      PROVE  K
  BY <1>3, <1>9
<1>10. ASSUME NEW l \in Listings, purchases' = purchases, uses' = uses,
              attempt[l].status = "payment_pending",
              attempt' = [attempt EXCEPT ![l].status = "needs_review"]
       PROVE  K
  BY <1>4, <1>10
<1> HIDE DEF K
<1>11. K
  BY <1>2, <1>5, <1>6, <1>7, <1>8, <1>9, <1>10 DEF AttemptsMove
<1> QED
  BY <1>1, <1>11 DEF Kept, K

---------------------------------------------------------------------------
(* Type correctness.                                                       *)

LEMMA InitTyped == Init => Typed
<1> SUFFICES ASSUME Init PROVE Typed
  OBVIOUS
<1>1. ChainOK
  BY SaleAssumption DEF Init, ChainOK, Time
<1>2. TablesOK
  BY Basics DEF Init, TablesOK, Owners, NoAttempt
<1>3. \A c \in Calls : MemoryOK(call[c])
  BY DEF Init, MemoryOK, IdleCall, Telling, Settling
<1> QED
  BY <1>1, <1>2, <1>3, Basics DEF Init, Typed

LEMMA StepMoves ==
  ASSUME Typed, [Next]_vars
  PROVE  (\E c \in Calls : Moved(c)) \/ call' = call
BY StepKinds, CallMoves

LEMMA StepRemembers ==
  ASSUME Typed, [Next]_vars
  PROVE  call' \in [Calls -> CallRow] /\ \A c \in Calls : MemoryOK(call[c])'
<1>0. Kept
  BY StepKept
<1>1. call' \in [Calls -> CallRow]
  BY StepMoves DEF Moved, Others, Typed
<1>2. ASSUME NEW d \in Calls PROVE MemoryOK(call[d])'
  <2> DEFINE m == call[d]
             n == call'[d]
  <2>1. MemoryOK(m)
    BY DEF Typed
  <2>2. CASE n = m
    <3>1. m.pc \in Settling \cup {"reread"} => attempt'[m.listing].status # "none"
      BY <1>0, <2>1 DEF MemoryOK, Kept, Settling
    <3> QED
      BY <2>1, <2>2, <3>1 DEF MemoryOK
  <2>3. CASE n.pc = "idle" /\ Answered(m, n)
    BY <2>1, <2>3 DEF Answered, MemoryOK, Telling, Settling
  <2>4. CASE Started(n)
    BY <2>4 DEF Started, MemoryOK, Telling, Settling
  <2>5. CASE WentOn(m, n)
    BY <2>1, <2>5 DEF WentOn, MemoryOK
  <2> QED
    BY <2>2, <2>3, <2>4, <2>5, StepMoves DEF Moved, Others
<1> QED
  BY <1>1, <1>2

LEMMA StepTyped == Typed /\ [Next]_vars => Typed'
<1> SUFFICES ASSUME Typed, [Next]_vars PROVE Typed'
  OBVIOUS
<1>1. ChainOK'
  BY StepChain DEF Typed
<1>2. TablesOK'
  BY StepListings, StepCheckouts, StepAttempts DEF TablesOK
<1> QED
  BY <1>1, <1>2, StepRemembers DEF Typed

\* Every variable of the world sale keeps its type.
THEOREM TypeCorrect == Spec => []TypeOK
<1>1. Typed => TypeOK
  BY DEF Typed, ChainOK, TablesOK, CallRow, Known, TypeOK
<1> QED
  BY <1>1, InitTyped, StepTyped, PTL DEF Spec

---------------------------------------------------------------------------
(* The inductive invariant.  Rows says what an attempt rests on, OneStory  *)
(* that the tables of a sale agree, and Knows that what a call learned     *)
(* still holds when it uses it.                                            *)

Rows ==
  \A l \in Listings :
    LET a == attempt[l] IN
    /\ a.status # "none" => FitsCheckout(l, a.terms)
    /\ a.status \in {"payment_pending", "completed"} => uses[a.terms.tx] = World(l)

OneStory ==
  /\ \A p \in purchases :
       LET a == attempt[p.listing] IN
       /\ a.status = "completed" /\ a.terms.ck = p.ck /\ a.terms.tx = p.tx
       /\ checkout[p.ck].status = "completed"
       /\ Final(p.tx) /\ Proven(p.listing, a.terms)
  /\ \A l \in Listings :
       /\ attempt[l].status = "completed" => Sold(l)
       /\ Sold(l) <=> listing[l].state = "sold"
       /\ Sold(l) <=> listing[l].draft = "sold"
  /\ \A k \in Slots : checkout[k].status = "completed"
                        => \E p \in purchases : p.ck = k

\* The listing had left before the reservation of a claim began.
After(l, w) == Gone(l) # 0 /\ Gone(l) < w.from

\* Why a claim may go to review: told is what the city told the call.
Cause(l, told, w) == \/ Final(w.tx) /\ (After(l, w) \/ ~Proven(l, w))
                     \/ told \notin {NoTerms, w}

Knowing(m) ==
  LET a == attempt[m.listing] IN
  /\ m.pc \in Telling => FitsCheckout(m.listing, m.terms)
  /\ m.pc \in Settling => m.row = a.terms
  /\ m.pc \in {"sell", "raced"} => Final(m.row.tx) /\ Proven(m.listing, m.row)
  /\ m.pc = "raced" /\ a.status = "payment_pending" => After(m.listing, m.row)
  /\ m.pc = "review" /\ a.status = "payment_pending" => Cause(m.listing, m.terms, m.row)
  /\ m.answer = "receipt" => Sold(m.listing)
  /\ m.answer = "review" => a.status = "needs_review"

Knows == \A c \in Calls : Knowing(call[c])

Inv == Typed /\ Rows /\ OneStory /\ Knows

\* What stays true of fixed values.
LEMMA FactsStay ==
  ASSUME Typed, [Next]_vars, NEW l \in Listings, NEW w \in Terms
  PROVE  /\ FitsCheckout(l, w) => FitsCheckout(l, w)'
         /\ Final(w.tx) => Final(w.tx)' /\ (Proven(l, w)' <=> Proven(l, w))
         /\ After(l, w) => After(l, w)'
         /\ Sold(l) => Sold(l)'
<1>0. w.ck \in Slots /\ w.tx \in Txs /\ w.from \in Int
  BY DEF Terms, Time
<1>1. FitsCheckout(l, w) => FitsCheckout(l, w)'
  BY <1>0, StepKept DEF Kept, FitsCheckout
<1>2. Final(w.tx) => Final(w.tx)' /\ (Proven(l, w)' <=> Proven(l, w))
  BY <1>0, StepChain DEF Typed, Proven
<1>3. After(l, w) => After(l, w)'
  BY <1>0, GoneIs DEF After, Time
<1>4. Sold(l) => Sold(l)'
  BY StepKept DEF Kept, Sold
<1> QED
  BY <1>1, <1>2, <1>3, <1>4

---------------------------------------------------------------------------
(* What a step stores or sells.                                            *)

LEMMA Names ==
  /\ \A l \in Listings : World(l) # None /\ World(l) # Rival
  /\ \A l \in Listings, m \in Listings : World(l) = World(m) => l = m
<1>1. \A l \in Listings : World(l) # None /\ World(l) # Rival
  BY SaleAssumption DEF World
<1>2. \A l \in Listings, m \in Listings : World(l) = World(m) => l = m
  BY DEF World
<1> QED
  BY <1>1, <1>2

\* A new attempt holds what the city told of its listing.
LEMMA NewAttempt ==
  ASSUME Typed, [Next]_vars, NEW l \in Listings, attempt[l].status = "none",
         attempt'[l].status # "none"
  PROVE  \E c \in Calls, w \in Terms :
           /\ call[c].pc \in Telling /\ call[c].listing = l /\ call[c].terms = w
           /\ attempt'[l].terms = w
           /\ \/ attempt'[l].status = "needs_review"
              \/ attempt'[l].status = "payment_pending" /\ uses'[w.tx] = World(l)
<1>0. attempt \in [Listings -> Attempt] /\ uses \in [Txs -> Owners] /\ AttemptsMove
  BY StepAttempts DEF Typed, TablesOK
<1>1. ASSUME NEW c \in Calls, Sells(c) PROVE FALSE
  <2>1. PICK m, v : m = call[c].listing /\ v = call[c].row
    OBVIOUS
  <2>2. m \in Listings /\ attempt[m].status = "payment_pending"
    BY <1>1, <2>1 DEF Sells, Sellable, Pending
  <2> QED
    BY <1>0, <1>1, <2>1, <2>2 DEF Sells
<1>2. ASSUME NEW m \in Listings, attempt[m].status = "payment_pending",
             attempt' = [attempt EXCEPT ![m].status = "needs_review"]
      PROVE  FALSE
  BY <1>0, <1>2
<1>3. ASSUME NEW c \in Calls, NEW m \in Listings, NEW w \in Terms, m = call[c].listing,
             w = call[c].terms, InsertAttempt(c),
             attempt' = [attempt EXCEPT ![m] = Pending(w)],
             uses' = [uses EXCEPT ![w.tx] = World(m)]
      PROVE  /\ call[c].pc \in Telling /\ m = l /\ attempt'[l].terms = w
             /\ attempt'[l].status = "payment_pending" /\ uses'[w.tx] = World(l)
  <2>1. m = l
    BY <1>0, <1>3
  <2>2. call[c].pc \in Telling /\ w.tx \in Txs
    BY <1>3 DEF InsertAttempt, Telling, Terms
  <2> QED
    BY <1>0, <1>3, <2>1, <2>2 DEF Pending
<1>4. ASSUME NEW c \in Calls, NEW m \in Listings, NEW w \in Terms, m = call[c].listing,
             w = call[c].terms, InsertConflict(c),
             attempt' = [attempt EXCEPT ![m] = [status |-> "needs_review", terms |-> w]]
      PROVE  /\ call[c].pc \in Telling /\ m = l /\ attempt'[l].terms = w
             /\ attempt'[l].status = "needs_review"
  <2>1. m = l
    BY <1>0, <1>4
  <2>2. call[c].pc \in Telling
    BY <1>4 DEF InsertConflict, Telling
  <2> QED
    BY <1>0, <1>4, <2>1, <2>2
<1> QED
  BY <1>0, <1>1, <1>2, <1>3, <1>4 DEF AttemptsMove

\* A new receipt is a sale.
LEMMA NewReceipt ==
  ASSUME Typed, [Next]_vars, NEW p \in purchases', p \notin purchases
  PROVE  \E c \in Calls : /\ Sell(c) /\ Sells(c)
                          /\ p = Sale(call[c].listing, call[c].row)
BY StepAttempts DEF AttemptsMove, Sells

\* What a sale leaves behind.
LEMMA SaleLeaves ==
  ASSUME Inv, [Next]_vars, NEW c \in Calls, Sell(c), Sells(c),
         NEW l, NEW v, l = call[c].listing, v = call[c].row
  PROVE  /\ l \in Listings /\ v \in Terms
         /\ attempt[l] = Pending(v) /\ ~Conflicting(Sale(l, v)) /\ StillSold(l, v.from)
         /\ attempt'[l].status = "completed" /\ attempt'[l].terms = v
         /\ checkout'[v.ck].status = "completed"
         /\ listing'[l].state = "sold" /\ listing'[l].draft = "sold"
         /\ \A m \in Listings : m # l => /\ attempt'[m] = attempt[m]
                                         /\ listing'[m] = listing[m]
         /\ purchases' = purchases \cup {Sale(l, v)}
         /\ Final(v.tx) /\ Proven(l, v) /\ Final(v.tx)' /\ Proven(l, v)'
<1>1. /\ l \in Listings /\ v \in Terms /\ Sellable(l, v)
      /\ attempt' = [attempt EXCEPT ![l].status = "completed"]
      /\ purchases' = purchases \cup {Sale(l, v)}
      /\ listing' = [listing EXCEPT ![l].state = "sold", ![l].draft = "sold"]
      /\ checkout' = [checkout EXCEPT ![v.ck].status = "completed"]
  BY DEF Sells
<1>2. /\ attempt \in [Listings -> Attempt] /\ listing \in [Listings -> Row]
      /\ checkout \in [Slots -> Checkout]
  BY DEF Inv, Typed, TablesOK
<1>3. attempt[l] = Pending(v) /\ ~Conflicting(Sale(l, v)) /\ StillSold(l, v.from)
  BY <1>1 DEF Sellable
<1>4. attempt'[l].status = "completed" /\ attempt'[l].terms = v
  <2>1. attempt'[l] = [Pending(v) EXCEPT !.status = "completed"]
    BY <1>1, <1>2, <1>3
  <2> QED
    BY <2>1 DEF Pending
<1>5. checkout'[v.ck].status = "completed"
  <2>1. v.ck \in Slots /\ checkout[v.ck] \in Checkout
    BY <1>1, <1>2 DEF Terms
  <2>2. checkout'[v.ck] = [checkout[v.ck] EXCEPT !.status = "completed"]
    BY <1>1, <1>2, <2>1
  <2> QED
    BY <2>1, <2>2 DEF Checkout
<1>6. listing'[l].state = "sold" /\ listing'[l].draft = "sold"
  <2>1. listing[l] \in Row
    BY <1>1, <1>2
  <2>2. listing'[l] = [listing[l] EXCEPT !.state = "sold", !.draft = "sold"]
    BY <1>1, <1>2
  <2> QED
    BY <2>1, <2>2 DEF Row
<1>7. \A m \in Listings : m # l => attempt'[m] = attempt[m] /\ listing'[m] = listing[m]
  BY <1>1, <1>2
<1>8. Final(v.tx) /\ Proven(l, v)
  BY DEF Sell, Inv, Knows, Knowing
<1>9. Final(v.tx)' /\ Proven(l, v)'
  BY <1>1, <1>8, FactsStay DEF Inv
<1> QED
  BY <1>1, <1>3, <1>4, <1>5, <1>6, <1>7, <1>8, <1>9

LEMMA StepRows ==
  ASSUME Inv, [Next]_vars
  PROVE  Rows'
<1>0. Typed /\ Kept
  BY StepKept DEF Inv
<1> SUFFICES ASSUME NEW l \in Listings
             PROVE  /\ attempt'[l].status # "none"
                         => FitsCheckout(l, attempt[l].terms)'
                    /\ attempt'[l].status \in {"payment_pending", "completed"}
                         => uses'[attempt'[l].terms.tx] = World(l)
  BY DEF Rows
<1>1. ASSUME NEW w \in Terms, FitsCheckout(l, w), attempt'[l].terms = w
      PROVE  FitsCheckout(l, attempt[l].terms)'
  <2>1. FitsCheckout(l, w)'
    BY <1>0, <1>1, FactsStay
  <2> QED
    BY <1>1, <2>1 DEF FitsCheckout
<1>2. CASE attempt[l].status = "none"
  <2> SUFFICES ASSUME attempt'[l].status # "none"
               PROVE  /\ FitsCheckout(l, attempt[l].terms)'
                      /\ attempt'[l].status \in {"payment_pending", "completed"}
                           => uses'[attempt'[l].terms.tx] = World(l)
    OBVIOUS
  <2>1. PICK c \in Calls, w \in Terms :
           /\ call[c].pc \in Telling /\ call[c].listing = l /\ call[c].terms = w
           /\ attempt'[l].terms = w
           /\ \/ attempt'[l].status = "needs_review"
              \/ attempt'[l].status = "payment_pending" /\ uses'[w.tx] = World(l)
    BY <1>0, <1>2, NewAttempt
  <2>2. FitsCheckout(l, w)
    BY <2>1 DEF Inv, Knows, Knowing
  <2> QED
    BY <1>1, <2>1, <2>2
<1>3. CASE attempt[l].status # "none"
  <2>1. PICK w : w = attempt[l].terms
    OBVIOUS
  <2>2. w \in Terms /\ FitsCheckout(l, w) /\ attempt'[l].terms = w /\ w.tx \in Txs
    BY <1>0, <1>3, <2>1 DEF Typed, TablesOK, Inv, Rows, Kept, Terms
  <2>3. attempt'[l].status \in {"payment_pending", "completed"} =>
          attempt[l].status \in {"payment_pending", "completed"}
    BY <1>0, <1>3 DEF Typed, TablesOK, Attempt, Kept
  <2>4. attempt[l].status \in {"payment_pending", "completed"} =>
          uses[w.tx] = World(l) /\ uses'[w.tx] = World(l)
    BY <1>0, <2>1, <2>2, Names DEF Inv, Rows, Kept
  <2> QED
    BY <1>1, <2>2, <2>3, <2>4
<1> QED
  BY <1>2, <1>3

LEMMA StepStory ==
  ASSUME Inv, [Next]_vars
  PROVE  OneStory'
<1>0. Typed /\ Kept /\ OneStory
  BY StepKept DEF Inv
<1>1. ASSUME NEW c \in Calls, Sell(c), Sells(c),
             NEW l, NEW v, l = call[c].listing, v = call[c].row
      PROVE  /\ l \in Listings /\ v \in Terms
             /\ attempt'[l].status = "completed" /\ attempt'[l].terms = v
             /\ checkout'[v.ck].status = "completed"
             /\ listing'[l].state = "sold" /\ listing'[l].draft = "sold"
             /\ Sale(l, v) \in purchases' /\ SoldNext(l)
             /\ Final(v.tx)' /\ Proven(l, v)'
  <2>1. Sale(l, v) \in purchases' /\ Sale(l, v).listing = l
    BY <1>1, SaleLeaves DEF Sale
  <2> QED
    BY <1>1, <2>1, SaleLeaves DEF SoldNext
<1>2. ASSUME NEW p \in purchases'
      PROVE  /\ p.listing \in Listings
             /\ attempt'[p.listing].status = "completed"
             /\ attempt'[p.listing].terms.ck = p.ck
             /\ attempt'[p.listing].terms.tx = p.tx
             /\ checkout'[p.ck].status = "completed"
             /\ Final(p.tx)' /\ Proven(p.listing, attempt[p.listing].terms)'
  <2>1. CASE p \in purchases
    <3>1. PICK l, w : l = p.listing /\ w = attempt[l].terms /\ l \in Listings
      BY <1>0, <2>1 DEF Typed, TablesOK, Purchase
    <3>2. /\ attempt[l].status = "completed" /\ w.ck = p.ck /\ w.tx = p.tx
          /\ checkout[p.ck].status = "completed" /\ Final(w.tx) /\ Proven(l, w)
      BY <1>0, <2>1, <3>1 DEF OneStory
    <3>3. w \in Terms /\ p.ck \in Slots
      <4>1. p \in Purchase /\ attempt[l].terms \in Terms
        BY <1>0, <2>1, <3>1, <3>2 DEF Typed, TablesOK
      <4> QED
        BY <3>1, <4>1 DEF Purchase
    <3>4. attempt'[l] = attempt[l]
      BY <1>0, <3>1, <3>2 DEF Kept
    <3>5. Final(w.tx)' /\ Proven(l, w)'
      BY <1>0, <3>1, <3>2, <3>3, FactsStay
    <3>6. checkout'[p.ck].status = "completed"
      <4>1. checkout[p.ck] \in Checkout
        BY <1>0, <3>3 DEF Typed, TablesOK
      <4>2. \/ checkout'[p.ck] = checkout[p.ck]
            \/ checkout'[p.ck] = [checkout[p.ck] EXCEPT !.status = "completed"]
        BY <1>0, <3>2, <3>3, StepCheckouts
      <4> QED
        BY <3>2, <4>1, <4>2 DEF Checkout
    <3>7. Final(p.tx)'
      BY <3>2, <3>5
    <3>8. Proven(p.listing, attempt[p.listing].terms)'
      BY <3>1, <3>4, <3>5 DEF Proven
    <3> QED
      BY <3>1, <3>2, <3>4, <3>6, <3>7, <3>8
  <2>2. CASE p \notin purchases
    <3>1. PICK c \in Calls : /\ Sell(c) /\ Sells(c)
                             /\ p = Sale(call[c].listing, call[c].row)
      BY <1>0, <2>2, NewReceipt
    <3>2. PICK l, v : l = call[c].listing /\ v = call[c].row
      OBVIOUS
    <3>3. /\ l \in Listings /\ v \in Terms
          /\ attempt'[l].status = "completed" /\ attempt'[l].terms = v
          /\ checkout'[v.ck].status = "completed" /\ Final(v.tx)' /\ Proven(l, v)'
      BY <1>1, <3>1, <3>2
    <3>4. p.listing = l /\ p.ck = v.ck /\ p.tx = v.tx
      BY <3>1, <3>2 DEF Sale
    <3>5. Proven(p.listing, attempt[p.listing].terms)'
      BY <3>3, <3>4 DEF Proven
    <3>6. Final(p.tx)'
      BY <3>3, <3>4
    <3> QED
      BY <3>3, <3>4, <3>5, <3>6
  <2> QED
    BY <2>1, <2>2
<1>3. ASSUME NEW l \in Listings
      PROVE  /\ attempt'[l].status = "completed" => SoldNext(l)
             /\ SoldNext(l) <=> listing'[l].state = "sold"
             /\ SoldNext(l) <=> listing'[l].draft = "sold"
  <2>1. /\ attempt[l].status = "completed" => Sold(l)
        /\ Sold(l) <=> listing[l].state = "sold"
        /\ Sold(l) <=> listing[l].draft = "sold"
    BY <1>0 DEF OneStory
  <2>2. CASE \E c \in Calls : Sell(c) /\ Sells(c) /\ l = call[c].listing
    BY <1>1, <2>2
  <2>3. CASE ~\E c \in Calls : Sell(c) /\ Sells(c) /\ l = call[c].listing
    <3>1. SoldNext(l) <=> Sold(l)
      <4>1. Sold(l) => SoldNext(l)
        BY <1>0 DEF Kept, Sold, SoldNext
      <4>2. ASSUME NEW p \in purchases', p.listing = l PROVE p \in purchases
        <5>1. ASSUME NEW c \in Calls, p = Sale(call[c].listing, call[c].row)
              PROVE  l = call[c].listing
          BY <4>2, <5>1 DEF Sale
        <5> QED
          BY <1>0, <2>3, <5>1, NewReceipt
      <4> QED
        BY <4>1, <4>2 DEF Sold, SoldNext
    <3>2. attempt'[l].status = "completed" => attempt[l].status = "completed"
      <4>1. /\ attempt \in [Listings -> Attempt] /\ AttemptsMove
        BY <1>0, StepAttempts DEF Typed, TablesOK
      <4>2. ASSUME NEW m \in Listings, attempt' = [attempt EXCEPT ![m].status = "needs_review"]
            PROVE  attempt'[l].status = "completed" => attempt[l].status = "completed"
        BY <4>1, <4>2 DEF Attempt
      <4>3. ASSUME NEW m \in Listings, NEW w \in Terms,
                   \/ attempt' = [attempt EXCEPT ![m] = Pending(w)]
                   \/ attempt' = [attempt EXCEPT ![m] =
                                    [status |-> "needs_review", terms |-> w]]
            PROVE  attempt'[l].status = "completed" => attempt[l].status = "completed"
        BY <4>1, <4>3 DEF Pending
      <4>4. ASSUME NEW c \in Calls, Sell(c), Sells(c)
            PROVE  attempt'[l].status = "completed" => attempt[l].status = "completed"
        <5>1. l # call[c].listing
          BY <2>3, <4>4
        <5> QED
          BY <1>0, <4>4, <5>1, SaleLeaves
      <4> QED
        BY <4>1, <4>2, <4>3, <4>4 DEF AttemptsMove
    <3>3. /\ listing'[l].state = "sold" <=> listing[l].state = "sold"
          /\ listing'[l].draft = "sold" <=> listing[l].draft = "sold"
      <4>1. listing[l] \in Row
        BY <1>0 DEF Typed, TablesOK
      <4>2. CASE listing'[l] = listing[l]
        BY <4>2
      <4>3. ASSUME NEW door \in Doors, NEW at \in Time \ {0},
                   listing'[l] = Closed(listing[l], door, at)
            PROVE  /\ listing'[l].state = "sold" <=> listing[l].state = "sold"
                   /\ listing'[l].draft = "sold" <=> listing[l].draft = "sold"
        BY <4>1, <4>3 DEF Closed, Row
      <4> QED
        BY <1>0, <2>3, <4>2, <4>3, StepListings
    <3> QED
      BY <2>1, <3>1, <3>2, <3>3
  <2> QED
    BY <2>2, <2>3
<1>4. ASSUME NEW k \in Slots, checkout'[k].status = "completed"
      PROVE  \E p \in purchases' : p.ck = k
  <2>1. CASE checkout[k].status = "completed"
    BY <1>0, <2>1 DEF OneStory, Kept
  <2>2. ASSUME NEW c \in Calls, Sell(c), Sells(c), k = call[c].row.ck
        PROVE  \E p \in purchases' : p.ck = k
    <3>1. PICK l, v : l = call[c].listing /\ v = call[c].row
      OBVIOUS
    <3>2. Sale(l, v) \in purchases' /\ Sale(l, v).ck = k
      BY <1>1, <2>2, <3>1 DEF Sale
    <3> QED
      BY <3>2
  <2>3. checkout[k] \in Checkout
    BY <1>0 DEF Typed, TablesOK
  <2> QED
    BY <1>0, <1>4, <2>1, <2>2, <2>3, StepCheckouts DEF Checkout
<1> QED
  BY <1>2, <1>3, <1>4 DEF OneStory, Sold, SoldNext

---------------------------------------------------------------------------
(* A call still knows what it learned.                                     *)

\* A pending claim that cannot be sold was made after the listing left.
LEMMA UnsoldLeft ==
  ASSUME Inv, [Next]_vars, NEW l \in Listings, NEW v \in Terms,
         attempt[l].status = "payment_pending", attempt[l].terms = v,
         ~Sellable(l, v)
  PROVE  After(l, v)
<1>0. Typed /\ Rows /\ OneStory
  BY DEF Inv
<1>1. attempt[l] = Pending(v)
  <2>1. attempt[l] \in Attempt
    BY <1>0 DEF Typed, TablesOK
  <2> QED
    BY <2>1 DEF Attempt, Pending
<1>2. /\ FitsCheckout(l, v) /\ uses[v.tx] = World(l)
      /\ v.ck \in Slots
  BY <1>0 DEF Rows, Terms
<1>3. ASSUME NEW p \in purchases
      PROVE  p.listing # l /\ p.ck # v.ck /\ p.tx # v.tx
  <2>1. /\ p.listing \in Listings
        /\ attempt[p.listing].status = "completed"
        /\ attempt[p.listing].terms.ck = p.ck /\ attempt[p.listing].terms.tx = p.tx
    BY <1>0, <1>3 DEF Typed, TablesOK, Purchase, OneStory
  <2>2. p.listing # l
    BY <2>1
  <2>3. FitsCheckout(p.listing, attempt[p.listing].terms) /\ uses[p.tx] = World(p.listing)
    BY <1>0, <2>1 DEF Rows
  <2>4. p.ck # v.ck
    BY <1>2, <2>1, <2>2, <2>3 DEF FitsCheckout
  <2>5. p.tx # v.tx
    BY <1>2, <2>1, <2>2, <2>3, Names
  <2> QED
    BY <2>2, <2>4, <2>5
<1>4. ~Conflicting(Sale(l, v))
  BY <1>3 DEF Conflicting, Sale
<1>5. checkout[v.ck].status \in {"active", "expired"}
  <2>1. checkout[v.ck] \in Checkout /\ checkout[v.ck].status # "none"
    BY <1>0, <1>2 DEF Typed, TablesOK, FitsCheckout
  <2>2. checkout[v.ck].status # "completed"
    BY <1>0, <1>2, <1>3 DEF OneStory
  <2> QED
    BY <2>1, <2>2 DEF Checkout
<1>6. ~StillSold(l, v.from)
  BY <1>1, <1>4, <1>5 DEF Sellable
<1>7. Gone(l) \in Int /\ v.from \in Int
  BY <1>0, GoneIs DEF Time, Terms
<1> QED
  BY <1>6, <1>7 DEF StillSold, After

LEMMA CauseStays ==
  ASSUME Typed, [Next]_vars, NEW l \in Listings, NEW told, NEW w \in Terms,
         Cause(l, told, w)
  PROVE  Cause(l, told, w)'
<1>1. CASE told \notin {NoTerms, w}
  BY <1>1 DEF Cause
<1>2. CASE Final(w.tx) /\ (After(l, w) \/ ~Proven(l, w))
  <2>1. Final(w.tx)' /\ (After(l, w)' \/ ~Proven(l, w)')
    BY <1>2, FactsStay
  <2> QED
    BY <2>1 DEF Cause
<1> QED
  BY <1>1, <1>2 DEF Cause

LEMMA StepKnows ==
  ASSUME Inv, [Next]_vars
  PROVE  Knows'
<1>0. Typed /\ Kept /\ Rows
  BY StepKept DEF Inv
<1> SUFFICES ASSUME NEW d \in Calls PROVE Knowing(call[d])'
  BY DEF Knows
<1>1. PICK m, n : m = call[d] /\ n = call'[d]
  OBVIOUS
<1>2. PICK l, w, v : l = m.listing /\ w = m.terms /\ v = m.row
  OBVIOUS
<1>3. Knowing(m) /\ MemoryOK(m)
  BY <1>0, <1>1 DEF Inv, Knows, Typed
<1>4. /\ m.pc # "idle" \/ m.answer # "none" => l \in Listings
      /\ m.pc # "idle" => m.answer = "none"
      /\ m.pc \in Telling => w \in Terms /\ l \in Listings /\ FitsCheckout(l, w)
      /\ m.pc \in Settling => /\ v \in Terms /\ l \in Listings
                              /\ attempt[l].status # "none" /\ v = attempt[l].terms
                              /\ attempt'[l].terms = v
      /\ m.pc \in {"sell", "raced"} => Final(v.tx) /\ Proven(l, v)
      /\ m.pc = "raced" /\ attempt[l].status = "payment_pending" => After(l, v)
      /\ m.pc = "review" /\ attempt[l].status = "payment_pending" => Cause(l, w, v)
      /\ m.answer = "receipt" => Sold(l)
      /\ m.answer = "review" => attempt[l].status = "needs_review"
  <2>1. m.pc \in Telling => w \in Terms /\ l \in Listings /\ FitsCheckout(l, w)
    BY <1>2, <1>3 DEF Knowing, MemoryOK, Telling
  <2>2. m.pc \in Settling => /\ v \in Terms /\ l \in Listings
                             /\ attempt[l].status # "none" /\ v = attempt[l].terms
    BY <1>2, <1>3 DEF Knowing, MemoryOK, Settling
  <2>3. m.pc \in Settling => attempt'[l].terms = v
    BY <1>0, <2>2 DEF Kept
  <2> QED
    BY <1>2, <1>3, <2>1, <2>2, <2>3 DEF Knowing, MemoryOK
<1>5. ASSUME l \in Listings, attempt[l].status # "none",
             attempt'[l].status = "payment_pending"
      PROVE  attempt[l].status = "payment_pending"
  BY <1>0, <1>5 DEF Kept
<1>6. "sell" \in Settling /\ "raced" \in Settling /\ "review" \in Settling
  BY DEF Settling
<1>7. CASE n = m
  <2>1. m.pc \in Telling => FitsCheckout(l, w)'
    BY <1>0, <1>4, FactsStay
  <2>2. m.pc \in {"sell", "raced"} => Final(v.tx)' /\ Proven(l, v)'
    BY <1>0, <1>4, <1>6, FactsStay
  <2>3. m.pc = "raced" /\ attempt'[l].status = "payment_pending" => After(l, v)'
    BY <1>0, <1>4, <1>5, <1>6, FactsStay
  <2>4. m.pc = "review" /\ attempt'[l].status = "payment_pending" => Cause(l, w, v)'
    BY <1>0, <1>4, <1>5, <1>6, CauseStays
  <2>5. m.answer = "receipt" => Sold(l)'
    BY <1>0, <1>4 DEF Kept, Sold
  <2>6. m.answer = "review" => attempt'[l].status = "needs_review"
    BY <1>0, <1>4 DEF Kept
  <2>7. Knowing(n)'
    BY <1>2, <1>4, <1>7, <2>1, <2>2, <2>3, <2>4, <2>5, <2>6 DEF Knowing
  <2> QED
    BY <1>1, <2>7
<1>8. CASE n.pc = "idle" /\ Answered(m, n)
  <2>1. n.answer = "receipt" => Sold(n.listing)'
    BY <1>8 DEF Answered, SoldNext, Sold
  <2>2. n.answer = "review" => attempt'[n.listing].status = "needs_review"
    BY <1>8 DEF Answered
  <2>3. Knowing(n)'
    BY <1>8, <2>1, <2>2 DEF Knowing, Telling, Settling
  <2> QED
    BY <1>1, <2>3
<1>9. CASE Started(n)
  <2>1. Knowing(n)'
    BY <1>9 DEF Started, Knowing, Telling, Settling
  <2> QED
    BY <1>1, <2>1
<1>10. CASE WentOn(m, n)
  <2>1. PICK x, y : x = n.terms /\ y = n.row
    OBVIOUS
  <2>2. l \in Listings /\ n.listing = l /\ n.answer = "none"
    BY <1>2, <1>4, <1>10 DEF WentOn
  <2>3. n.pc \in Telling => FitsCheckout(l, x)'
    <3>1. n.pc \in Telling => x \in Terms /\ FitsCheckout(l, x)
      BY <1>2, <1>4, <1>10, <2>1 DEF WentOn
    <3> QED
      BY <1>0, <2>2, <3>1, FactsStay
  <2>4. n.pc \in Settling => y \in Terms /\ y = attempt'[l].terms
    BY <1>2, <1>4, <1>10, <2>1 DEF WentOn
  <2>5. n.pc \in {"sell", "raced"} => Final(y.tx) /\ Proven(l, y)
    BY <1>2, <1>4, <1>10, <2>1 DEF WentOn
  <2>6. n.pc \in {"sell", "raced"} => Final(y.tx)' /\ Proven(l, y)'
    BY <1>0, <1>6, <2>2, <2>4, <2>5, FactsStay
  <2>7. n.pc = "raced" /\ attempt'[l].status = "payment_pending" => After(l, y)'
    <3> SUFFICES ASSUME n.pc = "raced", attempt'[l].status = "payment_pending"
                 PROVE  After(l, y)'
      OBVIOUS
    <3>1. attempt' = attempt /\ ~Sellable(l, y)
      BY <1>2, <1>10, <2>1 DEF WentOn
    <3>2. y \in Terms /\ attempt[l].terms = y /\ attempt[l].status = "payment_pending"
      BY <1>6, <2>4, <3>1
    <3>3. After(l, y)
      BY <2>2, <3>1, <3>2, UnsoldLeft
    <3> QED
      BY <1>0, <2>2, <3>2, <3>3, FactsStay
  <2>8. n.pc = "review" /\ attempt'[l].status = "payment_pending" => Cause(l, x, y)'
    <3> SUFFICES ASSUME n.pc = "review", attempt'[l].status = "payment_pending"
                 PROVE  Cause(l, x, y)'
      OBVIOUS
    <3>1. y \in Terms
      BY <1>6, <2>4
    <3>2. CASE m.pc = "raced" /\ y = v
      <4>1. Cause(l, x, y)
        BY <1>4, <1>5, <1>6, <3>2 DEF Cause
      <4> QED
        BY <1>0, <2>2, <3>1, <4>1, CauseStays
    <3>3. CASE Final(y.tx) /\ ~Proven(l, y)
      <4>1. Cause(l, x, y)
        BY <3>3 DEF Cause
      <4> QED
        BY <1>0, <2>2, <3>1, <4>1, CauseStays
    <3>4. CASE x \notin {NoTerms, y}
      BY <3>4 DEF Cause
    <3>5. attempt[l].status # "none" => FitsCheckout(l, attempt[l].terms)
      BY <1>0, <2>2 DEF Rows
    <3> QED
      BY <1>2, <1>10, <2>1, <3>2, <3>3, <3>4, <3>5 DEF WentOn
  <2>9. Knowing(n)'
    BY <2>1, <2>2, <2>3, <2>4, <2>6, <2>7, <2>8 DEF Knowing
  <2> QED
    BY <1>1, <2>9
<1> QED
  BY <1>0, <1>1, <1>7, <1>8, <1>9, <1>10, StepMoves DEF Moved, Others

---------------------------------------------------------------------------
(* The invariant holds, and gives the promises of a world sale.            *)

LEMMA InitInv == Init => Inv
<1> SUFFICES ASSUME Init PROVE Inv
  OBVIOUS
<1>1. Rows
  BY DEF Init, Rows, NoAttempt
<1>2. OneStory
  BY DEF Init, OneStory, Sold, NoAttempt, NewRow, NoCheckout
<1>3. Knows
  BY DEF Init, Knows, Knowing, IdleCall, Telling, Settling
<1> QED
  BY <1>1, <1>2, <1>3, InitTyped DEF Inv

LEMMA StepInv == Inv /\ [Next]_vars => Inv'
BY StepTyped, StepRows, StepStory, StepKnows DEF Inv

LEMMA InvHolds == Spec => []Inv
BY InitInv, StepInv, PTL DEF Spec

\* A thing is sold once: its receipt, attempt, checkout, listing and draft agree,
\* the transfer is final, as published and spent on this sale alone, and every
\* answer that claims to be final is.
THEOREM SoldOnceOnly == Spec => []SoldOnce
<1>1. ASSUME Inv PROVE SoldOnce
  <2>0. Typed /\ Rows /\ OneStory /\ Knows
    BY <1>1 DEF Inv
  <2>1. ASSUME NEW p \in purchases
        PROVE  LET w == attempt[p.listing].terms IN
               /\ p \in Purchase /\ w.ck = p.ck /\ w.tx = p.tx
               /\ checkout[p.ck].status = "completed"
               /\ uses[p.tx] = World(p.listing)
               /\ Final(p.tx) /\ Proven(p.listing, w) /\ FitsCheckout(p.listing, w)
    <3>1. p \in Purchase /\ p.listing \in Listings
      BY <2>0, <2>1 DEF Typed, TablesOK, Purchase
    <3>2. /\ attempt[p.listing].status = "completed"
          /\ attempt[p.listing].terms.ck = p.ck /\ attempt[p.listing].terms.tx = p.tx
          /\ checkout[p.ck].status = "completed"
          /\ Final(p.tx) /\ Proven(p.listing, attempt[p.listing].terms)
      BY <2>0, <2>1 DEF OneStory
    <3>3. /\ FitsCheckout(p.listing, attempt[p.listing].terms)
          /\ uses[p.tx] = World(p.listing)
      BY <2>0, <3>1, <3>2 DEF Rows
    <3> QED
      BY <3>1, <3>2, <3>3
  <2>2. ASSUME NEW p \in purchases, NEW q \in purchases, p.listing = q.listing
        PROVE  p = q
    BY <2>1, <2>2 DEF Purchase
  <2>3. ASSUME NEW l \in Listings
        PROVE  LET P == {p \in purchases : p.listing = l} IN
               /\ \A p, q \in P : p = q
               /\ P # {} <=> attempt[l].status = "completed"
               /\ P # {} <=> listing[l].state = "sold"
               /\ P # {} <=> listing[l].draft = "sold"
    <3> DEFINE P == {p \in purchases : p.listing = l}
    <3>1. P # {} <=> Sold(l)
      BY DEF Sold
    <3>2. Sold(l) => attempt[l].status = "completed"
      BY <2>0 DEF Sold, OneStory
    <3>3. /\ attempt[l].status = "completed" => Sold(l)
          /\ Sold(l) <=> listing[l].state = "sold"
          /\ Sold(l) <=> listing[l].draft = "sold"
      BY <2>0 DEF OneStory
    <3>4. \A p, q \in P : p = q
      BY <2>2
    <3> HIDE DEF P
    <3>5. /\ \A p, q \in P : p = q
          /\ P # {} <=> attempt[l].status = "completed"
          /\ P # {} <=> listing[l].state = "sold"
          /\ P # {} <=> listing[l].draft = "sold"
      BY <3>1, <3>2, <3>3, <3>4
    <3> QED
      BY <3>5 DEF P
  <2>4. \A k \in Slots : checkout[k].status = "completed" => \E p \in purchases : p.ck = k
    BY <2>0 DEF OneStory
  <2>5. \A c \in Calls :
          /\ call[c].answer = "receipt" => Sold(call[c].listing)
          /\ call[c].answer = "review" => attempt[call[c].listing].status = "needs_review"
    BY <2>0 DEF Knows, Knowing
  <2> QED
    BY <2>1, <2>3, <2>4, <2>5 DEF SoldOnce
<1> QED
  BY <1>1, InvHolds, PTL

\* Only a call that reviews it sends a pending attempt to review.
LEMMA Reviewed ==
  ASSUME Inv, [Next]_vars, NEW l \in Listings,
         attempt[l].status = "payment_pending", attempt'[l].status = "needs_review"
  PROVE  \E c \in Calls : call[c].pc = "review" /\ call[c].listing = l
<1>0. attempt \in [Listings -> Attempt] /\ AttemptsMove
  BY StepAttempts DEF Inv, Typed, TablesOK
<1>1. ASSUME NEW c \in Calls, Sell(c), Sells(c) PROVE FALSE
  <2>1. PICK m, v : m = call[c].listing /\ v = call[c].row
    OBVIOUS
  <2> QED
    BY <1>1, <2>1, SaleLeaves
<1>2. ASSUME NEW m \in Listings, attempt[m].status = "none", NEW b,
             attempt' = [attempt EXCEPT ![m] = b]
      PROVE  FALSE
  BY <1>0, <1>2
<1>3. ASSUME NEW m \in Listings, attempt' = [attempt EXCEPT ![m].status = "needs_review"]
      PROVE  m = l
  BY <1>0, <1>3
<1> QED
  BY <1>0, <1>1, <1>2, <1>3 DEF AttemptsMove, Review

LEMMA StepBorder ==
  ASSUME Inv, [Next]_vars, NEW l \in Listings
  PROVE  LET w == attempt[l].terms
             after == Gone(l) # 0 /\ Gone(l) < w.from
         IN
         /\ /\ attempt[l].status = "payment_pending"
            /\ attempt'[l].status = "needs_review"
            => \/ Final(w.tx) /\ (after \/ ~Proven(l, w))
               \/ \E c \in Calls : /\ call[c].pc = "review" /\ call[c].listing = l
                                   /\ call[c].terms \notin {NoTerms, w}
         /\ SoldNext(l) /\ ~Sold(l) => ~after
<1> DEFINE w == attempt[l].terms
<1>1. ASSUME attempt[l].status = "payment_pending", attempt'[l].status = "needs_review"
      PROVE  \/ Final(w.tx) /\ (After(l, w) \/ ~Proven(l, w))
             \/ \E c \in Calls : /\ call[c].pc = "review" /\ call[c].listing = l
                                 /\ call[c].terms \notin {NoTerms, w}
  <2>1. PICK c \in Calls : call[c].pc = "review" /\ call[c].listing = l
    BY <1>1, Reviewed
  <2>2. call[c].row = w /\ Cause(l, call[c].terms, call[c].row)
    BY <1>1, <2>1 DEF Inv, Knows, Knowing, Settling
  <2>3. Cause(l, call[c].terms, w)
    BY <2>2
  <2> HIDE DEF w
  <2> QED
    BY <2>1, <2>3 DEF Cause
<1>2. ASSUME SoldNext(l), ~Sold(l) PROVE ~After(l, w)
  <2>1. PICK p \in purchases' : p.listing = l /\ p \notin purchases
    BY <1>2 DEF SoldNext, Sold
  <2>2. PICK c \in Calls : /\ Sell(c) /\ Sells(c)
                           /\ p = Sale(call[c].listing, call[c].row)
    BY <2>1, NewReceipt DEF Inv
  <2>3. PICK v : v = call[c].row /\ l = call[c].listing
    BY <2>1, <2>2 DEF Sale
  <2>4. attempt[l] = Pending(v) /\ StillSold(l, v.from) /\ v \in Terms
    BY <2>2, <2>3, SaleLeaves
  <2>5. w = v
    BY <2>4 DEF Pending
  <2>6. Gone(l) \in Int /\ v.from \in Int
    BY <2>4, GoneIs DEF Inv, Time, Terms
  <2> HIDE DEF w
  <2> QED
    BY <2>4, <2>5, <2>6 DEF StillSold, After
<1> QED
  BY <1>1, <1>2 DEF After

\* A payment goes to review for a cause, never because calls raced, and what
\* sells was reserved before the listing left.
THEOREM TheBorderDecides == Spec => BorderDecides
<1>1. Inv /\ [Next]_vars =>
        [\A l \in Listings :
           LET w == attempt[l].terms
               after == Gone(l) # 0 /\ Gone(l) < w.from
           IN
           /\ /\ attempt[l].status = "payment_pending"
              /\ attempt'[l].status = "needs_review"
              => \/ Final(w.tx) /\ (after \/ ~Proven(l, w))
                 \/ \E c \in Calls : /\ call[c].pc = "review" /\ call[c].listing = l
                                     /\ call[c].terms \notin {NoTerms, w}
           /\ Sold(l)' /\ ~Sold(l) => ~after]_vars
  BY StepBorder DEF SoldNext, Sold
<1> QED
  BY <1>1, InvHolds, PTL DEF Spec, BorderDecides

---------------------------------------------------------------------------
(* World receipts implement the ledger: storing an attempt claims, a sale  *)
(* pays, a review refuses.                                                 *)

Sales == {World(l) : l \in Listings}

Finals == {t \in Txs : Final(t)}

Standings == [a \in Sales |-> Standing(attempt[a[2]])]

LEMMA InitLedger == Init => Ledger!Init
<1> SUFFICES ASSUME Init PROVE Ledger!Init
  OBVIOUS
<1>1. Finals = {}
  BY DEF Init, Finals, Final
<1>2. Standings = [a \in Sales |-> "open"]
  BY DEF Init, Standings, Standing, Sales, World, NoAttempt
<1> QED
  BY <1>1, <1>2 DEF Ledger!Init, Finals, Standings, Sales, Init

LEMMA StepLedger ==
  ASSUME Inv, [Next]_vars
  PROVE  [Ledger!Next]_(Ledger!vars)
<1>0. /\ Typed /\ Rows /\ AttemptsMove
      /\ attempt \in [Listings -> Attempt] /\ uses \in [Txs -> Owners]
      /\ attempt' \in [Listings -> Attempt]
  BY StepAttempts DEF Inv, Typed, TablesOK
<1>1. Finals \subseteq Finals' /\ Finals' \in SUBSET Txs
  BY <1>0, StepChain DEF Finals, Typed
<1>2. attempt' = attempt => Standings' = Standings
  BY DEF Standings
<1>3. ASSUME uses' = uses, Standings' = Standings PROVE [Ledger!Next]_(Ledger!vars)
  BY <1>1, <1>3 DEF Ledger!Next, Ledger!Finalize, Standings, Finals, Sales
<1>4. StoreKept \/ Finals' = Finals
  <2>1. ChainKept => Finals' = Finals
    BY DEF ChainKept, Finals, Final
  <2> QED
    BY <2>1, StepKinds, CallWrites
<1>5. ASSUME NEW l \in Listings, NEW b \in Attempt, attempt' = [attempt EXCEPT ![l] = b]
      PROVE  /\ World(l) \in Sales /\ Standings[World(l)] = Standing(attempt[l])
             /\ Standings' = [Standings EXCEPT ![World(l)] = Standing(b)]
  <2>1. World(l) \in Sales /\ World(l)[2] = l
    BY DEF Sales, World
  <2>2. \A x \in Listings : attempt'[x] = IF x = l THEN b ELSE attempt[x]
    BY <1>0, <1>5
  <2>3. \A a \in Sales : a[2] \in Listings /\ (a = World(l) <=> a[2] = l)
    BY DEF Sales, World
  <2>4. \A a \in Sales : Standing(attempt'[a[2]]) =
                           IF a = World(l) THEN Standing(b) ELSE Standing(attempt[a[2]])
    BY <2>2, <2>3
  <2>5. Standings' = [a \in Sales |-> Standing(attempt'[a[2]])]
    BY DEF Standings
  <2>6. PICK d \in Sales : d = World(l) /\ d[2] = l
    BY <2>1
  <2> QED
    BY <2>4, <2>5, <2>6 DEF Standings
<1>6. ASSUME StoreKept PROVE [Ledger!Next]_(Ledger!vars)
  BY <1>2, <1>3, <1>6 DEF StoreKept
<1>7. ASSUME Finals' = Finals, attempt' = attempt, NEW t \in Txs, uses[t] = None,
             uses' = [uses EXCEPT ![t] = Rival]
      PROVE  [Ledger!Next]_(Ledger!vars)
  <2>1. Ledger!RivalClaim(t)
    BY <1>2, <1>7 DEF Ledger!RivalClaim, Standings, Finals, Sales
  <2> QED
    BY <2>1 DEF Ledger!Next
<1>8. ASSUME Finals' = Finals, NEW l \in Listings, NEW w \in Terms,
             attempt[l].status = "none", uses[w.tx] = None,
             attempt' = [attempt EXCEPT ![l] = Pending(w)],
             uses' = [uses EXCEPT ![w.tx] = World(l)]
      PROVE  [Ledger!Next]_(Ledger!vars)
  <2>1. Pending(w) \in Attempt
    BY DEF Pending, Attempt
  <2>2. PICK d \in Sales, t \in Txs : d = World(l) /\ t = w.tx
    BY <1>5, <1>8, <2>1 DEF Terms
  <2>3. Standings[d] = "open" /\ Standings' = [Standings EXCEPT ![d] = "pending"]
    BY <1>5, <1>8, <2>1, <2>2 DEF Standing, Pending
  <2>4. Ledger!Claim(d, t)
    BY <1>8, <2>2, <2>3 DEF Ledger!Claim, Standings, Finals, Sales
  <2> QED
    BY <2>4 DEF Ledger!Next, Sales
<1>9. ASSUME Finals' = Finals, NEW c \in Calls, Sell(c), Sells(c), uses' = uses
      PROVE  [Ledger!Next]_(Ledger!vars)
  <2>1. PICK l, v : l = call[c].listing /\ v = call[c].row
    OBVIOUS
  <2>2. /\ l \in Listings /\ v \in Terms /\ attempt[l] = Pending(v)
        /\ attempt'[l].status = "completed" /\ Final(v.tx)
        /\ \A m \in Listings : m # l => attempt'[m] = attempt[m]
    BY <1>9, <2>1, SaleLeaves
  <2>3. PICK b \in Attempt : b = attempt'[l]
    BY <1>0, <2>2
  <2>4. attempt' = [attempt EXCEPT ![l] = b]
    BY <1>0, <2>2, <2>3
  <2>5. PICK d \in Sales, t \in Txs : d = World(l) /\ t = v.tx
    BY <1>5, <2>2, <2>3, <2>4 DEF Terms
  <2>6. Standings[d] = "pending" /\ Standings' = [Standings EXCEPT ![d] = "paid"]
    BY <1>5, <2>2, <2>3, <2>4, <2>5 DEF Standing, Pending
  <2>7. uses[t] = d /\ t \in Finals
    BY <1>0, <2>2, <2>5 DEF Rows, Pending, Finals
  <2>8. Ledger!Pay(d)
    BY <1>9, <2>6, <2>7 DEF Ledger!Pay, Ledger!Owns, Standings, Finals, Sales
  <2> QED
    BY <2>8 DEF Ledger!Next, Sales
<1>10. ASSUME Finals' = Finals, NEW l \in Listings, NEW b \in Attempt,
              attempt[l].status \in {"none", "payment_pending"},
              b.status = "needs_review", uses' = uses,
              attempt' = [attempt EXCEPT ![l] = b]
       PROVE  [Ledger!Next]_(Ledger!vars)
  <2>1. PICK d \in Sales : d = World(l)
    BY <1>5, <1>10
  <2>2. /\ Standings[d] \in {"open", "pending"}
        /\ Standings' = [Standings EXCEPT ![d] = "refused"]
    BY <1>5, <1>10, <2>1 DEF Standing
  <2>3. Ledger!Refuse(d)
    BY <1>10, <2>2 DEF Ledger!Refuse, Standings, Finals, Sales
  <2> QED
    BY <2>3 DEF Ledger!Next, Sales
<1>11. ASSUME Finals' = Finals, NEW l \in Listings, NEW w \in Terms, uses' = uses,
              attempt[l].status = "none",
              attempt' = [attempt EXCEPT ![l] = [status |-> "needs_review", terms |-> w]]
       PROVE  [Ledger!Next]_(Ledger!vars)
  <2>1. [status |-> "needs_review", terms |-> w] \in Attempt
    BY DEF Attempt
  <2> QED
    BY <1>10, <1>11, <2>1
<1>12. ASSUME Finals' = Finals, NEW l \in Listings, uses' = uses,
              attempt[l].status = "payment_pending",
              attempt' = [attempt EXCEPT ![l].status = "needs_review"]
       PROVE  [Ledger!Next]_(Ledger!vars)
  <2>1. PICK b : b = [attempt[l] EXCEPT !.status = "needs_review"]
    OBVIOUS
  <2>2. b \in Attempt /\ b.status = "needs_review"
    BY <1>0, <2>1 DEF Attempt
  <2>3. attempt' = [attempt EXCEPT ![l] = b]
    BY <1>0, <1>12, <2>1
  <2> QED
    BY <1>10, <1>12, <2>2, <2>3
<1> QED
  BY <1>0, <1>2, <1>3, <1>4, <1>6, <1>7, <1>8, <1>9, <1>11, <1>12 DEF AttemptsMove

\* A world sale is one more channel of the market's ledger of transactions.
THEOREM SalesImplementLedger == Spec => LedgerSpec
<1>1. Inv /\ [Next]_vars =>
        [UNCHANGED <<uses, attempt, {t \in Txs : Final(t)}>>
         \/ Ledger!Next]_(Ledger!vars)
  BY StepLedger
<1> QED
  BY <1>1, InitLedger, InvHolds, PTL DEF Spec, LedgerSpec
=============================================================================
