----------------------------- MODULE WorldSale -----------------------------
(***************************************************************************)
(* Selling a thing of the city 1F3D9: src/world-checkout-routes.ts,        *)
(* src/world-payment-attempts.ts, src/world-payment-sync.ts, the removal   *)
(* of src/moderation-routes.ts and the withdrawal of                       *)
(* src/artifact-listing-routes.ts, with their tables and triggers.         *)
(*                                                                         *)
(* A buyer opens a public checkout at the market, reserves and pays in the *)
(* city, and any merchant synchronizes the market with what the city       *)
(* publishes: a sale needs the same transfer, finalized on Base.  The city *)
(* is not trusted to be quick, complete or consistent: each read of its    *)
(* record may find any well-formed offer of the listing.  Meanwhile the    *)
(* seller withdraws and the maintainer removes.                            *)
(***************************************************************************)
EXTENDS Integers

CONSTANTS
  Listings,   \* activated world listings, each with its draft
  Buyers,     \* merchants with a city handle
  Slots,      \* bound: ids of checkouts
  Txs,        \* Base transactions
  Covers,     \* the listings whose wallets and price each one meets
  Calls,      \* concurrently running requests
  Life,       \* the ten minutes of a checkout, in blocks
  Lead,       \* the sixty seconds a city clock may lead, in blocks
  Window,     \* the five minutes of a city reservation, in blocks
  MaxTime,    \* bound: last block of the chain, which is also the clock
  Closings,   \* bound: how a listing may be closed, of Doors
  Says,       \* bound: the claims the city may publish, of Terms
  None,       \* absent listing, buyer, checkout, transaction or owner
  Rival       \* any other payment channel

Doors == {"removed", "withdrawn", "canceled", "stale"}

ASSUME SaleAssumption ==
  /\ Slots \subseteq Nat \ {0}
  /\ Covers \in [Txs -> SUBSET Listings]
  /\ Life \in Nat \ {0} /\ Lead \in Nat /\ Window \in Nat \ {0}
  /\ MaxTime \in Nat \ {0} /\ Closings \subseteq Doors
  /\ None \notin Listings \cup Buyers \cup Slots \cup Txs \cup {Rival}
  /\ {None, Rival} \cap ({"world"} \X Listings) = {}

VARIABLES
  now,        \* latest Base block
  fin,        \* finalized Base block
  mined,      \* the block holding each transaction, 0 outside the chain
  listing,    \* table listings with the state of its row in world_drafts
  checkout,   \* table world_checkouts
  attempt,    \* table world_payment_attempts, one row per listing
  purchases,  \* table purchases
  uses,       \* table payment_uses, the owner of each transaction
  call        \* the state of each running request

chain == <<now, fin, mined>>
store == <<listing, checkout, attempt, purchases, uses>>
vars == <<chain, store, call>>

---------------------------------------------------------------------------
(* The stored rows and the memory of a call.                               *)

Time == 0..MaxTime

World(l) == <<"world", l>>

Owners == {World(l) : l \in Listings} \cup {None, Rival}

Row == [state     : {"active", "sold", "canceled", "stale"},
        removed   : Time,                    \* removed_at, 0 if NULL
        withdrawn : Time,                    \* withdrawn_at, 0 if NULL
        draft     : {"active", "withdrawn", "canceled", "sold"}]

NewRow == [state |-> "active", removed |-> 0, withdrawn |-> 0,
           draft |-> "active"]

Checkout == [status  : {"none", "active", "expired", "completed"},
             listing : Listings \cup {None},
             buyer   : Buyers \cup {None},
             created : Time,
             expires : 0..(MaxTime + Life)]

NoCheckout == [status |-> "none", listing |-> None, buyer |-> None,
               created |-> 0, expires |-> 0]

\* What the city says of a claim, and what the market stores of it first.
Terms == [ck   : Slots,                      \* market_checkout_id
          tx   : Txs,
          from : Time,                       \* reserved_at
          till : 1..(MaxTime + Window + 1),  \* reserved_until
          at   : Time]                       \* block_time

ASSUME SaysAssumption == Says \subseteq Terms

NoTerms == [ck |-> None, tx |-> None, from |-> 0, till |-> 0, at |-> 0]

Attempt == [status : {"none", "payment_pending", "completed", "needs_review"},
            terms  : Terms \cup {NoTerms}]

NoAttempt == [status |-> "none", terms |-> NoTerms]

Purchase == [listing : Listings, ck : Slots, tx : Txs]

Labels == {"idle", "look", "sweep", "bind", "closing",
           "prior", "listing", "stored", "city", "existing", "insert",
           "reread", "conflict", "chain", "sell", "raced", "review", "missing"}

Answers == {"none", "review", "receipt"}

IdleCall == [pc |-> "idle", listing |-> None, buyer |-> None,
             door |-> "none",                \* how it closes the listing
             stamp |-> 0,                    \* now() of its statement
             seen |-> {},                    \* the checkouts it will expire
             gone |-> 0,                     \* the listing row it read
             terms |-> NoTerms,              \* what the city said
             row |-> NoTerms,                \* the attempt it settles
             answer |-> "none"]

Init ==
  /\ now = 1 /\ fin = 0
  /\ mined = [t \in Txs |-> 0]
  /\ listing = [l \in Listings |-> NewRow]
  /\ checkout = [k \in Slots |-> NoCheckout]
  /\ attempt = [l \in Listings |-> NoAttempt]
  /\ purchases = {}
  /\ uses = [t \in Txs |-> None]
  /\ call = [c \in Calls |-> IdleCall]

---------------------------------------------------------------------------
(* How a call moves on.                                                    *)

Goto(c, label) == call' = [call EXCEPT ![c].pc = label]

\* Of the answers, those that claim to be final are remembered, with their
\* listing.
Reply(c, x) ==
  call' = [call EXCEPT ![c] =
    IF x \in {"receipt", "review"}
    THEN [IdleCall EXCEPT !.answer = x, !.listing = call[c].listing]
    ELSE IdleCall]

\* The instant a listing left, by either column, 0 while it has not.
Gone(l) ==
  LET out == {listing[l].removed, listing[l].withdrawn} \ {0}
  IN  IF out = {} THEN 0 ELSE CHOOSE x \in out : \A y \in out : x <= y

Live(l) == listing[l].state = "active" /\ Gone(l) = 0

Open(l) == {k \in Slots : checkout[k].listing = l /\ checkout[k].status = "active"}

Sold(l) == \E p \in purchases : p.listing = l

Final(t) == mined[t] # 0 /\ mined[t] <= fin

Begin(c, l, label) ==
  /\ call[c].pc = "idle"
  /\ call' = [call EXCEPT ![c] = [IdleCall EXCEPT !.pc = label, !.listing = l]]
  /\ UNCHANGED <<chain, store>>

---------------------------------------------------------------------------
(* POST /api/world/checkout: a public intent to buy.                       *)

AskCheckout(c, l, b) ==
  /\ call[c].pc = "idle"
  /\ call' = [call EXCEPT ![c] =
       [IdleCall EXCEPT !.pc = "look", !.listing = l, !.buyer = b]]
  /\ UNCHANGED <<chain, store>>

\* The listing, and the city's resident and offer, which may not be available.
LookCheckout(c) ==
  /\ call[c].pc = "look"
  /\ \/ Live(call[c].listing) /\ Goto(c, "sweep")
     \/ Reply(c, "refused")
  /\ UNCHANGED <<chain, store>>

Sweep(c) ==
  LET l == call[c].listing IN
  /\ call[c].pc = "sweep"
  /\ checkout' = [k \in Slots |->
       IF k \in Open(l) /\ checkout[k].expires <= now
       THEN [checkout[k] EXCEPT !.status = "expired"] ELSE checkout[k]]
  /\ Goto(c, "bind")
  /\ UNCHANGED <<chain, listing, attempt, purchases, uses>>

FreeSlots == {k \in Slots : checkout[k].status = "none"}
NextSlot == CHOOSE k \in FreeSlots : \A j \in FreeSlots : k <= j

\* still_live locks the listing row, and a buyer has one active checkout of it.
Bind(c) ==
  LET l == call[c].listing
      b == call[c].buyer
  IN
  /\ call[c].pc = "bind"
  /\ IF Live(l) /\ \A k \in Open(l) : checkout[k].buyer # b
     THEN /\ FreeSlots # {}
          /\ checkout' = [checkout EXCEPT ![NextSlot] =
               [status |-> "active", listing |-> l, buyer |-> b,
                created |-> now, expires |-> now + Life]]
          /\ Reply(c, "bound")
     ELSE Reply(c, "refused") /\ UNCHANGED checkout
  /\ UNCHANGED <<chain, listing, attempt, purchases, uses>>

---------------------------------------------------------------------------
(* One statement closes the listing, its draft and its checkouts: on       *)
(* removal, on withdrawal, or as a synchronization learns that the city    *)
(* canceled the offer or ended its payment without a sale.                 *)

\* The statement starts: its now() and the checkouts of its snapshot.
Close(c, l, door) ==
  call' = [call EXCEPT ![c] =
    [IdleCall EXCEPT !.pc = "closing", !.listing = l, !.door = door,
                     !.stamp = now, !.seen = Open(l)]]

CloseStarts(c, l, door) ==
  /\ call[c].pc = "idle" /\ Close(c, l, door)
  /\ UNCHANGED <<chain, store>>

\* The WHERE of each statement, asked of the row once it is locked.
Closable(l, door) ==
  LET r == listing[l] IN
  /\ r.removed = 0
  /\ door = "withdrawn" => r.withdrawn = 0 /\ r.state # "sold"
  /\ door \in {"canceled", "stale"} => r.state = "active"

\* Mutant of Closed: world_state is set to the word of the door.
ClosedAsNamed(r, door, at) == [r EXCEPT !.state = door, !.withdrawn = at]

Closed(r, door, at) ==
  LET end == [r EXCEPT !.state = IF @ = "sold" THEN @
                                 ELSE IF door = "stale" THEN "stale" ELSE "canceled",
                       !.draft = IF @ = "sold" THEN @
                                 ELSE IF door = "withdrawn" THEN "withdrawn"
                                                            ELSE "canceled"]
  IN  IF door = "removed" THEN [end EXCEPT !.removed = at]
      ELSE [end EXCEPT !.withdrawn = IF @ = 0 THEN at ELSE @]

\* The listing row is locked and changed; of the checkouts, only those of the
\* snapshot are looked at.
CloseCommits(c) ==
  LET l == call[c].listing
      door == call[c].door
  IN
  /\ call[c].pc = "closing"
  /\ IF Closable(l, door)
     THEN /\ listing' = [listing EXCEPT ![l] = Closed(@, door, call[c].stamp)]
          /\ checkout' = [k \in Slots |->
               IF k \in call[c].seen \cap Open(l)
               THEN [checkout[k] EXCEPT !.status = "expired"] ELSE checkout[k]]
     ELSE UNCHANGED <<listing, checkout>>
  /\ Reply(c, "closed")
  /\ UNCHANGED <<chain, attempt, purchases, uses>>

---------------------------------------------------------------------------
(* POST /api/world/sync, up to the payment it settles.                     *)

Sync(c, l) == Begin(c, l, "prior")

ReadPrior(c) ==
  /\ call[c].pc = "prior"
  /\ IF Sold(call[c].listing) THEN Reply(c, "receipt") ELSE Goto(c, "listing")
  /\ UNCHANGED <<chain, store>>

ReadListing(c) ==
  /\ call[c].pc = "listing"
  /\ call' = [call EXCEPT ![c].pc = "stored", ![c].gone = Gone(call[c].listing)]
  /\ UNCHANGED <<chain, store>>

\* Every instant of a claim lies in its window, and the window in its checkout:
\* the tests of the route, repeated on a stored attempt by
\* preservedAttemptMatchesCheckout.
FitsCheckout(l, w) ==
  LET k == checkout[w.ck] IN
  /\ k.status # "none" /\ k.listing = l
  /\ k.created - Lead <= w.from /\ w.from < k.expires
  /\ w.from <= w.at /\ w.at < w.till

\* settleWorldPaymentAttempt begins with the status of the row it was given.
Settle(c, a) ==
  CASE a.status = "needs_review" -> Reply(c, "review")
    [] a.status = "completed" ->
         call' = [call EXCEPT ![c].pc = "missing", ![c].row = a.terms]
    [] a.status = "payment_pending" ->
         call' = [call EXCEPT ![c].pc = "chain", ![c].row = a.terms]

\* readWorldPaymentAttemptForListing: the first payment stored is the one.
ReadStored(c) ==
  LET l == call[c].listing
      a == attempt[l]
  IN
  /\ call[c].pc = "stored"
  /\ IF a.status = "none" THEN Goto(c, "city")
     ELSE IF a.status = "payment_pending" /\ ~FitsCheckout(l, a.terms)
     THEN call' = [call EXCEPT ![c].pc = "review", ![c].row = a.terms]
     ELSE Settle(c, a)
  /\ UNCHANGED <<chain, store>>

\* What the city may publish of an offer that is not claimed, or not for the
\* terms of this listing.
CityIsOpen(c) ==
  /\ call[c].pc = "city" /\ Reply(c, "refused")
  /\ UNCHANGED <<chain, store>>

CityIsOver(c, door) ==
  /\ call[c].pc = "city" /\ Close(c, call[c].listing, door)
  /\ UNCHANGED <<chain, store>>

\* The reservation began while the checkout ran and before the listing left,
\* and its payment is dated inside it.
Admissible(c, w) ==
  /\ FitsCheckout(call[c].listing, w)
  /\ call[c].gone = 0 \/ w.from <= call[c].gone

CityIsClaimed(c, w) ==
  /\ call[c].pc = "city" /\ Admissible(c, w)
  /\ call' = [call EXCEPT ![c].pc = "existing", ![c].terms = w]
  /\ UNCHANGED <<chain, store>>

---------------------------------------------------------------------------
(* reserveWorldPaymentAttempt: the evidence is stored before Base is asked.*)

\* An attempt found instead of stored must have the same terms.
Found(c, a) ==
  IF a.terms = call[c].terms THEN Settle(c, a)
  ELSE call' = [call EXCEPT ![c].pc = "review", ![c].row = a.terms]

ReadExisting(c) ==
  LET a == attempt[call[c].listing] IN
  /\ call[c].pc = "existing"
  /\ IF a.status # "none" /\ a.terms.ck = call[c].terms.ck THEN Found(c, a)
                                                            ELSE Goto(c, "insert")
  /\ UNCHANGED <<chain, store>>

Pending(w) == [status |-> "payment_pending", terms |-> w]

\* world_payment_attempts_tx_owner_unique: another listing holds the transaction.
Held(t) == \E l \in Listings : attempt[l].terms.tx = t
                               /\ attempt[l].status \in {"payment_pending", "completed"}

\* Mutant of Unused: the trigger does not look who owns the transaction.
UsedOrNot(t) == TRUE

Unused(t) == uses[t] = None

\* The row and its payment_uses row, or the first constraint that refuses them.
InsertAttempt(c) ==
  LET l == call[c].listing
      w == call[c].terms
      mine == attempt[l].terms.ck = w.ck
      free == attempt[l].status = "none"
  IN
  /\ call[c].pc = "insert"
  /\ \/ /\ w.till > w.from + Window             \* world_payment_attempt_window
        /\ Reply(c, "uncertain") /\ UNCHANGED <<attempt, uses>>
     \/ /\ w.till <= w.from + Window
        /\ \/ /\ free /\ ~Held(w.tx) /\ Unused(w.tx)
              /\ attempt' = [attempt EXCEPT ![l] = Pending(w)]
              /\ uses' = [uses EXCEPT ![w.tx] = World(l)]
              /\ Settle(c, Pending(w))
           \/ /\ ~free /\ (mine \/ ~Held(w.tx))
              /\ Goto(c, "reread") /\ UNCHANGED <<attempt, uses>>
           \/ /\ IF free THEN Held(w.tx) \/ ~Unused(w.tx) ELSE ~mine /\ Held(w.tx)
              /\ Goto(c, "conflict") /\ UNCHANGED <<attempt, uses>>
  /\ UNCHANGED <<chain, listing, checkout, purchases>>

\* The row of the checkout, or of the listing, that was first.
RereadAttempt(c) ==
  /\ call[c].pc = "reread" /\ Found(c, attempt[call[c].listing])
  /\ UNCHANGED <<chain, store>>

\* The evidence is kept for review, without the transaction.
InsertConflict(c) ==
  LET l == call[c].listing IN
  /\ call[c].pc = "conflict"
  /\ IF attempt[l].status = "none"
     THEN /\ attempt' = [attempt EXCEPT ![l] =
               [status |-> "needs_review", terms |-> call[c].terms]]
          /\ Reply(c, "review")
     ELSE Reply(c, "uncertain") /\ UNCHANGED attempt
  /\ UNCHANGED <<chain, listing, checkout, purchases, uses>>

---------------------------------------------------------------------------
(* settleWorldPaymentAttempt.                                              *)

\* transferMatchesStoredWindow on a transfer of the stored terms.
Proven(l, w) == l \in Covers[w.tx] /\ mined[w.tx] = w.at
                /\ w.from <= mined[w.tx] /\ mined[w.tx] < w.till

ReadChain(c) ==
  LET w == call[c].row IN
  /\ call[c].pc = "chain"
  /\ \/ ~Final(w.tx) /\ Reply(c, "pending")
     \/ /\ Final(w.tx)
        /\ Goto(c, IF Proven(call[c].listing, w) THEN "sell" ELSE "review")
  /\ UNCHANGED <<chain, store>>

\* Mutant of StillSold: the listing is trusted as it was read.
SoldAnyway(l, from) == TRUE

\* locked_sale: the reservation began no later than the listing left.
StillSold(l, from) == Gone(l) = 0 \/ from <= Gone(l)

\* purchases takes one row per checkout, transaction, and listing and buyer.
Conflicting(p) ==
  \E q \in purchases :
    \/ q.ck = p.ck \/ q.tx = p.tx
    \/ q.listing = p.listing /\ checkout[q.ck].buyer = checkout[p.ck].buyer

Sell(c) ==
  LET l == call[c].listing
      w == call[c].row
      p == [listing |-> l, ck |-> w.ck, tx |-> w.tx]
  IN
  /\ call[c].pc = "sell"
  /\ IF /\ StillSold(l, w.from) /\ checkout[w.ck].status \in {"active", "expired"}
        /\ attempt[l] = Pending(w) /\ ~Conflicting(p)
     THEN /\ attempt' = [attempt EXCEPT ![l].status = "completed"]
          /\ purchases' = purchases \cup {p}
          /\ listing' = [listing EXCEPT ![l].state = "sold", ![l].draft = "sold"]
          /\ checkout' = [checkout EXCEPT ![w.ck].status = "completed"]
          /\ Reply(c, "receipt")
     ELSE Goto(c, "raced") /\ UNCHANGED <<listing, checkout, attempt, purchases>>
  /\ UNCHANGED <<chain, uses>>

\* Nothing was recorded: by another call, or because it must not be.
ReadRaced(c) ==
  /\ call[c].pc = "raced"
  /\ IF Sold(call[c].listing) THEN Reply(c, "receipt") ELSE Goto(c, "review")
  /\ UNCHANGED <<chain, store>>

\* Mutant of Review: the update does not ask for a pending row.
ReviewAlways(c) ==
  /\ call[c].pc = "review"
  /\ attempt' = [attempt EXCEPT ![call[c].listing].status = "needs_review"]
  /\ Reply(c, "review")
  /\ UNCHANGED <<chain, listing, checkout, purchases, uses>>

\* reviewWorldPaymentAttempt: only a pending row; any other is terminal, so its
\* re-read is part of the step.
Review(c) ==
  LET l == call[c].listing IN
  /\ call[c].pc = "review"
  /\ IF attempt[l].status = "payment_pending"
     THEN /\ attempt' = [attempt EXCEPT ![l].status = "needs_review"]
          /\ Reply(c, "review")
     ELSE /\ UNCHANGED attempt
          /\ IF attempt[l].status = "completed" THEN Goto(c, "missing")
                                                ELSE Reply(c, "review")
  /\ UNCHANGED <<chain, listing, checkout, purchases, uses>>

\* missingCompletedReceipt.
ReadMissing(c) ==
  /\ call[c].pc = "missing"
  /\ Reply(c, IF Sold(call[c].listing) THEN "receipt" ELSE "uncertain")
  /\ UNCHANGED <<chain, store>>

---------------------------------------------------------------------------
(* Calls die, the chain grows.                                             *)

\* The function is killed, or a database, Base or city call fails.
Abandon(c) ==
  /\ call[c].pc # "idle"
  /\ Reply(c, "uncertain")
  /\ UNCHANGED <<chain, store>>

RivalClaims(t) ==
  /\ Unused(t)
  /\ uses' = [uses EXCEPT ![t] = Rival]
  /\ UNCHANGED <<chain, listing, checkout, attempt, purchases, call>>

Mine(t) ==
  /\ mined[t] = 0 /\ fin < now
  /\ mined' = [mined EXCEPT ![t] = now]
  /\ UNCHANGED <<now, fin, store, call>>

Reorg(t) ==
  /\ mined[t] > fin
  /\ mined' = [mined EXCEPT ![t] = 0]
  /\ UNCHANGED <<now, fin, store, call>>

NewBlock ==
  /\ now < MaxTime
  /\ now' = now + 1
  /\ UNCHANGED <<fin, mined, store, call>>

FinalizeBlock ==
  /\ fin < now
  /\ fin' = fin + 1
  /\ UNCHANGED <<now, mined, store, call>>

---------------------------------------------------------------------------

Arrive(c, l) ==
  \/ Sync(c, l)
  \/ \E b \in Buyers : AskCheckout(c, l, b)
  \/ \E door \in {"removed", "withdrawn"} \cap Closings : CloseStarts(c, l, door)

CityStep(c) ==
  \/ CityIsOpen(c)
  \/ \E door \in {"canceled", "stale"} \cap Closings : CityIsOver(c, door)
  \/ \E w \in Says : CityIsClaimed(c, w)

CheckoutStep(c) == LookCheckout(c) \/ Sweep(c) \/ Bind(c)

SyncStep(c) == ReadPrior(c) \/ ReadListing(c) \/ ReadStored(c) \/ ReadExisting(c)
               \/ InsertAttempt(c) \/ RereadAttempt(c) \/ InsertConflict(c)
               \/ ReadChain(c) \/ Sell(c) \/ ReadRaced(c) \/ Review(c)
               \/ ReadMissing(c)

Next ==
  \/ \E c \in Calls :
       \/ \E l \in Listings : Arrive(c, l)
       \/ CheckoutStep(c) \/ CloseCommits(c) \/ CityStep(c) \/ SyncStep(c)
       \/ Abandon(c)
  \/ \E t \in Txs : RivalClaims(t) \/ Mine(t) \/ Reorg(t)
  \/ NewBlock \/ FinalizeBlock

Spec == Init /\ [][Next]_vars

---------------------------------------------------------------------------
(* What a world sale promises.                                             *)

TypeOK ==
  /\ now \in Time /\ fin \in Time
  /\ mined \in [Txs -> Time]
  /\ listing \in [Listings -> Row]
  /\ checkout \in [Slots -> Checkout]
  /\ attempt \in [Listings -> Attempt]
  /\ purchases \subseteq Purchase
  /\ uses \in [Txs -> Owners]
  /\ \A c \in Calls :
       /\ call[c].pc \in Labels /\ call[c].answer \in Answers
       /\ call[c].listing \in Listings \cup {None}
       /\ {call[c].terms, call[c].row} \subseteq Terms \cup {NoTerms}
       /\ call[c].seen \subseteq Slots

\* The receipt, the attempt, the checkout, the listing and its draft tell one
\* story: a thing is sold once, to the checkout that was paid, by a finalized
\* transfer that payment_uses gives to this sale alone, dated as the city said
\* inside a reservation that began while the checkout ran; and a call that
\* answered with the receipt, or that nothing will be sold, was right for ever.
SoldOnce ==
  /\ \A l \in Listings :
       LET P == {p \in purchases : p.listing = l} IN
       /\ \A p, q \in P : p = q
       /\ P # {} <=> attempt[l].status = "completed"
       /\ P # {} <=> listing[l].state = "sold"
       /\ P # {} <=> listing[l].draft = "sold"
  /\ \A p \in purchases :
       LET w == attempt[p.listing].terms IN
       /\ w.ck = p.ck /\ w.tx = p.tx /\ checkout[p.ck].status = "completed"
       /\ uses[p.tx] = World(p.listing)
       /\ Final(p.tx) /\ Proven(p.listing, w) /\ FitsCheckout(p.listing, w)
  /\ \A k \in Slots : checkout[k].status = "completed"
                        => \E p \in purchases : p.ck = k
  /\ \A c \in Calls : LET l == call[c].listing IN
       /\ call[c].answer = "receipt" => Sold(l)
       /\ call[c].answer = "review" => attempt[l].status = "needs_review"

\* A payment is sent to review for a cause, never because calls raced: Base
\* finalized another transfer than the city reported, the listing had left
\* before the reservation began, or the city told a call something else; and
\* what sells was reserved before the listing left.
BorderDecides ==
  [][\A l \in Listings :
       LET w == attempt[l].terms
           after == Gone(l) # 0 /\ Gone(l) < w.from
       IN
       /\ /\ attempt[l].status = "payment_pending"
          /\ attempt'[l].status = "needs_review"
          => \/ Final(w.tx) /\ (after \/ ~Proven(l, w))
             \/ \E c \in Calls : /\ call[c].pc = "review" /\ call[c].listing = l
                                 /\ call[c].terms \notin {NoTerms, w}
       /\ Sold(l)' /\ ~Sold(l) => ~after]_vars

---------------------------------------------------------------------------
(* World receipts are one more channel of the market's ledger.             *)

Standing(a) ==
  CASE a.status = "none"            -> "open"
    [] a.status = "payment_pending" -> "pending"
    [] a.status = "completed"       -> "paid"
    [] a.status = "needs_review"    -> "refused"

Ledger == INSTANCE PaymentLedger WITH
  Actions  <- {World(l) : l \in Listings},
  owner    <- uses,
  standing <- [a \in {World(l) : l \in Listings} |-> Standing(attempt[a[2]])],
  final    <- {t \in Txs : Final(t)}

\* Ledger!Spec; a step that touches none of its three tables stutters.
LedgerSpec ==
  /\ Ledger!Init
  /\ [][UNCHANGED <<uses, attempt, {t \in Txs : Final(t)}>>
        \/ Ledger!Next]_(Ledger!vars)
=============================================================================
