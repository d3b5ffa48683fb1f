----------------------------- MODULE ListingFee -----------------------------
(***************************************************************************)
(* The one-dollar fee of a new listing: src/listing-fee-payment.ts with    *)
(* the tables listings, fees and listing_fee_attempts and their triggers.  *)
(*                                                                         *)
(* A listing request (a merchant and the exact body it sends) is paid      *)
(* either by x402, or by a direct transfer whose hash comes in the body    *)
(* and is kept in an attempt of its own, so that Base finality may arrive  *)
(* after the request that reported it.  Both listing routes,               *)
(* ArtifactListing and WorldListing, take the steps defined here: a call   *)
(* enters at "fee" or "settle" and comes out at the label in its field     *)
(* next, holding a verified fee.                                           *)
(***************************************************************************)
EXTENDS Integers

CONSTANTS
  Bodies,     \* a merchant and the listing it asks for (fee_request_hash)
  Ids,        \* listing ids
  Txs,        \* Base transactions
  Covers,     \* the bodies whose wallet, treasury and amount each one meets
  Calls,      \* concurrently running requests
  Sent,       \* bound: what is sent, a body, X-PAYMENT or not, a fee_tx_hash
  Lookback,   \* DIRECT_FEE_LOOKBACK_MS, in blocks
  MaxTime,    \* bound: last block of the chain, which is also the clock
  None,       \* absent body, id, transaction or owner
  Rival       \* any payment channel but the two modelled here

ASSUME FeeAssumption ==
  /\ Ids \subseteq Nat \ {0}
  /\ Covers \in [Txs -> SUBSET Bodies]
  /\ Sent \subseteq Bodies \X BOOLEAN \X (Txs \cup {None})
  /\ Lookback \in Nat \ {0} /\ MaxTime \in Nat \ {0}
  /\ None \notin Bodies \cup Ids \cup Txs \cup {Rival}
  /\ {None, Rival} \cap ({"direct", "x402"} \X Bodies) = {}

VARIABLES
  now,        \* latest Base block
  fin,        \* finalized Base block
  mined,      \* the block holding each transaction, 0 outside the chain
  listing,    \* table listings
  attempt,    \* table listing_fee_attempts, a row per body
  x402,       \* the body's row in x402_payment_attempts, as custody shows it
  fee,        \* table fees: the listing each transaction paid for
  uses,       \* table payment_uses, the owner of each transaction
  call        \* the state of each running request

chain == <<now, fin, mined>>
feeStore == <<attempt, x402, fee, uses>>
feeVars == <<chain, listing, feeStore, call>>

---------------------------------------------------------------------------
(* The stored rows and the memory of a call.                               *)

Time == 0..MaxTime

Direct(b) == <<"direct", b>>
X402(b)   == <<"x402", b>>

Owners == {Direct(b) : b \in Bodies} \cup {X402(b) : b \in Bodies}
          \cup {None, Rival}

Attempt == [status : {"none", "payment_pending", "completed", "needs_review"},
            tx     : Txs \cup {None},
            from   : (-Lookback)..MaxTime,   \* minimum_block_time
            till   : Time,                   \* maximum_block_time
            id     : Ids \cup {None}]        \* listing_id

NoAttempt == [status |-> "none", tx |-> None, from |-> 0, till |-> 0,
              id |-> None]

Custody == [standing : {"open", "held", "pending", "paid", "refused"},
            start    : Time,                 \* operation_started_at, 0: no row
            tx       : Txs \cup {None}]

NoCustody == [standing |-> "open", start |-> 0, tx |-> None]

Answers == {"none", "refused", "choose", "challenge", "do_not_pay", "pending",
            "review", "listed", "failed"}

IdleCall == [pc |-> "idle", body |-> None, started |-> 0,
             header |-> FALSE,               \* X-PAYMENT present
             tx |-> None,                    \* fee_tx_hash
             saw |-> None,                   \* what the route read before
             kept |-> None,                  \* preservedFee, its transaction
             held |-> "none",                \* the fee it listed with
             from |-> 0, till |-> 0,         \* the window it judges by
             paid |-> 0,                     \* block time it read from Base
             next |-> "idle",                \* where the route goes on
             had |-> FALSE,                  \* history: a fee was stored
             answer |-> "none", told |-> None]

FeeInit ==
  /\ now = 1 /\ fin = 0
  /\ mined = [t \in Txs |-> 0]
  /\ attempt = [b \in Bodies |-> NoAttempt]
  /\ x402 = [b \in Bodies |-> NoCustody]
  /\ fee = [t \in Txs |-> None]
  /\ uses = [t \in Txs |-> None]
  /\ call = [c \in Calls |-> IdleCall]

---------------------------------------------------------------------------
(* How a call moves on.                                                    *)

Goto(c, label) == call' = [call EXCEPT ![c].pc = label]

\* The answer keeps the body it is about.
Reply(c, x) ==
  call' = [call EXCEPT ![c] = [IdleCall EXCEPT !.answer = x,
                                               !.body = call[c].body]]

Listed(c, id) ==
  call' = [call EXCEPT ![c] = [IdleCall EXCEPT !.answer = "listed",
                                               !.told = id,
                                               !.body = call[c].body]]

\* Some fee of the body is stored, whatever became of it.
Stored(b) == attempt[b].status # "none" \/ x402[b].start # 0

Begin(c, b, h, t, label) ==
  /\ call[c].pc = "idle" /\ <<b, h, t>> \in Sent
  /\ call' = [call EXCEPT ![c] =
       [IdleCall EXCEPT !.pc = label, !.body = b, !.started = now,
                        !.header = h, !.tx = t, !.had = Stored(b)]]

\* The hour before the request, unless the attempt has stored its own.
OwnFrom(c) == call[c].started - Lookback
OwnTill(c) == call[c].started

---------------------------------------------------------------------------
(* resolveListingFeePayment.                                               *)

\* The attempt row it begins with decides, or fixes the window.
ReadFee(c) ==
  LET a == attempt[call[c].body] IN
  /\ call[c].pc = "fee"
  /\ \/ a.status = "none"
        /\ call' = [call EXCEPT ![c].pc = "reserve", ![c].from = OwnFrom(c),
                                ![c].till = OwnTill(c)]
     \/ a.status = "completed" /\ a.tx = call[c].tx /\ Listed(c, a.id)
     \/ /\ \/ a.status = "completed" /\ a.tx # call[c].tx
           \/ a.status = "needs_review"
        /\ Reply(c, "review")
     \/ /\ a.status = "payment_pending" /\ a.tx # call[c].tx
        /\ Reply(c, "do_not_pay")
     \/ /\ a.status = "payment_pending" /\ a.tx = call[c].tx
        /\ call' = [call EXCEPT ![c].pc = "verify", ![c].from = a.from,
                                ![c].till = a.till]
  /\ UNCHANGED <<chain, listing, feeStore>>

Unused(t) == uses[t] = None

\* The unique request, the unique transaction and the primary key of
\* payment_uses; open is the draft a world listing locks.
Reservable(c, open) ==
  open /\ attempt[call[c].body] = NoAttempt /\ Unused(call[c].tx)

\* reserveAttempt with reserve_listing_fee_attempt_use: the row and the
\* transaction are taken together, before anything is asked of Base.
ReserveFee(c, open) ==
  LET b == call[c].body
      t == call[c].tx
  IN
  /\ call[c].pc = "reserve"
  /\ IF Reservable(c, open)
     THEN /\ attempt' = [attempt EXCEPT ![b] =
               [NoAttempt EXCEPT !.status = "payment_pending", !.tx = t,
                                 !.from = call[c].from, !.till = call[c].till]]
          /\ uses' = [uses EXCEPT ![t] = Direct(b)]
          /\ Goto(c, "verify")
     ELSE Goto(c, "reread") /\ UNCHANGED <<attempt, uses>>
  /\ UNCHANGED <<chain, listing, x402, fee>>

\* Another call was first, or another action owns the transaction; absent is
\* the answer to the latter.  The window stays the call's own.
RereadFee(c, absent) ==
  LET a == attempt[call[c].body] IN
  /\ call[c].pc = "reread"
  /\ \/ a.status = "none" /\ Reply(c, absent)
     \/ a.status # "none" /\ a.tx # call[c].tx /\ Reply(c, "do_not_pay")
     \/ /\ a.status # "none" /\ a.tx = call[c].tx
        /\ \/ a.status = "completed" /\ Listed(c, a.id)
           \/ a.status = "needs_review" /\ Reply(c, "review")
           \/ a.status = "payment_pending" /\ Goto(c, "verify")
  /\ UNCHANGED <<chain, listing, feeStore>>

Final(t) == mined[t] # 0 /\ mined[t] <= fin

\* verifyDirectPayment and what follows from it: only a finalized transfer is
\* judged, by the window of the call.
VerifyFee(c) ==
  LET t == call[c].tx
      at == mined[t]
      matches == call[c].body \in Covers[t] /\ call[c].from <= at
  IN
  /\ call[c].pc = "verify"
  /\ \/ ~Final(t) /\ Reply(c, "pending")
     \/ /\ Final(t) /\ matches /\ at <= call[c].till
        /\ call' = [call EXCEPT ![c].pc = call[c].next, ![c].held = "direct",
                                ![c].paid = at]
     \/ Final(t) /\ ~(matches /\ at <= call[c].till) /\ Goto(c, "review")
  /\ UNCHANGED <<chain, listing, feeStore>>

\* Mutant of ReviewFee: the update forgets "AND payment_status =
\* 'payment_pending'".
ReviewFeeAlways(c) ==
  /\ call[c].pc = "review"
  /\ attempt' = [attempt EXCEPT ![call[c].body].status = "needs_review"]
  /\ Reply(c, "review")
  /\ UNCHANGED <<chain, listing, x402, fee, uses>>

\* Mutant of ReviewFee: the answer does not wait for the update.
ReviewFeeSaid(c) ==
  /\ call[c].pc = "review"
  /\ Reply(c, "review")
  /\ UNCHANGED <<chain, listing, feeStore>>

\* reviewListingFeePayment: only a pending fee; any other row is terminal, so
\* its re-read is part of the step.
ReviewFee(c) ==
  LET a == attempt[call[c].body] IN
  /\ call[c].pc = "review"
  /\ IF a.status = "payment_pending"
     THEN /\ attempt' = [attempt EXCEPT ![call[c].body].status = "needs_review"]
          /\ Reply(c, "review")
     ELSE /\ UNCHANGED attempt
          /\ IF a.status = "completed" THEN Listed(c, a.id) ELSE Reply(c, "review")
  /\ UNCHANGED <<chain, listing, x402, fee, uses>>

---------------------------------------------------------------------------
(* x402: custody, as PaymentLedger promises it.                            *)

\* resumeX402PaymentForTerms finds no row, a verified one, or one to wait for.
NoX402(b)   == x402[b].start = 0
PaidX402(b) == x402[b].standing = "paid"

\* settleX402: the first call to bind a proof fixes operation_started_at and
\* waits for custody; one with the same proof joins it (the world route also
\* one with another proof), any other is turned away.
SettleX402(c) ==
  LET b == call[c].body IN
  /\ call[c].pc = "settle"
  /\ \/ /\ NoX402(b)
        /\ x402' = [x402 EXCEPT ![b].start = call[c].started]
        /\ Goto(c, "custody")
     \/ ~NoX402(b) /\ Goto(c, "custody") /\ UNCHANGED x402
     \/ /\ Reply(c, IF NoX402(b) THEN "challenge" ELSE "do_not_pay")
        /\ UNCHANGED x402
  /\ UNCHANGED <<chain, listing, attempt, fee, uses>>

SettleAnswers(c) ==
  /\ call[c].pc = "custody"
  /\ IF PaidX402(call[c].body)
     THEN call' = [call EXCEPT ![c].pc = call[c].next, ![c].held = "x402"]
     ELSE Reply(c, "do_not_pay")
  /\ UNCHANGED <<chain, listing, feeStore>>

CustodyClaims(b, t) ==
  /\ x402[b].start # 0 /\ x402[b].standing \in {"open", "held"} /\ Unused(t)
  /\ x402' = [x402 EXCEPT ![b].standing = "pending", ![b].tx = t]
  /\ uses' = [uses EXCEPT ![t] = X402(b)]
  /\ UNCHANGED <<chain, listing, attempt, fee, call>>

CustodyPays(b) ==
  LET x == x402[b] IN
  /\ x.standing = "pending" /\ Final(x.tx)
  /\ x.start <= mined[x.tx] /\ b \in Covers[x.tx]
  /\ x402' = [x402 EXCEPT ![b].standing = "paid"]
  /\ UNCHANGED <<chain, listing, attempt, fee, uses, call>>

CustodyHolds(b) ==
  /\ x402[b].start # 0 /\ x402[b].standing = "open"
  /\ x402' = [x402 EXCEPT ![b].standing = "held"]
  /\ UNCHANGED <<chain, listing, attempt, fee, uses, call>>

CustodyRefuses(b) ==
  /\ x402[b].start # 0 /\ x402[b].standing \in {"open", "pending"}
  /\ x402' = [x402 EXCEPT ![b].standing = "refused"]
  /\ UNCHANGED <<chain, listing, attempt, fee, uses, call>>

---------------------------------------------------------------------------
(* A fee buys a listing.                                                   *)

\* Mutant of Chargeable: the row is trusted as it was resolved.
ChargeableAnyhow(c) == TRUE

\* The attempt the inserting statement locks.
Chargeable(c) ==
  LET a == attempt[call[c].body] IN
  a.status = "payment_pending" /\ a.tx = call[c].tx

\* The check constraint listing_fee_attempt_state on a completed attempt.
InStoredWindow(c) ==
  LET a == attempt[call[c].body] IN a.from <= call[c].paid /\ call[c].paid <= a.till

\* completed_attempt and new_fee of the inserting statement.
ChargeDirect(c, id) ==
  /\ attempt' = [attempt EXCEPT ![call[c].body].status = "completed",
                                ![call[c].body].id = id]
  /\ fee' = [fee EXCEPT ![call[c].tx] = id]
  /\ UNCHANGED <<x402, uses>>

\* The unique transaction of fees.
Unbilled(t) == fee[t] = None

ChargeX402(c, id) ==
  /\ fee' = [fee EXCEPT ![x402[call[c].body].tx] = id]
  /\ UNCHANGED <<attempt, x402, uses>>

---------------------------------------------------------------------------
(* Calls die, the chain grows.                                             *)

\* The function is killed, or a database, Base or city call fails.
Abandon(c) ==
  /\ call[c].pc # "idle"
  /\ Reply(c, "failed")
  /\ UNCHANGED <<chain, listing, feeStore>>

RivalClaims(t) ==
  /\ Unused(t)
  /\ uses' = [uses EXCEPT ![t] = Rival]
  /\ UNCHANGED <<chain, listing, attempt, x402, fee, call>>

Mine(t) ==
  /\ mined[t] = 0 /\ fin < now
  /\ mined' = [mined EXCEPT ![t] = now]
  /\ UNCHANGED <<now, fin, listing, feeStore, call>>

Reorg(t) ==
  /\ mined[t] > fin
  /\ mined' = [mined EXCEPT ![t] = 0]
  /\ UNCHANGED <<now, fin, listing, feeStore, call>>

NewBlock ==
  /\ now < MaxTime
  /\ now' = now + 1
  /\ UNCHANGED <<fin, mined, listing, feeStore, call>>

FinalizeBlock ==
  /\ fin < now
  /\ fin' = fin + 1
  /\ UNCHANGED <<now, mined, listing, feeStore, call>>

CustodyStep(b) == (\E t \in Txs : CustodyClaims(b, t)) \/ CustodyPays(b)
                  \/ CustodyHolds(b) \/ CustodyRefuses(b)

Around == \/ \E c \in Calls : Abandon(c) \/ ReadFee(c) \/ VerifyFee(c)
                              \/ ReviewFee(c) \/ SettleX402(c) \/ SettleAnswers(c)
          \/ \E b \in Bodies : CustodyStep(b)
          \/ \E t \in Txs : RivalClaims(t) \/ Mine(t) \/ Reorg(t)
          \/ NewBlock \/ FinalizeBlock
=============================================================================
