-------------------------- MODULE ArtifactPurchase --------------------------
(***************************************************************************)
(* Selling an artifact: src/artifact-purchase-routes.ts with               *)
(* src/direct-payment-claim.ts, src/direct-payment-attempts.ts and the     *)
(* triggers on direct_purchase_intents, purchases and payment_uses.        *)
(*                                                                         *)
(* A buyer pays the seller directly, by one of two channels.  Direct: the  *)
(* buyer opens an intent for a payer wallet, pays inside its window and    *)
(* claims the transaction with the payer's signature over the intent.      *)
(* x402: the request carries a signed payment that the custody of          *)
(* X402Custody settles; here custody is what PaymentLedger promises of it. *)
(* Meanwhile the seller may withdraw the listing and the maintainer may    *)
(* remove it.  Each await of a handler is a step, requests interleave and  *)
(* may die between two steps.                                              *)
(***************************************************************************)
EXTENDS Integers

CONSTANTS
  Orders,     \* a buyer and a listing (merchant_id, listing_id)
  Listings,   \* priced artifact listings
  ListingOf,  \* the listing of each order
  Wallets,    \* payer wallets
  Controls,   \* the wallets the buyer of each order can sign for
  Txs,        \* Base transactions
  From,       \* the wallet each transaction takes USDC from
  Covers,     \* the listings whose seller and price each transaction meets
  Requests,   \* concurrently running requests
  TTL,        \* DIRECT_PURCHASE_INTENT_TTL_MS, in blocks
  MaxTime,    \* bound: last block of the chain, which is also the clock
  Kinds,      \* bound: which requests arrive, of "intent", "claim" and "buy"
  Exits,      \* bound: how the listing leaves, of "removed" and "withdrawn"
  None,       \* absent order, wallet, transaction or owner
  Rival       \* any payment channel but the two modelled here

ASSUME PurchaseAssumption ==
  /\ ListingOf \in [Orders -> Listings]
  /\ Controls \in [Orders -> SUBSET Wallets]
  /\ From \in [Txs -> Wallets]
  /\ Covers \in [Txs -> SUBSET Listings]
  /\ TTL \in Nat \ {0} /\ MaxTime \in Nat \ {0}
  /\ Exits \subseteq {"removed", "withdrawn"}
  /\ None \notin Orders \cup Wallets \cup Txs \cup {Rival}
  /\ {None, Rival} \cap ({"direct", "x402"} \X Orders) = {}

VARIABLES
  now,        \* latest Base block
  fin,        \* finalized Base block
  mined,      \* the block holding each transaction, 0 outside the chain
  shelf,      \* removed_at and withdrawn_at of each listing, 0 if NULL
  leaving,    \* the instant of a removal or withdrawal not committed yet
  intent,     \* table direct_purchase_intents, a row per order
  x402,       \* the order's row in x402_payment_attempts, as custody shows it
  purchase,   \* table purchases, a row per order
  uses,       \* table payment_uses, the owner of each transaction
  req         \* the state of each running request

vars == <<now, fin, mined, shelf, leaving, intent, x402, purchase, uses, req>>

store == <<shelf, leaving, intent, x402, purchase, uses>>
chain == <<now, fin, mined>>

---------------------------------------------------------------------------
(* The stored rows and the memory of a request.                            *)

Time == 0..MaxTime

Direct(o) == <<"direct", o>>
X402(o)   == <<"x402", o>>

Owners == {Direct(o) : o \in Orders} \cup {X402(o) : o \in Orders}
          \cup {None, Rival}

Doors == {"removed", "withdrawn"}

Intent == [status  : {"none", "unsubmitted", "payment_pending", "completed",
                      "needs_review"},
           payer   : Wallets \cup {None},
           created : Time,
           expires : 0..(MaxTime + TTL),
           tx      : Txs \cup {None},
           paid    : Time]                 \* finalized_block_time, 0 if NULL

NoIntent == [status |-> "none", payer |-> None, created |-> 0, expires |-> 0,
             tx |-> None, paid |-> 0]

Custody == [standing : {"open", "pending", "paid", "refused"},
            start    : Time,               \* operation_started_at, 0: no row
            tx       : Txs \cup {None}]

NoCustody == [standing |-> "open", start |-> 0, tx |-> None]

Purchase == [via : {"none", "claim", "x402"}, tx : Txs \cup {None}, at : Time]

NoPurchase == [via |-> "none", tx |-> None, at |-> 0]

Labels == {"idle", "look", "upsert", "existing",
           "listing", "row", "sign", "transfer", "reserve", "reread",
           "record", "review",
           "shop", "prior", "saved", "settle", "custody", "deliver"}

Answers == {"none", "intent", "challenge", "refused", "do_not_pay",
            "pending", "review", "undelivered", "delivered"}

Req == [pc      : Labels,
        order   : Orders \cup {None},
        started : Time,                    \* requestStartedAt
        payer   : Wallets \cup {None},
        tx      : Txs \cup {None},
        header  : BOOLEAN,                 \* X-PAYMENT present
        gone    : Time,                    \* the listing row it read
        row     : Intent,                  \* the intent row it read
        bought  : BOOLEAN,                 \* the prior purchase it read
        facts   : {"none", "pending", "verified"},
        paid    : Time,                    \* block time it read from Base
        had     : BOOLEAN,                 \* history: a payment was stored
        answer  : Answers]

IdleReq == [pc |-> "idle", order |-> None, started |-> 0, payer |-> None,
            tx |-> None, header |-> FALSE, gone |-> 0, row |-> NoIntent,
            bought |-> FALSE, facts |-> "none", paid |-> 0, had |-> FALSE,
            answer |-> "none"]

Init ==
  /\ now = 1 /\ fin = 0
  /\ mined = [t \in Txs |-> 0]
  /\ shelf = [l \in Listings |-> [d \in Doors |-> 0]]
  /\ leaving = [l \in Listings |-> [d \in Doors |-> 0]]
  /\ intent = [o \in Orders |-> NoIntent]
  /\ x402 = [o \in Orders |-> NoCustody]
  /\ purchase = [o \in Orders |-> NoPurchase]
  /\ uses = [t \in Txs |-> None]
  /\ req = [r \in Requests |-> IdleReq]

---------------------------------------------------------------------------
(* How a request moves on.                                                 *)

Goto(r, label) == req' = [req EXCEPT ![r].pc = label]

Reply(r, x) ==
  req' = [req EXCEPT ![r] = [IdleReq EXCEPT !.answer = x]]

\* coalesce(least(removed_at, withdrawn_at), removed_at, withdrawn_at), 0 for a
\* live listing.
Gone(l) ==
  LET out == {shelf[l][d] : d \in Doors} \ {0}
  IN  IF out = {} THEN 0 ELSE CHOOSE x \in out : \A y \in out : x <= y

Live(l) == Gone(l) = 0

\* Mutant of StillSold: the recording statement trusts the request's own read.
SoldAnyway(l, at) == TRUE

\* Sold while live, or paid no later than the listing left.
StillSold(l, at) == Live(l) \/ at <= Gone(l)

Bought(o) == purchase[o].via # "none"

\* Some payment of the order is stored, whatever became of it.
Stored(o) == intent[o].tx # None

Begin(r, o, fields) ==
  /\ req[r].pc = "idle"
  /\ req' = [req EXCEPT ![r] =
       [fields EXCEPT !.order = o, !.started = now, !.had = Stored(o)]]
  /\ UNCHANGED <<chain, store>>

---------------------------------------------------------------------------
(* POST /api/purchase-intent: open the intent or return the open one.      *)

AskIntent(r, o, w) == Begin(r, o, [IdleReq EXCEPT !.pc = "look", !.payer = w])

\* The listing and the prior purchase are two reads; the upsert repeats both.
LookFirst(r) ==
  LET o == req[r].order IN
  /\ req[r].pc = "look"
  /\ IF Live(ListingOf[o]) /\ ~Bought(o) THEN Goto(r, "upsert")
                                         ELSE Reply(r, "refused")
  /\ UNCHANGED <<chain, store>>

\* Mutant of NewIntent: the ten minutes are added twice.
NewLongIntent(r) ==
  [NoIntent EXCEPT !.status = "unsubmitted", !.payer = req[r].payer,
                   !.created = req[r].started,
                   !.expires = req[r].started + TTL + TTL]

NewIntent(r) ==
  [NoIntent EXCEPT !.status = "unsubmitted", !.payer = req[r].payer,
                   !.created = req[r].started,
                   !.expires = req[r].started + TTL]

\* Mutant of Replaceable: a reviewed payment makes room for another.
ReplaceReviewed(a, at) ==
  \/ a.status \in {"none", "needs_review"}
  \/ a.status = "unsubmitted" /\ a.expires <= at

\* ON CONFLICT (merchant_id, listing_id) DO UPDATE: only an unused intent that
\* has expired by the request's start is replaced.
Replaceable(a, at) == \/ a.status = "none"
                      \/ a.status = "unsubmitted" /\ a.expires <= at

UpsertIntent(r) ==
  LET o == req[r].order IN
  /\ req[r].pc = "upsert"
  /\ IF /\ Live(ListingOf[o]) /\ ~Bought(o)
        /\ Replaceable(intent[o], req[r].started)
     THEN /\ intent' = [intent EXCEPT ![o] = NewIntent(r)]
          /\ Reply(r, "intent")
     ELSE Goto(r, "existing") /\ UNCHANGED intent
  /\ UNCHANGED <<chain, shelf, leaving, x402, purchase, uses>>

ReadExisting(r) ==
  LET o == req[r].order
      a == intent[o]
      visible == Live(ListingOf[o]) /\ ~Bought(o)
  IN
  /\ req[r].pc = "existing"
  /\ \/ /\ visible /\ a.status \in {"payment_pending", "needs_review"}
        /\ Reply(r, "do_not_pay")
     \/ /\ visible /\ a.status = "unsubmitted" /\ a.expires > req[r].started
        /\ Reply(r, IF a.payer = req[r].payer THEN "intent" ELSE "refused")
     \/ /\ \/ ~visible
           \/ a.status \in {"none", "completed"}
           \/ a.status = "unsubmitted" /\ a.expires <= req[r].started
        /\ Reply(r, "refused")
  /\ UNCHANGED <<chain, store>>

---------------------------------------------------------------------------
(* POST /api/claim: prove a direct payment.                                *)

Claim(r, o, t) == Begin(r, o, [IdleReq EXCEPT !.pc = "listing", !.tx = t])

ReadListing(r) ==
  /\ req[r].pc = "listing"
  /\ req' = [req EXCEPT ![r].pc = "row",
                        ![r].gone = Gone(ListingOf[req[r].order])]
  /\ UNCHANGED <<chain, store>>

\* Mutant of Retrying: a stored payment is taken for a first claim.
NeverRetrying(r) == FALSE

Retrying(r) == req[r].row.status = "payment_pending"

\* The inclusive interval of directPaymentWindowError.
InWindow(a, at) == a.created <= at /\ at <= a.expires

\* The intent row and everything resolveDirectPaymentClaim decides from it
\* before its first await; a first claim must start inside the window.
ReadIntent(r) ==
  LET a == intent[req[r].order]
      s == req[r].started
  IN
  /\ req[r].pc = "row"
  /\ \/ a.status = "none" /\ Reply(r, "refused")
     \/ a.status = "completed" /\ Reply(r, "delivered")
     \/ a.status = "needs_review" /\ Reply(r, "review")
     \/ /\ a.status = "payment_pending" /\ a.tx # req[r].tx
        /\ Reply(r, "do_not_pay")
     \/ /\ \/ a.status = "unsubmitted" /\ InWindow(a, s)
           \/ a.status = "payment_pending" /\ a.tx = req[r].tx /\ a.created <= s
        /\ req' = [req EXCEPT ![r].pc = "sign", ![r].row = a]
     \/ /\ \/ a.status = "unsubmitted" /\ ~InWindow(a, s)
           \/ a.status = "payment_pending" /\ a.tx = req[r].tx /\ a.created > s
        /\ Reply(r, "refused")
  /\ UNCHANGED <<chain, store>>

\* The payer's signature over the challenge of the row it read.
SignatureVerifies(r) ==
  /\ req[r].pc = "sign"
  /\ req[r].row.payer \in Controls[req[r].order]
  /\ Goto(r, "transfer")
  /\ UNCHANGED <<chain, store>>

SignatureRefused(r) ==
  /\ req[r].pc = "sign"
  /\ Reply(r, IF Retrying(r) THEN "do_not_pay" ELSE "refused")
  /\ UNCHANGED <<chain, store>>

\* What an attempt row means to a claim whose transfer is known; a is the row
\* the claim holds now, req.row the one it first read.
Resolve(r, a, facts, paid) ==
  LET known == [req EXCEPT ![r].facts = facts, ![r].paid = paid]
      after == req[r].gone # 0 /\ paid > req[r].gone
  IN
  \/ a.tx # req[r].tx /\ Reply(r, "do_not_pay")
  \/ /\ a.tx = req[r].tx
     /\ \/ a.status = "needs_review" /\ Reply(r, "review")
        \/ a.status = "completed" /\ Reply(r, "delivered")
        \/ /\ a.status = "payment_pending" /\ facts = "pending"
           /\ Reply(r, "pending")
        \/ /\ a.status = "payment_pending" /\ facts = "verified"
           /\ req' = [known EXCEPT ![r].pc =
                IF InWindow(req[r].row, paid) /\ ~after THEN "record"
                                                        ELSE "review"]

\* verifyDirectPayment: a transfer is judged by its block once Base has
\* finalized it, and only seen before.
ReadTransfer(r) ==
  LET t == req[r].tx
      o == req[r].order
      a == req[r].row
      matches == From[t] = a.payer /\ ListingOf[o] \in Covers[t]
      final == mined[t] # 0 /\ mined[t] <= fin
      valid == matches /\ mined[t] >= a.created
      Known(facts, paid) ==
        IF Retrying(r) THEN Resolve(r, a, facts, paid)
        ELSE req' = [req EXCEPT ![r].pc = "reserve", ![r].facts = facts,
                                ![r].paid = paid]
  IN
  /\ req[r].pc = "transfer"
  /\ \/ final /\ valid /\ (Retrying(r) \/ mined[t] <= a.expires)
        /\ Known("verified", mined[t])
     \/ final /\ valid /\ ~Retrying(r) /\ mined[t] > a.expires
        /\ Reply(r, "refused")
     \/ /\ final /\ ~valid
        /\ IF Retrying(r)
           THEN req' = [req EXCEPT ![r].pc = "review", ![r].paid = mined[t]]
           ELSE Reply(r, "refused")
     \/ mined[t] > fin /\ matches /\ Known("pending", 0)
     \/ /\ mined[t] = 0 \/ (mined[t] > fin /\ ~matches)
        /\ Reply(r, IF Retrying(r) THEN "do_not_pay" ELSE "refused")
  /\ UNCHANGED <<chain, store>>

Pending(a, t) == [a EXCEPT !.status = "payment_pending", !.tx = t]

\* Mutant of Unused: the reservation takes over another payment's hash.
UsedOrNot(t) == TRUE

\* The primary key of payment_uses.
Unused(t) == uses[t] = None

\* reserveDirectPaymentAttempt with reserve_direct_payment_intent_use: the row
\* and the transaction are taken together or not at all.
Reserve(r) ==
  LET o == req[r].order
      t == req[r].tx
      a == intent[o]
      open == a.status = "unsubmitted" /\ InWindow(a, req[r].started)
  IN
  /\ req[r].pc = "reserve"
  /\ \/ /\ open /\ Unused(t)
        /\ intent' = [intent EXCEPT ![o] = Pending(a, t)]
        /\ uses' = [uses EXCEPT ![t] = Direct(o)]
        /\ Resolve(r, Pending(a, t), req[r].facts, req[r].paid)
     \/ /\ open /\ ~Unused(t)
        /\ Reply(r, "do_not_pay")
        /\ UNCHANGED <<intent, uses>>
     \/ ~open /\ Goto(r, "reread") /\ UNCHANGED <<intent, uses>>
  /\ UNCHANGED <<chain, shelf, leaving, x402, purchase>>

RereadAttempt(r) ==
  /\ req[r].pc = "reread"
  /\ Resolve(r, intent[req[r].order], req[r].facts, req[r].paid)
  /\ UNCHANGED <<chain, store>>

\* The rows recordDirectPurchase locks: every check is repeated on them.
Lockable(r) ==
  LET o == req[r].order
      a == intent[o]
  IN
  /\ a.status = "payment_pending" /\ a.tx = req[r].tx
  /\ a.payer = req[r].row.payer
  /\ InWindow(a, req[r].paid)
  /\ StillSold(ListingOf[o], req[r].paid)

\* recordDirectPurchase: purchase and completed intent in one statement.
RecordDirect(r) ==
  LET o == req[r].order
      p == req[r].paid
  IN
  /\ req[r].pc = "record"
  /\ IF Lockable(r) /\ ~Bought(o)
     THEN /\ purchase' = [purchase EXCEPT ![o] =
                            [via |-> "claim", tx |-> req[r].tx, at |-> p]]
          /\ intent' = [intent EXCEPT ![o].status = "completed",
                                      ![o].paid = p]
          /\ Reply(r, "delivered")
     ELSE Goto(r, "review") /\ UNCHANGED <<purchase, intent>>
  /\ UNCHANGED <<chain, shelf, leaving, x402, uses>>

\* Mutant of ReviewDirect: the update forgets "AND payment_status =
\* 'payment_pending'".
ReviewAlways(r) ==
  /\ req[r].pc = "review"
  /\ intent' = [intent EXCEPT ![req[r].order].status = "needs_review",
                              ![req[r].order].paid = req[r].paid]
  /\ Reply(r, "review")
  /\ UNCHANGED <<chain, shelf, leaving, x402, purchase, uses>>

\* markDirectPaymentNeedsReview: only a pending payment; any other row is
\* terminal, so its re-read is part of the step.
ReviewDirect(r) ==
  LET o == req[r].order
      a == intent[o]
  IN
  /\ req[r].pc = "review"
  /\ IF a.status = "payment_pending"
     THEN /\ intent' = [intent EXCEPT ![o].status = "needs_review",
                                      ![o].paid = req[r].paid]
          /\ Reply(r, "review")
     ELSE /\ UNCHANGED intent
          /\ Reply(r, IF a.status = "completed" THEN "delivered"
                      ELSE IF a.status = "needs_review" THEN "review"
                      ELSE "do_not_pay")
  /\ UNCHANGED <<chain, shelf, leaving, x402, purchase, uses>>

---------------------------------------------------------------------------
(* POST /api/buy: pay by x402.                                             *)

Buy(r, o, h) == Begin(r, o, [IdleReq EXCEPT !.pc = "shop", !.header = h])

ReadShop(r) ==
  /\ req[r].pc = "shop"
  /\ req' = [req EXCEPT ![r].pc = "prior",
                        ![r].gone = Gone(ListingOf[req[r].order])]
  /\ UNCHANGED <<chain, store>>

ReadPrior(r) ==
  /\ req[r].pc = "prior"
  /\ req' = [req EXCEPT ![r].pc = "saved", ![r].bought = Bought(req[r].order)]
  /\ UNCHANGED <<chain, store>>

\* The saved payment decides before the listing and the header do.
ReadSaved(r) ==
  LET x == x402[req[r].order] IN
  /\ req[r].pc = "saved"
  /\ \/ x.start = 0 /\ req[r].gone # 0 /\ Reply(r, "refused")
     \/ x.start # 0 /\ (x.standing # "paid" \/ req[r].header)
        /\ Reply(r, "do_not_pay")
     \/ (x.standing = "paid" \/ (x.start = 0 /\ req[r].gone = 0))
        /\ \/ req[r].bought /\ Reply(r, "delivered")
           \/ ~req[r].bought /\ x.standing = "paid" /\ Goto(r, "deliver")
           \/ ~req[r].bought /\ x.start = 0
              /\ IF req[r].header THEN Goto(r, "settle")
                                  ELSE Reply(r, "challenge")
  /\ UNCHANGED <<chain, store>>

\* settleX402: the first request to bind a proof fixes operation_started_at,
\* and waits for custody to settle; any other is turned away.
SettleX402(r) ==
  LET o == req[r].order IN
  /\ req[r].pc = "settle"
  /\ \/ /\ x402[o].start = 0
        /\ x402' = [x402 EXCEPT ![o].start = req[r].started]
        /\ Goto(r, "custody")
     \/ Reply(r, IF x402[o].start = 0 THEN "refused" ELSE "do_not_pay")
        /\ UNCHANGED x402
  /\ UNCHANGED <<chain, shelf, leaving, intent, purchase, uses>>

\* Mutant of SettleAnswers: a settlement is enough, final or not.
SettledIsEnough(r) ==
  /\ req[r].pc = "custody"
  /\ IF x402[req[r].order].standing \in {"pending", "paid"}
     THEN Goto(r, "deliver") ELSE Reply(r, "do_not_pay")
  /\ UNCHANGED <<chain, store>>

SettleAnswers(r) ==
  /\ req[r].pc = "custody"
  /\ IF x402[req[r].order].standing = "paid" THEN Goto(r, "deliver")
                                             ELSE Reply(r, "do_not_pay")
  /\ UNCHANGED <<chain, store>>

\* recordPurchase at the fixed start of the payment, which never changes once
\* stored and is read just before.
RecordX402(r) ==
  LET o == req[r].order
      x == x402[o]
  IN
  /\ req[r].pc = "deliver"
  /\ IF StillSold(ListingOf[o], x.start)
     THEN /\ purchase' = IF Bought(o) THEN purchase ELSE
               [purchase EXCEPT ![o] =
                  [via |-> "x402", tx |-> x.tx, at |-> x.start]]
          /\ Reply(r, "delivered")
     ELSE Reply(r, "undelivered") /\ UNCHANGED purchase
  /\ UNCHANGED <<chain, shelf, leaving, intent, x402, uses>>

---------------------------------------------------------------------------
(* Custody, as PaymentLedger promises it.                                  *)

CustodyClaims(o, t) ==
  /\ x402[o].start # 0 /\ x402[o].standing = "open" /\ Unused(t)
  /\ x402' = [x402 EXCEPT ![o].standing = "pending", ![o].tx = t]
  /\ uses' = [uses EXCEPT ![t] = X402(o)]
  /\ UNCHANGED <<chain, shelf, leaving, intent, purchase, req>>

CustodyPays(o) ==
  LET x == x402[o] IN
  /\ x.standing = "pending"
  /\ x.start <= mined[x.tx] /\ mined[x.tx] <= fin
  /\ ListingOf[o] \in Covers[x.tx]
  /\ x402' = [x402 EXCEPT ![o].standing = "paid"]
  /\ UNCHANGED <<chain, shelf, leaving, intent, purchase, uses, req>>

CustodyRefuses(o) ==
  /\ x402[o].start # 0 /\ x402[o].standing \in {"open", "pending"}
  /\ x402' = [x402 EXCEPT ![o].standing = "refused"]
  /\ UNCHANGED <<chain, shelf, leaving, intent, purchase, uses, req>>

---------------------------------------------------------------------------
(* The listing leaves, requests die, the chain grows.                      *)

\* Withdrawal and removal stamp the start of their statement ...
Leave(l, d) ==
  /\ leaving[l][d] = 0 /\ shelf[l][d] = 0
  /\ d = "withdrawn" => Live(l)
  /\ leaving' = [leaving EXCEPT ![l][d] = now]
  /\ UNCHANGED <<chain, shelf, intent, x402, purchase, uses, req>>

\* ... and are seen when it commits: a removal wins over a withdrawal, not the
\* other way round.
Left(l, d) ==
  /\ leaving[l][d] # 0
  /\ leaving' = [leaving EXCEPT ![l][d] = 0]
  /\ shelf' = IF shelf[l]["removed"] = 0 /\ (d = "removed" \/ Live(l))
              THEN [shelf EXCEPT ![l][d] = leaving[l][d]] ELSE shelf
  /\ UNCHANGED <<chain, intent, x402, purchase, uses, req>>

\* The function is killed, or a database or Base call fails.
Abandon(r) ==
  /\ req[r].pc # "idle"
  /\ req' = [req EXCEPT ![r] = IdleReq]
  /\ UNCHANGED <<chain, store>>

RivalClaims(t) ==
  /\ uses[t] = None
  /\ uses' = [uses EXCEPT ![t] = Rival]
  /\ UNCHANGED <<chain, shelf, leaving, intent, x402, purchase, req>>

Mine(t) ==
  /\ mined[t] = 0 /\ fin < now
  /\ mined' = [mined EXCEPT ![t] = now]
  /\ UNCHANGED <<now, fin, store, req>>

Reorg(t) ==
  /\ mined[t] > fin
  /\ mined' = [mined EXCEPT ![t] = 0]
  /\ UNCHANGED <<now, fin, store, req>>

NewBlock ==
  /\ now < MaxTime
  /\ now' = now + 1
  /\ UNCHANGED <<fin, mined, store, req>>

FinalizeBlock ==
  /\ fin < now
  /\ fin' = fin + 1
  /\ UNCHANGED <<now, mined, store, req>>

---------------------------------------------------------------------------

Arrive(r) ==
  \E o \in Orders :
    \/ "intent" \in Kinds /\ \E w \in Wallets : AskIntent(r, o, w)
    \/ "claim" \in Kinds /\ \E t \in Txs : Claim(r, o, t)
    \/ "buy" \in Kinds /\ \E h \in BOOLEAN : Buy(r, o, h)

IntentStep(r) == LookFirst(r) \/ UpsertIntent(r) \/ ReadExisting(r)

ClaimStep(r) == ReadListing(r) \/ ReadIntent(r) \/ SignatureVerifies(r)
                \/ SignatureRefused(r) \/ ReadTransfer(r) \/ Reserve(r)
                \/ RereadAttempt(r) \/ RecordDirect(r) \/ ReviewDirect(r)

BuyStep(r) == ReadShop(r) \/ ReadPrior(r) \/ ReadSaved(r) \/ SettleX402(r)
              \/ SettleAnswers(r) \/ RecordX402(r)

CustodyStep(o) == (\E t \in Txs : CustodyClaims(o, t)) \/ CustodyPays(o)
                  \/ CustodyRefuses(o)

Chain == (\E t \in Txs : Mine(t) \/ Reorg(t)) \/ NewBlock \/ FinalizeBlock

Next ==
  \/ \E r \in Requests :
       Arrive(r) \/ IntentStep(r) \/ ClaimStep(r) \/ BuyStep(r) \/ Abandon(r)
  \/ \E o \in Orders : CustodyStep(o)
  \/ \E l \in Listings, d \in Exits : Leave(l, d) \/ Left(l, d)
  \/ \E t \in Txs : RivalClaims(t)
  \/ Chain

Spec == Init /\ [][Next]_vars

(***************************************************************************)
(* A stored direct payment is decided by the buyer's own retries, with the *)
(* same transaction and signature, as every answer tells him.  The other   *)
(* assumptions are those of X402Custody.                                   *)
(***************************************************************************)
Retry(o) == \E r \in Requests : intent[o].tx # None /\ Claim(r, o, intent[o].tx)

FairSpec ==
  /\ Spec
  /\ WF_vars(FinalizeBlock)
  /\ \A r \in Requests :
       WF_vars(IntentStep(r) \/ ClaimStep(r) \/ BuyStep(r) \/ Abandon(r))
  /\ \A o \in Orders :
       LET OneFor(Step(_)) == \E r \in Requests : req[r].order = o /\ Step(r) IN
       /\ SF_vars(Retry(o))
       /\ SF_vars(OneFor(ReadListing)) /\ SF_vars(OneFor(ReadIntent))
       /\ SF_vars(OneFor(SignatureVerifies)) /\ SF_vars(OneFor(ReadTransfer))
       /\ SF_vars(OneFor(RecordDirect)) /\ SF_vars(OneFor(ReviewDirect))

---------------------------------------------------------------------------
(* What a purchase promises.                                               *)

TypeOK ==
  /\ now \in Time /\ fin \in Time
  /\ mined \in [Txs -> Time]
  /\ shelf \in [Listings -> [Doors -> Time]]
  /\ leaving \in [Listings -> [Doors -> Time]]
  /\ intent \in [Orders -> Intent]
  /\ x402 \in [Orders -> Custody]
  /\ purchase \in [Orders -> Purchase]
  /\ uses \in [Txs -> Owners]
  /\ req \in [Requests -> Req]

\* Nobody takes the goods on another's money.  A purchase by claim rests on a
\* finalized transfer to the seller, out of the wallet its intent names and
\* its buyer signs for, inside the intent's window; a purchase by x402 on
\* custody's own verified transaction; and payment_uses names that purchase.
PaidFor ==
  \A o \in Orders : LET p == purchase[o]
                        a == intent[o] IN
    /\ p.via = "claim" =>
         /\ a.status = "completed" /\ a.tx = p.tx /\ uses[p.tx] = Direct(o)
         /\ mined[p.tx] # 0 /\ mined[p.tx] <= fin /\ p.at = mined[p.tx]
         /\ a.created <= p.at /\ p.at <= a.expires
         /\ From[p.tx] = a.payer /\ a.payer \in Controls[o]
         /\ ListingOf[o] \in Covers[p.tx]
    /\ p.via = "x402" =>
         /\ x402[o].standing = "paid" /\ x402[o].tx = p.tx
         /\ uses[p.tx] = X402(o)
    /\ a.status = "completed" <=> p.via = "claim"

\* A transaction taken by a claim stays with it: payment_uses and the intent
\* rows name each other, pending, reviewed or delivered.
Reserved ==
  \A o \in Orders, t \in Txs : uses[t] = Direct(o) <=> intent[o].tx = t

\* The listing's leaving is a border: once it is seen, only what was paid (or
\* accepted by x402) no later than the stamped instant still sells.
NothingSoldAfterLeaving ==
  [][\A o \in Orders :
       LET l == ListingOf[o] IN
       ~Bought(o) /\ Bought(o)' /\ ~Live(l) => purchase'[o].at <= Gone(l)]_vars

\* A buyer whose claim stored a payment is never handed an intent to pay by
\* again, whatever became of the payment.
NoSecondIntent ==
  [][\A r \in Requests : req[r].had => req'[r].answer # "intent"]_req

\* Every stored direct payment that Base keeps is delivered or reviewed in the
\* end, by retries of the same claim alone.
Undecided(o) ==
  /\ intent[o].status = "payment_pending"
  /\ \E t \in Txs : intent[o].tx = t /\ mined[t] # 0

EventuallyDecided == \A o \in Orders : Undecided(o) ~> ~Undecided(o)

\* docs/DECISIONS.md:28: a paid x402 attempt past the live check may settle and
\* deliver; a buyer must never pay and then lose delivery because the listing
\* changed during payment.
LiveCheckHonoured ==
  \A r \in Requests : req[r].pc = "deliver" /\ req[r].gone = 0
                        => StillSold(ListingOf[req[r].order],
                                     x402[req[r].order].start)

---------------------------------------------------------------------------
(* Direct claims are one more channel of the market's ledger; to them, an  *)
(* x402 payment is a rival.                                                *)

Standing(a) ==
  IF a.status \in {"none", "unsubmitted"} THEN "open"
  ELSE IF a.status = "payment_pending" THEN "pending"
  ELSE IF a.status = "completed" THEN "paid" ELSE "refused"

Claims == {Direct(o) : o \in Orders}

Ledger == INSTANCE PaymentLedger WITH
  Actions  <- Claims,
  owner    <- [t \in Txs |-> IF uses[t] \in {X402(o) : o \in Orders}
                             THEN Rival ELSE uses[t]],
  standing <- [a \in Claims |-> Standing(intent[a[2]])],
  final    <- {t \in Txs : mined[t] # 0 /\ mined[t] <= fin}

\* Ledger!Spec; a step that touches none of its three tables stutters.
LedgerSpec ==
  /\ Ledger!Init
  /\ [][UNCHANGED <<uses, intent, {t \in Txs : mined[t] # 0 /\ mined[t] <= fin}>>
        \/ Ledger!Next]_(Ledger!vars)
=============================================================================
