--------------------------- MODULE MarketListings ---------------------------
(***************************************************************************)
(* The market's listings: artifacts and things of the city listed side by  *)
(* side (ArtifactListing, WorldListing) and paid out of one table of       *)
(* transactions (ListingFee), with the properties of the whole.            *)
(***************************************************************************)
EXTENDS WorldListing

vars == <<feeVars, worldVars>>

Init == FeeInit /\ ListingInit /\ WorldInit

Next == \/ ArtifactNext /\ UNCHANGED worldVars
        \/ WorldNext
        \/ Around /\ UNCHANGED worldVars

Spec == Init /\ [][Next]_vars

---------------------------------------------------------------------------
(* What listing promises.                                                  *)

TypeOK ==
  /\ now \in Time /\ fin \in Time
  /\ mined \in [Txs -> Time]
  /\ listing \in [Ids -> Row]
  /\ attempt \in [Bodies -> Attempt]
  /\ x402 \in [Bodies -> Custody]
  /\ fee \in [Txs -> Ids \cup {None}]
  /\ uses \in [Txs -> Owners]
  /\ \A c \in Calls : /\ call[c].body \in Bodies \cup {None}
                      /\ {call[c].tx, call[c].kept} \subseteq Txs \cup {None}
                      /\ call[c].answer \in Answers
                      /\ call[c].told \in Ids \cup {None}
  /\ draft \in [Drafts -> Draft]
  /\ offer \in [Drafts -> Phases]

\* What a listing was listed with: a finalized transfer of the right terms that
\* payment_uses gives to it alone, inside the window its attempt stored; or the
\* transaction custody verified for it.
PaidDirect(b, t) ==
  LET a == attempt[b] IN
  /\ a.status = "completed" /\ a.tx = t /\ uses[t] = Direct(b)
  /\ Final(t) /\ b \in Covers[t] /\ a.from <= mined[t] /\ mined[t] <= a.till

PaidX(b, t) == PaidX402(b) /\ x402[b].tx = t /\ uses[t] = X402(b) /\ Final(t)

\* Each listing has exactly the one fee it was listed with, a free listing none;
\* a world draft becomes one listing, paid inside the draft's hour; and a
\* completed attempt is the listing it names.  This is the whole of the path
\* from the first read of the attempt to the statement that inserts.
FeeBuysOneListing ==
  /\ \A id \in Ids \ Unlisted :
       LET l == listing[id]
           paid == {t \in Txs : fee[t] = id}
       IN
       /\ l.by = "seed" => paid = {} /\ l.body \in Keeper
       /\ l.by # "seed" => \E t \in Txs :
            /\ paid = {t}
            /\ IF l.by = "direct" THEN PaidDirect(l.body, t) ELSE PaidX(l.body, t)
            /\ l.body \in Worlds =>
                 LET d == draft[DraftOf[l.body]] IN
                 d.from <= mined[t] /\ mined[t] <= d.from + DraftLife
       /\ l.body \in Worlds =>
            \A other \in Ids \ (Unlisted \cup {id}) : listing[other].body # l.body
  /\ \A b \in Bodies : attempt[b].status = "completed" =>
       attempt[b].id \in Ids /\ listing[attempt[b].id].body = b

\* What a merchant was told stays true: the listing a call answered with is one
\* of its body, and a fee called under review is never pending again, nor does
\* it buy a listing behind the merchant's back.
AnswersHold ==
  \A c \in Calls :
    LET r == call[c]
        a == attempt[r.body]
    IN
    /\ r.answer = "listed" => r.told \in Ids /\ listing[r.told].body = r.body
    /\ r.answer = "review" => a.status \in {"needs_review", "completed"}

\* A merchant whose fee for this very listing is stored is neither asked for
\* another nor listed without it, whichever rail stored it.
NoSecondFee ==
  [][\A c \in Calls : call[c].had =>
       /\ call'[c].answer # "challenge"
       /\ ~(call[c].held = "seed" /\ call'[c].answer = "listed")]_call

\* A draft is never canceled under a direct fee that still waits for Base: the
\* merchant would have paid for a listing that can no longer be.
CanceledOwesNothing ==
  \A b \in Worlds : draft[DraftOf[b]].state = "canceled"
                      => attempt[b].status # "payment_pending"

\* What was bought is what was listed: no edit changes a sold listing.
SoldAsListed ==
  [][\A id \in Ids : listing[id].sold
       => listing'[id].copy = listing[id].copy]_listing

---------------------------------------------------------------------------
(* Direct fees are one more channel of the market's ledger; to them, an    *)
(* x402 fee is a rival.                                                    *)

Standing(a) ==
  CASE a.status = "none"            -> "open"
    [] a.status = "payment_pending" -> "pending"
    [] a.status = "completed"       -> "paid"
    [] a.status = "needs_review"    -> "refused"

Ledger == INSTANCE PaymentLedger WITH
  Actions  <- {Direct(b) : b \in Bodies},
  owner    <- [t \in Txs |-> IF uses[t] \in {X402(b) : b \in Bodies}
                             THEN Rival ELSE uses[t]],
  standing <- [a \in {Direct(b) : b \in Bodies} |-> Standing(attempt[a[2]])],
  final    <- {t \in Txs : Final(t)}

\* Ledger!Spec; a step that touches none of its three tables stutters.
LedgerSpec ==
  /\ Ledger!Init
  /\ [][UNCHANGED <<uses, attempt, {t \in Txs : Final(t)}>>
        \/ Ledger!Next]_(Ledger!vars)
=============================================================================
