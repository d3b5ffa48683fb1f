---------------------------- MODULE WorldListing ----------------------------
(***************************************************************************)
(* Listing a thing of the city 1F3D9: src/world-draft-routes.ts and POST   *)
(* /api/world/listing of src/world-routes.ts on top of ListingFee.         *)
(*                                                                         *)
(* A seller opens a draft that lasts an hour, locks the thing in the city  *)
(* against it, and activates the draft with the city's offer and the fee.  *)
(* The draft it read, the city's public record and the fee are three       *)
(* different awaits, and the seller may cancel the draft meanwhile.        *)
(***************************************************************************)
EXTENDS ArtifactListing

CONSTANTS
  Worlds,     \* the bodies that activate a draft with an offer
  Drafts,     \* rows of world_drafts
  DraftOf,    \* the draft of each world body
  SellerOf,   \* the merchant of each draft
  DraftLife   \* the hour a draft stays pending, in blocks

ASSUME WorldAssumption ==
  /\ Worlds \subseteq Bodies /\ Worlds \cap Artifacts = {}
  /\ DraftOf \in [Worlds -> Drafts]
  /\ DraftLife \in Nat \ {0}

VARIABLES
  draft,      \* table world_drafts
  offer       \* what the city publishes of the offer for each draft

worldVars == <<draft, offer>>

Forever == MaxTime + DraftLife + 1        \* ACTIVE_WORLD_DRAFT_EXPIRY

Draft == [state : {"none", "pending", "active", "withdrawn", "expired", "canceled"},
          from  : Time,                   \* created_at
          till  : 0..Forever]             \* expires_at

NoDraft == [state |-> "none", from |-> 0, till |-> 0]

\* not yet there, listed and unbound, or any later phase.
Phases == {"none", "listed", "gone"}

WorldInit ==
  /\ draft = [d \in Drafts |-> NoDraft]
  /\ offer = [d \in Drafts |-> "none"]

---------------------------------------------------------------------------
(* POST /api/world/draft, its cancel, and the city.                        *)

Sweep(s) ==
  [d \in Drafts |-> IF /\ SellerOf[d] = s /\ draft[d].state = "pending"
                       /\ draft[d].till <= now
                    THEN [draft[d] EXCEPT !.state = "expired"] ELSE draft[d]]

\* The sweep of expired drafts and the unique pending one of the insert.
OpenDraft(d) ==
  LET swept == Sweep(SellerOf[d])
      busy == \E e \in Drafts : SellerOf[e] = SellerOf[d]
                                /\ swept[e].state = "pending"
  IN
  /\ draft[d].state = "none"
  /\ draft' = IF busy THEN swept ELSE
       [swept EXCEPT ![d] = [state |-> "pending", from |-> now,
                             till |-> now + DraftLife]]
  /\ UNCHANGED <<feeVars, offer>>

\* Mutant of Owing: only the x402 rail is asked.
OwingX402(d) ==
  \E b \in Worlds : /\ SellerOf[DraftOf[b]] = SellerOf[d]
                    /\ x402[b].start # 0
                    /\ x402[b].standing \in {"open", "pending", "paid"}
                    /\ x402[b].tx # None => fee[x402[b].tx] = None

\* listing_fee_pending: a direct fee of the draft, or an x402 fee of its
\* seller, still to be listed with.
Owing(d) ==
  \/ \E b \in Worlds : DraftOf[b] = d /\ attempt[b].status = "payment_pending"
  \/ OwingX402(d)

\* The transaction locks the draft and then looks.
CancelDraft(d) ==
  /\ draft[d].state = "pending" /\ now < draft[d].till /\ ~Owing(d)
  /\ draft' = [draft EXCEPT ![d].state = "canceled"]
  /\ UNCHANGED <<feeVars, offer>>

\* The seller locks the thing in the city; later the offer is reserved,
\* canceled or gone, for ever.
CityLists(d) ==
  /\ draft[d].state # "none" /\ offer[d] = "none"
  /\ offer' = [offer EXCEPT ![d] = "listed"]
  /\ UNCHANGED <<feeVars, draft>>

CityChanges(d) ==
  /\ offer[d] = "listed"
  /\ offer' = [offer EXCEPT ![d] = "gone"]
  /\ UNCHANGED <<feeVars, draft>>

---------------------------------------------------------------------------
(* POST /api/world/listing.                                                *)

Activate(c, b, h, t) ==
  /\ b \in Worlds
  /\ Begin(c, b, h, t, "draft")
  /\ UNCHANGED <<chain, listing, feeStore, worldVars>>

ReadDraft(c) ==
  LET d == draft[DraftOf[call[c].body]] IN
  /\ call[c].pc = "draft"
  /\ IF d.state = "none" THEN Reply(c, "refused")
     ELSE call' = [call EXCEPT ![c].saw = d,
            ![c].pc = IF call[c].body \in Keeper THEN "wkeeper" ELSE "wsaved"]
  /\ UNCHANGED <<chain, listing, feeStore, worldVars>>

WorldKeeperX402(c) ==
  /\ call[c].pc = "wkeeper"
  /\ call' = [call EXCEPT ![c].pc = "wkeeper2",
                ![c].held = IF NoX402(call[c].body) THEN "none" ELSE "x402"]
  /\ UNCHANGED <<chain, listing, feeStore, worldVars>>

Payable(d) == d.state \in {"pending", "expired"}
Open(d)    == d.state = "pending" /\ now < d.till

WorldSeedOrPay(c) ==
  LET kept == Kept(call[c].body)
      seed == /\ call[c].held = "none" /\ kept = None
              /\ ~call[c].header /\ call[c].tx = None
  IN
  /\ call[c].pc = "wkeeper2"
  /\ IF seed
     THEN IF Open(call[c].saw)
          THEN call' = [call EXCEPT ![c].pc = "city", ![c].held = "seed"]
          ELSE Reply(c, "refused")
     ELSE call' = [call EXCEPT ![c].pc = "wsaved", ![c].kept = kept,
                               ![c].held = "none"]
  /\ UNCHANGED <<chain, listing, feeStore, worldVars>>

\* The end of the hour a draft was given, active or not.
HourOf(d) == IF d.till = Forever THEN d.from + DraftLife ELSE d.till

\* x402AttemptFitsDraft: accepted and transferred inside the draft's hour.
FitsDraft(b, d) ==
  \A at \in {x402[b].start, mined[x402[b].tx]} : d.from <= at /\ at <= HourOf(d)

\* The stored x402 fee decides before the direct one is read.
WorldReadSaved(c) ==
  LET b == call[c].body
      d == call[c].saw
  IN
  /\ call[c].pc = "wsaved"
  /\ \/ NoX402(b) /\ Goto(c, "wkept")
     \/ /\ ~NoX402(b)
        /\ IF PaidX402(b) /\ FitsDraft(b, d) /\ call[c].tx = None /\ Payable(d)
           THEN call' = [call EXCEPT ![c].pc = "city", ![c].held = "x402",
                                     ![c].kept = None]
           ELSE Reply(c, "do_not_pay")
  /\ UNCHANGED <<chain, listing, feeStore, worldVars>>

\* The stored direct fee, which the maintainer read before, the choice of one
\* method, and the draft as it was read.
WorldReadKept(c) ==
  LET d == call[c].saw
      known == IF call[c].body \in Keeper THEN call[c].kept
                                          ELSE Kept(call[c].body)
      clear == IF known = None THEN ~Both(c) ELSE ~call[c].header
  IN
  /\ call[c].pc = "wkept"
  /\ \/ known = None /\ Both(c) /\ Reply(c, "choose")
     \/ known # None /\ call[c].header /\ Reply(c, "do_not_pay")
     \/ clear /\ known = None /\ ~Open(d) /\ Reply(c, "refused")
     \/ clear /\ known # None /\ ~Payable(d) /\ Goto(c, "review")
     \/ /\ clear /\ IF known = None THEN Open(d) ELSE Payable(d)
        /\ call' = [call EXCEPT ![c].pc = "city", ![c].kept = known]
  /\ UNCHANGED <<chain, listing, feeStore, worldVars>>

\* cityOfferMatchesDraft on the record the city publishes now.
FetchOffer(c) ==
  LET listed == offer[DraftOf[call[c].body]] = "listed" IN
  /\ call[c].pc = "city"
  /\ \/ /\ listed /\ call[c].kept # None
        /\ call' = [call EXCEPT ![c].pc = "fee", ![c].tx = TxOf(c),
                                ![c].next = "winsert"]
     \/ /\ listed /\ call[c].kept = None
        /\ Goto(c, IF call[c].held = "none" THEN "wpay" ELSE "winsert")
     \/ ~listed /\ call[c].kept # None /\ Goto(c, "review")
     \/ /\ ~listed /\ call[c].kept = None
        /\ Reply(c, IF call[c].held = "x402" THEN "do_not_pay" ELSE "refused")
  /\ UNCHANGED <<chain, listing, feeStore, worldVars>>

WorldChooseMethod(c) ==
  /\ call[c].pc = "wpay"
  /\ \/ call[c].header
        /\ call' = [call EXCEPT ![c].pc = "settle", ![c].next = "wconfirm"]
     \/ /\ ~call[c].header /\ call[c].tx # None
        /\ call' = [call EXCEPT ![c].pc = "fee", ![c].next = "winsert"]
     \/ ~call[c].header /\ call[c].tx = None /\ Reply(c, "challenge")
  /\ UNCHANGED <<chain, listing, feeStore, worldVars>>

\* confirmRecordedX402 after a settlement.
WorldConfirm(c) ==
  /\ call[c].pc = "wconfirm"
  /\ IF FitsDraft(call[c].body, call[c].saw) THEN Goto(c, "winsert")
                                             ELSE Reply(c, "do_not_pay")
  /\ UNCHANGED <<chain, listing, feeStore, worldVars>>

\* Listing and active draft in one statement, by locked_world_draft.
ActivateDraft(c, by) ==
  LET b == call[c].body IN
  /\ Unlisted # {}
  /\ listing' = [listing EXCEPT ![NextId] = NewRow(b, by, None)]
  /\ draft' = [draft EXCEPT ![DraftOf[b]].state = "active",
                            ![DraftOf[b]].till = Forever]
  /\ Listed(c, NextId)
  /\ UNCHANGED offer

Inside(d, at) == d.from <= at /\ at <= d.till

\* locked_world_draft: still payable, and the fee inside its hour.
DraftTakes(d, at) == Payable(d) /\ \A t \in at : Inside(d, t)

WorldInsertDirect(c) ==
  LET b == call[c].body
      d == draft[DraftOf[b]]
      takes == Chargeable(c) /\ DraftTakes(d, {attempt[b].till, call[c].paid})
  IN
  /\ call[c].pc = "winsert" /\ call[c].held = "direct"
  /\ \/ takes /\ InStoredWindow(c)
        /\ ActivateDraft(c, "direct") /\ ChargeDirect(c, NextId)
     \/ takes /\ ~InStoredWindow(c) /\ Reply(c, "failed")
        /\ UNCHANGED <<listing, feeStore, worldVars>>
     \/ ~takes /\ Goto(c, "review") /\ UNCHANGED <<listing, feeStore, worldVars>>
  /\ UNCHANGED chain

WorldInsertX402(c) ==
  LET b == call[c].body
      t == x402[b].tx
      d == draft[DraftOf[b]]
  IN
  /\ call[c].pc = "winsert" /\ call[c].held = "x402"
  /\ IF DraftTakes(d, {x402[b].start, mined[t]}) /\ Unbilled(t)
     THEN ActivateDraft(c, "x402") /\ ChargeX402(c, NextId)
     ELSE Reply(c, "do_not_pay") /\ UNCHANGED <<listing, feeStore, worldVars>>
  /\ UNCHANGED chain

WorldInsertSeed(c) ==
  /\ call[c].pc = "winsert" /\ call[c].held = "seed"
  /\ IF Open(draft[DraftOf[call[c].body]]) THEN ActivateDraft(c, "seed")
     ELSE Reply(c, "refused") /\ UNCHANGED <<listing, worldVars>>
  /\ UNCHANGED <<chain, feeStore>>

\* Withdrawing the listing withdraws the draft.
WithdrawWorld(id) ==
  /\ listing[id].state = "live" /\ listing[id].body \in Worlds
  /\ listing' = [listing EXCEPT ![id].state = "withdrawn"]
  /\ draft' = [draft EXCEPT ![DraftOf[listing[id].body]].state = "withdrawn"]
  /\ UNCHANGED <<chain, feeStore, call, offer>>

---------------------------------------------------------------------------

WorldReserve(c) ==
  /\ ReserveFee(c, Payable(draft[DraftOf[call[c].body]]))
  /\ UNCHANGED worldVars

WorldStep(c) ==
  \/ ReadDraft(c) \/ WorldKeeperX402(c) \/ WorldSeedOrPay(c)
  \/ WorldReadSaved(c) \/ WorldReadKept(c) \/ FetchOffer(c)
  \/ WorldChooseMethod(c) \/ WorldConfirm(c)
  \/ WorldInsertDirect(c) \/ WorldInsertX402(c) \/ WorldInsertSeed(c)
  \/ WorldReserve(c)
  \/ RereadFee(c, "refused") /\ UNCHANGED worldVars

WorldNext ==
  \/ \E c \in Calls, b \in Worlds, h \in BOOLEAN, t \in Txs \cup {None} :
       Activate(c, b, h, t)
  \/ \E c \in Calls : Of(c, Worlds) /\ WorldStep(c)
  \/ \E d \in Drafts : OpenDraft(d) \/ CancelDraft(d)
                      \/ CityLists(d) \/ CityChanges(d)
  \/ \E id \in Ids : WithdrawWorld(id)
=============================================================================
