--------------------------- MODULE ArtifactListing ---------------------------
(***************************************************************************)
(* Listing, editing and withdrawing an artifact:                           *)
(* src/artifact-listing-routes.ts on top of ListingFee.                    *)
(*                                                                         *)
(* POST /api/listing reads what was paid for the same body, looks for a    *)
(* near-identical listing, takes the fee by x402 or by direct transfer and *)
(* inserts the listing with its fee.  The maintainer lists free of charge  *)
(* unless a payment for the body is already stored.  Each await is a step. *)
(***************************************************************************)
EXTENDS ListingFee

CONSTANTS
  Artifacts,  \* the bodies that list an artifact
  Keeper,     \* the bodies of the maintainer
  Copies,     \* normalized titles and artifacts (dup_hash)
  CopyOf,     \* the copy each artifact body describes
  Free        \* the artifacts listed at price zero, which stay editable

ASSUME ArtifactAssumption ==
  /\ Artifacts \subseteq Bodies /\ Keeper \subseteq Bodies
  /\ CopyOf \in [Artifacts -> Copies]
  /\ Free \subseteq Artifacts
  /\ None \notin Copies

---------------------------------------------------------------------------
(* Table listings, for artifacts and for world things.                     *)

Row == [body  : Bodies \cup {None},
        by    : {"none", "direct", "x402", "seed"},
        copy  : Copies \cup {None},
        state : {"none", "live", "withdrawn", "removed"},
        sold  : BOOLEAN]

NoRow == [body |-> None, by |-> "none", copy |-> None, state |-> "none",
          sold |-> FALSE]

ListingInit == listing = [id \in Ids |-> NoRow]

Unlisted == {id \in Ids : listing[id] = NoRow}

\* The serial: ids are given in order.
NextId == CHOOSE id \in Unlisted : \A other \in Unlisted : id <= other

NewRow(b, by, copy) ==
  [body |-> b, by |-> by, copy |-> copy, state |-> "live", sold |-> FALSE]

\* The duplicate window is longer than any behaviour of the model.
Twins(copy, but) == {id \in Ids \ {but} : /\ listing[id].copy = copy
                                          /\ listing[id].state \in {"live", "withdrawn"}}

---------------------------------------------------------------------------
(* POST /api/listing.                                                      *)

Offer(c, b, h, t) ==
  /\ b \in Artifacts
  /\ Begin(c, b, h, t, IF b \in Keeper THEN "keeper" ELSE "preserved")
  /\ UNCHANGED <<chain, listing, feeStore>>

\* Mutant of Kept: the neighbouring column is read.
KeptStatus(b) == attempt[b].status

Kept(b) == attempt[b].tx

\* The maintainer's two reads, which run side by side, and the free listing
\* they allow.
KeeperReads(c) ==
  LET b == call[c].body
      asks == call[c].header \/ call[c].tx # None
  IN
  /\ \/ /\ call[c].pc = "keeper"
        /\ \/ call' = [call EXCEPT ![c].pc = "keeper2", ![c].kept = Kept(b)]
           \/ call' = [call EXCEPT ![c].pc = "keeper3",
                         ![c].held = IF NoX402(b) THEN "none" ELSE "x402"]
     \/ /\ call[c].pc = "keeper2"
        /\ IF ~asks /\ call[c].kept = None /\ NoX402(b)
           THEN call' = [call EXCEPT ![c].pc = "twins", ![c].held = "seed"]
           ELSE Goto(c, "saved")
     \/ /\ call[c].pc = "keeper3"
        /\ IF ~asks /\ Kept(b) = None /\ call[c].held = "none"
           THEN call' = [call EXCEPT ![c].pc = "twins", ![c].held = "seed"]
           ELSE call' = [call EXCEPT ![c].pc = "saved", ![c].held = "none",
                                     ![c].kept = Kept(b)]
  /\ UNCHANGED <<chain, listing, feeStore>>

ReadPreserved(c) ==
  /\ call[c].pc = "preserved"
  /\ call' = [call EXCEPT ![c].pc = "saved", ![c].kept = Kept(call[c].body)]
  /\ UNCHANGED <<chain, listing, feeStore>>

Both(c) == call[c].header /\ call[c].tx # None

\* A direct fee stored for the body and a fee of the request exclude each
\* other, and so do two fees of the request.
MethodRefused(c) ==
  \/ call[c].kept = None /\ Both(c) /\ Reply(c, "choose")
  \/ call[c].kept # None /\ call[c].header /\ Reply(c, "do_not_pay")

OneMethod(c) == ~Both(c) /\ ~(call[c].kept # None /\ call[c].header)

\* The hash to resolve: that of the request, if it has one.
TxOf(c) == IF call[c].tx # None THEN call[c].tx ELSE call[c].kept

\* Mutant of ReadSaved: a stored x402 payment is not resumed.
ReadSavedBlind(c) ==
  /\ call[c].pc = "saved"
  /\ MethodRefused(c) \/ (OneMethod(c) /\ Goto(c, "twins"))
  /\ UNCHANGED <<chain, listing, feeStore>>

\* The x402 payment stored for the body decides before anything is paid, then
\* a stored direct fee.  A proof sent again must be the one it was bound to.
ReadSaved(c) ==
  LET b == call[c].body IN
  /\ call[c].pc = "saved"
  /\ \/ MethodRefused(c)
     \/ /\ OneMethod(c) /\ ~NoX402(b)
        /\ \/ /\ PaidX402(b) /\ call[c].tx = None
              /\ call' = [call EXCEPT ![c].pc = "lookup", ![c].held = "x402"]
           \/ /\ ~PaidX402(b) \/ call[c].tx # None \/ call[c].header
              /\ Reply(c, "do_not_pay")
     \/ OneMethod(c) /\ NoX402(b) /\ call[c].kept = None /\ Goto(c, "twins")
     \/ /\ OneMethod(c) /\ NoX402(b) /\ call[c].kept # None
        /\ call' = [call EXCEPT ![c].pc = "fee", ![c].tx = TxOf(c),
                                ![c].next = "twins"]
  /\ UNCHANGED <<chain, listing, feeStore>>

\* x402-listing:completed.
LookupPaid(c) ==
  LET b == call[c].body
      id == fee[x402[b].tx]
      done == id # None /\ listing[id].copy = CopyOf[b]
  IN
  /\ call[c].pc = "lookup"
  /\ IF done THEN Listed(c, id) ELSE Goto(c, "twins")
  /\ UNCHANGED <<chain, listing, feeStore>>

\* The duplicate read: a direct fee already verified goes to review.
ReadTwins(c) ==
  LET twins == Twins(CopyOf[call[c].body], None) IN
  /\ call[c].pc = "twins"
  /\ \/ /\ twins = {}
        /\ IF call[c].held = "none" THEN Goto(c, "pay") ELSE Goto(c, "insert")
     \/ twins # {} /\ call[c].held = "direct" /\ Goto(c, "review")
     \/ twins # {} /\ call[c].held = "x402" /\ Reply(c, "do_not_pay")
     \/ twins # {} /\ call[c].held \in {"none", "seed"} /\ Reply(c, "refused")
  /\ UNCHANGED <<chain, listing, feeStore>>

ChooseMethod(c) ==
  /\ call[c].pc = "pay"
  /\ \/ call[c].header
        /\ call' = [call EXCEPT ![c].pc = "settle", ![c].next = "insert"]
     \/ /\ ~call[c].header /\ call[c].tx # None
        /\ call' = [call EXCEPT ![c].pc = "fee", ![c].next = "insert"]
     \/ ~call[c].header /\ call[c].tx = None /\ Reply(c, "challenge")
  /\ UNCHANGED <<chain, listing, feeStore>>

Insert(c, by) ==
  LET b == call[c].body IN
  /\ Unlisted # {}
  /\ listing' = [listing EXCEPT ![NextId] = NewRow(b, by, CopyOf[b])]
  /\ Listed(c, NextId)

\* The listing, the completed attempt and the fee in one statement.
InsertDirect(c) ==
  /\ call[c].pc = "insert" /\ call[c].held = "direct" /\ Chargeable(c)
  /\ IF InStoredWindow(c)
     THEN Insert(c, "direct") /\ ChargeDirect(c, NextId)
     ELSE Reply(c, "failed") /\ UNCHANGED <<listing, feeStore>>
  /\ UNCHANGED chain

\* The attempt is not pending any more: no row, so the fee is reviewed.
AttemptGone(c) ==
  /\ call[c].pc = "insert" /\ call[c].held = "direct" /\ ~Chargeable(c)
  /\ Goto(c, "review")
  /\ UNCHANGED <<chain, listing, feeStore>>

InsertX402(c) ==
  /\ call[c].pc = "insert" /\ call[c].held = "x402"
  /\ IF Unbilled(x402[call[c].body].tx)
     THEN Insert(c, "x402") /\ ChargeX402(c, NextId)
     ELSE Reply(c, "do_not_pay") /\ UNCHANGED <<listing, feeStore>>
  /\ UNCHANGED chain

InsertSeed(c) ==
  /\ call[c].pc = "insert" /\ call[c].held = "seed"
  /\ Insert(c, "seed")
  /\ UNCHANGED <<chain, feeStore>>

---------------------------------------------------------------------------
(* PATCH /api/listing/:id and the withdrawal.                              *)

Editable(id) == listing[id].state = "live" /\ ~listing[id].sold

\* The row is read once, and what the request does not name is written back
\* from it: k is the copy to save.
Edit(c, id, k) ==
  /\ call[c].pc = "idle"
  /\ Editable(id) /\ listing[id].body \in Free
  /\ call' = [call EXCEPT ![c] =
       [IdleCall EXCEPT !.pc = IF k = listing[id].copy THEN "save" ELSE "editTwins",
                        !.body = listing[id].body, !.told = id, !.saw = k]]
  /\ UNCHANGED <<chain, listing, feeStore>>

EditTwins(c) ==
  /\ call[c].pc = "editTwins"
  /\ IF Twins(call[c].saw, call[c].told) = {} THEN Goto(c, "save")
                                              ELSE Reply(c, "refused")
  /\ UNCHANGED <<chain, listing, feeStore>>

\* Mutant of StillEditable: the update trusts the row it read.
EditableAsRead(id) == TRUE

\* "NOT removed AND NOT withdrawn AND sales = 0 AND NOT EXISTS purchases".
StillEditable(id) == Editable(id)

SaveEdit(c) ==
  LET id == call[c].told IN
  /\ call[c].pc = "save"
  /\ IF StillEditable(id)
     THEN listing' = [listing EXCEPT ![id].copy = call[c].saw] /\ Listed(c, id)
     ELSE Reply(c, "refused") /\ UNCHANGED listing
  /\ UNCHANGED <<chain, feeStore>>

Withdraw(id) ==
  /\ listing[id].state = "live" /\ listing[id].body \in Artifacts
  /\ listing' = [listing EXCEPT ![id].state = "withdrawn"]
  /\ UNCHANGED <<chain, feeStore, call>>

\* The maintainer removes, a buyer buys.
Remove(id) ==
  /\ listing[id].state \in {"live", "withdrawn"}
  /\ listing[id].body \in Artifacts
  /\ listing' = [listing EXCEPT ![id].state = "removed"]
  /\ UNCHANGED <<chain, feeStore, call>>

Sell(id) ==
  /\ listing[id].state = "live" /\ listing[id].body \in Artifacts
  /\ listing' = [listing EXCEPT ![id].sold = TRUE]
  /\ UNCHANGED <<chain, feeStore, call>>

---------------------------------------------------------------------------

Of(c, kind) == call[c].body \in kind

ArtifactStep(c) ==
  \/ KeeperReads(c) \/ ReadPreserved(c) \/ ReadSaved(c)
  \/ LookupPaid(c) \/ ReadTwins(c) \/ ChooseMethod(c)
  \/ InsertDirect(c) \/ AttemptGone(c) \/ InsertX402(c) \/ InsertSeed(c)
  \/ ReserveFee(c, TRUE) \/ RereadFee(c, "do_not_pay")
  \/ EditTwins(c) \/ SaveEdit(c)

ArtifactNext ==
  \/ \E c \in Calls, b \in Artifacts, h \in BOOLEAN, t \in Txs \cup {None} :
       Offer(c, b, h, t)
  \/ \E c \in Calls : Of(c, Artifacts) /\ ArtifactStep(c)
  \/ \E c \in Calls, id \in Ids, k \in Copies : Edit(c, id, k)
  \/ \E id \in Ids : Withdraw(id) \/ Remove(id) \/ Sell(id)
=============================================================================
