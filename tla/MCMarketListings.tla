------------------------- MODULE MCMarketListings -------------------------
(***************************************************************************)
(* MarketListings for TLC: a1 is an artifact of a merchant, who may edit   *)
(* it, and k1 the maintainer's; v1 is a thing listed out of draft d1, whose *)
(* seller also has d2, and kv the maintainer's out of dk.  t1 meets every  *)
(* body's terms, t2 none.                                                  *)
(***************************************************************************)
EXTENDS MarketListings, TLC

CONSTANTS a1, k1, v1, kv, d1, d2, dk, t1, t2, p1, p2, seller, keeper

MCKeeper == {k1, kv}
MCFree == {a1}
MCCovers == [t \in Txs |-> IF t = t1 THEN Bodies ELSE {}]
MCCopyOf == [b \in Artifacts |-> IF b = a1 THEN p1 ELSE p2]
MCDraftOf == [b \in Worlds |-> IF b = v1 THEN d1 ELSE dk]
MCSellerOf == [d \in Drafts |-> IF d = dk THEN keeper ELSE seller]

\* The hash t2 and both methods at once come with one body of each route.
MCSent ==
  {q \in Bodies \X BOOLEAN \X (Txs \cup {None}) :
     /\ q[1] # a1 => q[3] # t2
     /\ q[1] \in {k1, kv} => ~q[2] \/ q[3] = None}

Interchangeable == Permutations(Calls)

(* What a state has touched. *)
BodiesOf == {b \in Bodies : \/ Stored(b)
                            \/ \E c \in Calls : call[c].body = b
                            \/ \E id \in Ids : listing[id].body = b}
TxsOf == {t \in Txs : \/ mined[t] # 0 \/ uses[t] # None
                      \/ \E c \in Calls : call[c].tx = t}

DraftsOf == {d \in Drafts : draft[d] # NoDraft \/ offer[d] # "none"}

NoX == /\ \A b \in Bodies : x402[b] = NoCustody
       /\ \A c \in Calls : ~call[c].header

NoDirect == /\ \A b \in Bodies : attempt[b] = NoAttempt
            /\ \A c \in Calls : call[c].tx = None

OneRail == NoX \/ NoDirect
Alone == \E c \in Calls : \A other \in Calls \ {c} : call[other] = IdleCall
NoRival == \A t \in Txs : uses[t] # Rival
Fresh == \A id \in Ids : listing[id].state \in {"none", "live"} /\ ~listing[id].sold

(* Small instances in one: two requests for one artifact race by direct     *)
(* fees through time, or by both rails at once, or one comes with mistaken  *)
(* hashes; a listing is edited while it is bought; a thing of the city is   *)
(* listed by one request through the draft's whole life, or by two; two     *)
(* drafts of one seller.                                                    *)
SmallInstance ==
  LET B == BodiesOf
      T == TxsOf
      D == DraftsOf
      Racing    == B \subseteq {a1} /\ NoX /\ Fresh /\ NoRival
      Mixing    == B \subseteq {k1} /\ now = 1 /\ Fresh /\ NoRival
      Mistaken  == B \subseteq {a1} /\ NoX /\ Fresh /\ Alone
      Editing   == now = 1 /\ NoX /\ Alone
      OneThing  == D \subseteq {d1} /\ B \subseteq {v1} /\ Alone /\ OneRail
      Keeping   == D \subseteq {dk} /\ B \subseteq {kv} /\ Alone /\ OneRail /\ now < 3
      TwoCalls  == D \subseteq {d1} /\ B \subseteq {v1} /\ NoX /\ now = 1
      TwoDrafts == /\ D \subseteq {d1, d2} /\ offer[d2] = "none" /\ Alone
                   /\ IF B = {} THEN now < 3 ELSE now = 1 /\ B = {v1} /\ NoDirect
  IN
  IF D = {}
  THEN IF T \subseteq {t1} THEN Racing \/ Mixing \/ Mistaken \/ Editing ELSE Mistaken
  ELSE /\ T \subseteq {t1} /\ NoRival /\ Fresh
       /\ OneThing \/ Keeping \/ TwoCalls \/ TwoDrafts
=============================================================================
