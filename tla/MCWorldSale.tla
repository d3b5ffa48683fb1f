---------------------------- MODULE MCWorldSale ----------------------------
(***************************************************************************)
(* WorldSale for TLC: t1 meets the terms of every listing, t2 of none.     *)
(***************************************************************************)
EXTENDS WorldSale, TLC

CONSTANTS l1, l2, b1, b2, t1, t2

MCCovers == [t \in Txs |-> IF t = t1 THEN Listings ELSE {}]

\* Reservations that last as agreed, and one that is too long.
MCSays == {w \in Terms : /\ w.from > 0 /\ w.from <= w.at /\ w.at < w.till
                         /\ \/ w.till = w.from + Window
                            \/ w.till = w.from + Window + 1 /\ w.from = 1 /\ w.at = 1}

Interchangeable == Permutations(Calls)

(* What a state has touched. *)
ListingsOf == {l \in Listings : \/ listing[l] # NewRow
                                \/ \E k \in Slots : checkout[k].listing = l
                                \/ \E c \in Calls : call[c].listing = l}

BuyersOf == {b \in Buyers : \/ \E k \in Slots : checkout[k].buyer = b
                            \/ \E c \in Calls : call[c].buyer = b}

TxsOf == {t \in Txs : \/ mined[t] # 0 \/ uses[t] # None
                      \/ \E c \in Calls : call[c].terms.tx = t}

NoDoor == /\ \A l \in Listings : Gone(l) = 0
          /\ \A c \in Calls : call[c].door = "none"

Alone == \E c \in Calls : \A other \in Calls \ {c} : call[other].pc = "idle"

NoRival == \A t \in Txs : uses[t] # Rival

(* Small instances in one: two calls race over one checkout of one buyer;   *)
(* a rival and a transfer of other terms meet one sale; one call at a time  *)
(* lives through three blocks and every way to close; two buyers race for   *)
(* one thing; one transfer is reported for two things.                      *)
SmallInstance ==
  LET L == ListingsOf
      B == BuyersOf
      T == TxsOf
      One == L \subseteq {l1} /\ B \subseteq {b1} /\ checkout[2] = NoCheckout
      Racing    == One /\ now < 3 /\ T \subseteq {t1} /\ NoRival
      Mistaken  == One /\ now < 3 /\ Alone /\ NoDoor
      Lasting   == One /\ Alone /\ T \subseteq {t1} /\ NoRival
      TwoBuyers == L \subseteq {l1} /\ now = 1 /\ T \subseteq {t1} /\ NoRival /\ NoDoor
      TwoThings == B \subseteq {b1} /\ now = 1 /\ T \subseteq {t1} /\ NoDoor
  IN  Racing \/ Mistaken \/ Lasting \/ TwoBuyers \/ TwoThings
=============================================================================
