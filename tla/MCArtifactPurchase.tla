------------------------ MODULE MCArtifactPurchase ------------------------
(***************************************************************************)
(* ArtifactPurchase for TLC: one listing; the buyer of o1 signs for both   *)
(* wallets and that of o2 for w2 only; t1 pays the seller from w1, and t2  *)
(* from w2 where there is a w2.                                            *)
(***************************************************************************)
EXTENDS ArtifactPurchase, TLC

CONSTANTS l1, o1, o2, w1, w2, t1, t2

MCListingOf == [o \in Orders |-> l1]
MCControls == [o \in Orders |-> IF o = o1 THEN Wallets ELSE Wallets \ {w1}]
MCFrom == [t \in Txs |-> IF t = t1 \/ w2 \notin Wallets THEN w1 ELSE w2]
MCCovers == [t \in Txs |-> {l1}]

Interchangeable == Permutations(Requests)

(* What a state has touched. *)
OrdersOf == {o \in Orders : \/ intent[o] # NoIntent \/ x402[o] # NoCustody
                            \/ \E r \in Requests : req[r].order = o}

TxsOf == {t \in Txs : \/ mined[t] # 0 \/ uses[t] # None
                      \/ \E r \in Requests : req[r].tx = t}

WalletsOf == {w \in Wallets : \/ \E o \in Orders : intent[o].payer = w
                              \/ \E r \in Requests : req[r].payer = w}

BuyLabels == {"shop", "prior", "saved", "settle", "custody", "deliver"}

Claiming == \/ \E o \in Orders : intent[o] # NoIntent
            \/ \E r \in Requests : req[r].pc \notin BuyLabels \cup {"idle"}

Buying == \/ \E o \in Orders : x402[o] # NoCustody
          \/ \E r \in Requests : req[r].pc \in BuyLabels

Shelved == \A l \in Listings, d \in Doors : shelf[l][d] = 0 /\ leaving[l][d] = 0

(* Four instances in one: one order bought by x402 while its listing       *)
(* leaves, by one request or, without removal, two; one order paid by both *)
(* channels, directly out of w2; two orders that claim; and one order that *)
(* claims while its intent lapses and its listing is withdrawn.            *)
Unremoved == \A l \in Listings : shelf[l]["removed"] = 0 /\ leaving[l]["removed"] = 0

Alone == \E r \in Requests : \A q \in Requests \ {r} : req[q] = IdleReq

Leaving == /\ OrdersOf \subseteq {o1} /\ TxsOf \subseteq {t1} /\ ~Claiming
           /\ Alone \/ Unremoved

Twice == now = 1 /\ Shelved /\ OrdersOf \subseteq {o1} /\ WalletsOf \subseteq {w2}

Competing == now = 1 /\ Shelved /\ ~Buying

Lapsing == /\ OrdersOf \subseteq {o1} /\ WalletsOf \subseteq {w2} /\ TxsOf \subseteq {t2}
           /\ ~Buying /\ Unremoved

SmallInstance == Leaving \/ Twice \/ Competing \/ Lapsing
=============================================================================
