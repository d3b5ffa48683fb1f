--------------------------- MODULE PaymentLedger ---------------------------
(***************************************************************************)
(* What every payment channel of the market promises: one Base transaction *)
(* pays for at most one action, for ever.  The channels (x402 custody,     *)
(* signed direct purchases, direct listing fees, world receipts) share the *)
(* table payment_uses, in which the first claim of a transaction hash      *)
(* wins; a channel counts an action as paid only by a transaction it owns  *)
(* there and Base has finalized, and keeps what it cannot deliver for      *)
(* review instead of releasing the transaction.                            *)
(***************************************************************************)
CONSTANTS
  Actions,    \* paid actions of the channel seen here
  Txs,        \* Base transactions
  None,       \* no owner yet
  Rival       \* an action of another channel

\* What a channel's names must satisfy: the channels' own assumptions give it.
LedgerAssumption ==
  /\ None \notin Actions /\ Rival \notin Actions /\ None # Rival
  /\ None \notin Txs

VARIABLES
  owner,      \* table payment_uses: who each transaction pays for
  standing,   \* how far each action is
  final       \* the transactions Base has finalized

vars == <<owner, standing, final>>

Standings == {"open",      \* no transaction stored
              "held",      \* outcome unknown, waiting for a transaction
              "pending",   \* owns a transaction, not decided
              "paid",      \* owns a finalized transaction
              "refused"}   \* stored for review, never delivered

Owns(a, t) == owner[t] = a

Init ==
  /\ owner = [t \in Txs |-> None]
  /\ standing = [a \in Actions |-> "open"]
  /\ final = {}

\* The first transaction stored for an action is claimed with it.
Claim(a, t) ==
  /\ standing[a] \in {"open", "held"} /\ owner[t] = None
  /\ owner' = [owner EXCEPT ![t] = a]
  /\ standing' = [standing EXCEPT ![a] = "pending"]
  /\ UNCHANGED final

RivalClaim(t) ==
  /\ owner[t] = None
  /\ owner' = [owner EXCEPT ![t] = Rival]
  /\ UNCHANGED <<standing, final>>

Pay(a) ==
  /\ standing[a] = "pending"
  /\ \E t \in final : Owns(a, t)
  /\ standing' = [standing EXCEPT ![a] = "paid"]
  /\ UNCHANGED <<owner, final>>

Hold(a) ==
  /\ standing[a] = "open"
  /\ standing' = [standing EXCEPT ![a] = "held"]
  /\ UNCHANGED <<owner, final>>

\* Nothing decided is ever undone: a review keeps its transaction.
Refuse(a) ==
  /\ standing[a] \in {"open", "pending"}
  /\ standing' = [standing EXCEPT ![a] = "refused"]
  /\ UNCHANGED <<owner, final>>

Finalize ==
  /\ final' \in SUBSET Txs /\ final \subseteq final'
  /\ UNCHANGED <<owner, standing>>

Next ==
  \/ \E a \in Actions :
       (\E t \in Txs : Claim(a, t)) \/ Pay(a) \/ Hold(a) \/ Refuse(a)
  \/ \E t \in Txs : RivalClaim(t)
  \/ Finalize

Spec == Init /\ [][Next]_vars

TypeOK ==
  /\ owner \in [Txs -> Actions \cup {None, Rival}]
  /\ standing \in [Actions -> Standings]
  /\ final \subseteq Txs

\* An action that is pending or paid owns exactly one transaction, an open or
\* held one owns none, and a paid one's is final.
OneTransaction ==
  \A a \in Actions :
    /\ standing[a] \in {"pending", "paid"}
         => \E t \in Txs : Owns(a, t) /\ (\A s \in Txs : Owns(a, s) => s = t)
    /\ standing[a] \in {"open", "held"} => \A t \in Txs : ~Owns(a, t)
    /\ standing[a] = "paid" => \E t \in final : Owns(a, t)
=============================================================================
