--------------------------- MODULE MCX402Custody ---------------------------
(***************************************************************************)
(* X402Custody for TLC.  p1 and p2 are two proofs of one authorization     *)
(* (the same signature in another JSON text), p3 carries its own; t1 and   *)
(* t2 are the transactions that settle the two authorizations.             *)
(***************************************************************************)
EXTENDS X402Custody, TLC

CONSTANTS p1, p2, p3, a1, a2, t1, t2

MCAuthOf == [p \in Proofs |-> IF p = p3 THEN a2 ELSE a1]
MCPays == [t \in Txs |-> IF t = t1 THEN a1 ELSE a2]

Interchangeable == Permutations(Requests) \cup Permutations(Ops)
                   \cup Permutations({p \in Proofs : AuthOf[p] = a1})

(* Two instances in one: one operation with one proof, every transaction   *)
(* and all the blocks; or all the operations and proofs with t1 in one     *)
(* block.                                                                  *)
Involved(o) == attempt[o] # NoRow \/ \E r \in Requests : req[r].op = o

Presented(p) == \/ \E o \in Ops : attempt[o].proof = p
                \/ \E r \in Requests : req[r].proof = p

OneOperation == /\ \A o, x \in Ops : Involved(o) /\ Involved(x) => o = x
                /\ \A p, x \in Proofs : Presented(p) /\ Presented(x) => p = x

OneTransaction ==
  /\ now = 1
  /\ \A t \in Txs \ {t1} : mined[t] = 0 /\ uses[t] = None
                             /\ \A r \in Requests : req[r].tx # t

SmallInstance == OneOperation \/ OneTransaction
=============================================================================
