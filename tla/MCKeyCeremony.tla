--------------------------- MODULE MCKeyCeremony ---------------------------
(***************************************************************************)
(* KeyCeremony for TLC: the sessions of one kind are alike, and so are the *)
(* codes of a set and the requests.                                        *)
(***************************************************************************)
EXTENDS KeyCeremony, TLC

Interchangeable == Permutations(Requests) \cup Permutations(Rotations)
                   \cup Permutations(Recoveries) \cup Permutations(Slots)

(* Three instances in one: rotations only; recoveries only; one of each    *)
(* with one code in a set.                                                 *)
Involved == {s \in Ceremonies :
              \/ s \in Rotations /\ rot[s].status # "none"
              \/ s \in Recoveries /\ (Holding(s) # {} \/ result[s] # "none")
              \/ \E r \in Requests : req[r].on = s}

OneCode == \E x \in Slots : \A c \in Codes : code[c].session # None => c[2] = x

SmallInstance ==
  \/ Involved \subseteq Rotations /\ generation <= 2
  \/ Involved \subseteq Recoveries /\ generation <= 3
  \/ /\ Cardinality(Involved \cap Rotations) <= 1
     /\ Cardinality(Involved \cap Recoveries) <= 1
     /\ generation <= 2 /\ OneCode
=============================================================================
