--------------------------- MODULE MCHostedSignIn ---------------------------
(***************************************************************************)
(* HostedSignIn for TLC.  Sessions of one kind, merchants, pairing codes   *)
(* and running requests are alike.                                         *)
(***************************************************************************)
EXTENDS HostedSignIn, TLC

Interchangeable ==
  Permutations(Merchants) \cup Permutations(Hosted) \cup Permutations(Direct)
  \cup Permutations(Pairings) \cup Permutations(Pages) \cup Permutations(Calls)

Used(ss)    == {s \in ss : row[s].state # "none"}
Named       == {m \in Merchants : key[m] > 0 \/ \E s \in Sessions : row[s].handle = m}
Unpaired    == \A x \in Pairings : pairing[x].state = "none"
NoPairing   == Unpaired /\ \A p \in Pages : page[p].pc # "mint"
NoFamily    == \A g \in Hosted : family[g] = "none"
Calling(ls) == \A c \in Calls : call[c].pc \in ls
Busy        == {p \in Pages : page[p] # Blank}

(* Three instances in one: three sessions register one handle; two hosted  *)
(* sessions and one pairing code while the key changes, or two codes of    *)
(* two merchants while it does not;                                        *)
(* the tokens of one merchant's hosted session.                            *)
Registering ==
  /\ Cardinality(Used(Sessions)) <= 3 /\ Cardinality(Named) <= 1
  /\ NoPairing /\ NoFamily /\ Calling({"idle"})

Pairs ==
  /\ late = {} /\ NoFamily /\ Calling({"idle", "change"})
  /\ \A s \in Hosted : row[s].state \in {"none", "initial", "linked"}
  /\ Used(Hosted) # {} \/ ~Unpaired =>
       /\ \A s \in Used(Direct) : row[s].state = "confirmed"
       /\ \A p \in Pages : page[p].pc \notin {"confirm", "lost", "look"}
  /\ Used(Hosted) = {} /\ Unpaired => Cardinality(Busy) <= 1
  /\ Cardinality({c \in Calls : call[c].pc # "idle"}) <= 1
  /\ \/ Cardinality({x \in Pairings : pairing[x].state # "none"}) <= 1
        /\ Cardinality(Named) <= 1
     \/ Calling({"idle"}) /\ \A m \in Merchants : key[m] <= 1
  /\ \A s \in Hosted : code[s].state # "lapsed"

Trading ==
  /\ Cardinality(Used(Hosted)) <= 1 /\ Used(Direct) = {} /\ NoPairing /\ late = {}
  /\ Busy # {} => NoFamily /\ Calling({"idle"})

SmallInstance == Registering \/ Pairs \/ Trading
=============================================================================
