----------------------- MODULE MarketListings_proofs -----------------------
(***************************************************************************)
(* Proofs about MarketListings, for every set of bodies, listings, drafts, *)
(* transactions and calls: a fee buys one listing and a listing has the    *)
(* fee it was listed with, a final answer stays true, nobody whose fee is  *)
(* stored is asked for another, no draft is canceled under a waiting fee,  *)
(* and direct fees implement PaymentLedger.                                *)
(***************************************************************************)
EXTENDS MarketListings, WellFoundedInduction, TLAPS

---------------------------------------------------------------------------
(* The tables.                                                             *)

ChainOK ==
  /\ now \in Time /\ fin \in Time
  /\ mined \in [Txs -> Time]

TablesOK ==
  /\ listing \in [Ids -> Row]
  /\ attempt \in [Bodies -> Attempt]
  /\ x402 \in [Bodies -> Custody]
  /\ fee \in [Txs -> Ids \cup {None}]
  /\ uses \in [Txs -> Owners]
  /\ draft \in [Drafts -> Draft]
  /\ offer \in [Drafts -> Phases]

\* A stored payment owns its transaction; a draft has its hour; a listed thing
\* has an active draft, or one it was withdrawn with; a fee is a listing's.
Rows ==
  /\ \A b \in Bodies :
       /\ IF attempt[b].status = "none" THEN attempt[b].tx = None
          ELSE attempt[b].tx \in Txs /\ uses[attempt[b].tx] = Direct(b)
       /\ x402[b].standing \in {"pending", "paid"} =>
            x402[b].tx \in Txs /\ uses[x402[b].tx] = X402(b)
       /\ x402[b].standing = "paid" => Final(x402[b].tx)
       /\ x402[b].standing # "open" => x402[b].start # 0
  /\ \A d \in Drafts : draft[d].state \in {"pending", "expired"}
                         => draft[d].till = draft[d].from + DraftLife
  /\ \A id \in Ids : listing[id].body \in Worlds
                       => draft[DraftOf[listing[id].body]].state \in {"active", "withdrawn"}
  /\ \A id \in Ids \ Unlisted : listing[id].body \in Bodies
  /\ \A t \in Txs : fee[t] # None => fee[t] \notin Unlisted

---------------------------------------------------------------------------
(* What the memory of a call says at each label, and what it knows of the  *)
(* tables.                                                                 *)

FeeLabels == {"fee", "reserve", "reread", "verify"}

Labels == FeeLabels \cup
          {"idle", "keeper", "keeper2", "keeper3", "preserved", "saved", "lookup",
           "twins", "pay", "insert", "settle", "custody", "review", "editTwins",
           "save", "draft", "wkeeper", "wkeeper2", "wsaved", "wkept", "city",
           "wpay", "wconfirm", "winsert"}

Rails == {"none", "direct", "x402", "seed"}

CallRow == [pc : Labels, body : Bodies \cup {None}, started : Time,
            header : BOOLEAN, tx : Txs \cup {None},
            saw : Copies \cup Draft \cup {None}, kept : Txs \cup {None},
            held : Rails, from : (-Lookback)..MaxTime, till : Time, paid : Time,
            next : Labels, had : BOOLEAN, answer : Answers,
            told : Ids \cup {None}]

\* Where a call holds a fee and goes on to list.
Held == {"twins", "insert", "winsert"}

MemoryOK(m) ==
  /\ m.pc # "idle" \/ m.answer # "none" => m.body \in Bodies
  /\ m.pc # "idle" => m.answer = "none"
  /\ m.pc \in FeeLabels => m.tx \in Txs /\ m.next \in {"twins", "insert", "winsert"}
  /\ m.pc \in {"settle", "custody"} => m.next \in {"insert", "wconfirm"}
  /\ m.pc = "lookup" => m.held = "x402"
  /\ m.pc = "idle" => m.kept = None /\ ~m.had
  /\ m.pc \in {"draft", "wkeeper", "wkeeper2"} => m.kept = None
  /\ m.pc = "city" /\ m.held # "none" => m.kept = None
  /\ m.pc \in {"editTwins", "save"} => m.told \in Ids /\ m.saw \in Copies
  /\ m.pc \in {"keeper", "keeper2", "keeper3", "wkeeper", "wkeeper2"} => m.body \in Keeper
  /\ m.held = "seed" => m.body \in Keeper /\ m.pc \in Held \cup {"city"}
  /\ m.held = "x402" => m.pc \in Held \cup {"keeper3", "wkeeper2", "lookup",
                                          "city", "wconfirm"}
  /\ m.held = "direct" => m.tx \in Txs /\ m.pc \in Held \cup {"review"}

\* A call that found a stored fee of its body never forgets it on its way.
Remembers(m) ==
  LET b == m.body
      byX == x402[b].start # 0
      direct == attempt[b].tx # None
  IN
  m.had =>
    /\ m.held # "seed"
    /\ m.pc \notin {"pay", "settle", "custody", "wpay", "wconfirm"}
    /\ m.pc # "idle" => byX \/ direct
    /\ m.pc \in {"keeper2", "saved"} => byX \/ m.kept # None
    /\ m.pc \in {"keeper3", "wkeeper2"} => m.held = "x402" \/ direct
    /\ m.pc = "wsaved" /\ b \in Keeper => byX \/ m.kept # None
    /\ m.pc = "wkept" => IF b \in Keeper THEN m.kept # None ELSE direct
    /\ m.pc = "twins" => m.held # "none"
    /\ m.pc = "city" => m.kept # None \/ m.held = "x402"

Knowing(m) ==
  LET b == m.body
      a == attempt[b]
  IN
  /\ m.held = "direct" => /\ Final(m.tx) /\ b \in Covers[m.tx]
                          /\ m.paid = mined[m.tx]
  /\ m.held = "x402" => IF m.pc \in {"keeper3", "wkeeper2"} THEN x402[b].start # 0
                                                            ELSE PaidX402(b)
  /\ m.held = "direct" \/ m.kept # None \/ m.pc \in {"verify", "review"}
       => a.status # "none"
  /\ m.pc \in {"editTwins", "save"} => listing[m.told].body = b
  /\ m.answer = "listed" => m.told \in Ids /\ listing[m.told].body = b
  /\ m.answer = "review" => a.status \in {"needs_review", "completed"}
  /\ Remembers(m)

Good(m) == m \in CallRow /\ MemoryOK(m) /\ Knowing(m)

Calling == /\ call \in [Calls -> CallRow]
           /\ \A c \in Calls : Good(call[c])

Inv == /\ ChainOK /\ TablesOK /\ Rows
       /\ FeeBuysOneListing /\ CanceledOwesNothing /\ Calling

---------------------------------------------------------------------------
(* The names of payments, the first free id, the first memory of a call.   *)

LEMMA Names ==
  /\ None # Rival /\ None \notin Bodies /\ None \notin Ids /\ None \notin Txs
  /\ \A b \in Bodies : /\ Direct(b) \in Owners /\ X402(b) \in Owners
                       /\ Direct(b) \notin {None, Rival}
                       /\ X402(b) \notin {None, Rival}
  /\ \A b, o \in Bodies : /\ Direct(b) # X402(o)
                          /\ Direct(b) = Direct(o) => b = o
                          /\ X402(b) = X402(o) => b = o
<1>1. \A b \in Bodies : /\ Direct(b) \in {"direct", "x402"} \X Bodies
                        /\ X402(b) \in {"direct", "x402"} \X Bodies
  BY DEF Direct, X402
<1>2. \A b \in Bodies : Direct(b) \in Owners /\ X402(b) \in Owners
  BY DEF Owners
<1>3. \A b, o \in Bodies : /\ Direct(b) # X402(o)
                           /\ Direct(b) = Direct(o) => b = o
                           /\ X402(b) = X402(o) => b = o
  BY DEF Direct, X402
<1>4. None # Rival /\ None \notin Bodies /\ None \notin Ids /\ None \notin Txs
  BY FeeAssumption
<1>5. {None, Rival} \cap ({"direct", "x402"} \X Bodies) = {}
  BY FeeAssumption
<1> QED
  BY <1>1, <1>2, <1>3, <1>4, <1>5

LEMMA Basics ==
  /\ 0 \in Time /\ 0 \in (-Lookback)..MaxTime
  /\ Time \subseteq Int
  /\ NoAttempt \in Attempt /\ NoCustody \in Custody /\ NoRow \in Row
  /\ NoDraft \in Draft
  /\ IdleCall \in CallRow
<1>1. 0 \in Time /\ 0 \in (-Lookback)..MaxTime /\ 0 \in 0..Forever
  BY FeeAssumption, WorldAssumption DEF Time, Forever
<1>2. Time \subseteq Int
  BY DEF Time
<1>3. NoAttempt \in Attempt /\ NoCustody \in Custody /\ NoRow \in Row /\ NoDraft \in Draft
  BY <1>1 DEF NoAttempt, Attempt, NoCustody, Custody, NoRow, Row, NoDraft, Draft
<1>4. IdleCall \in CallRow
  BY <1>1 DEF IdleCall, CallRow, Labels, Rails, Answers
<1> QED
  BY <1>1, <1>2, <1>3, <1>4

\* Ids are numbers: the first free one can be chosen.
LEMMA Least ==
  ASSUME NEW S \in SUBSET Nat, S # {}
  PROVE  \E x \in S : \A y \in S : x <= y
<1> DEFINE less == {p \in Nat \X Nat : p[1] < p[2]}
<1>1. IsWellFoundedOn(less, Nat)
  BY NatLessThanWellFounded DEF OpToRel
<1>2. \A y \in Nat, x \in Nat : y < x => <<y, x>> \in less
  OBVIOUS
<1>3. \E x \in S : \A y \in S : ~(<<y, x>> \in less)
  <2> HIDE DEF less
  <2> QED
    BY <1>1, WFMin
<1>4. PICK x \in S : \A y \in S : ~(<<y, x>> \in less)
  BY <1>3
<1>5. ASSUME NEW y \in S PROVE x <= y
  <2>1. ~(y < x)
    BY <1>2, <1>4
  <2> QED
    BY <2>1
<1> QED
  BY <1>5

LEMMA FreeId == Unlisted # {} => NextId \in Unlisted
<1>1. Unlisted \in SUBSET Nat
  BY FeeAssumption DEF Unlisted
<1> HIDE DEF Unlisted
<1>2. Unlisted # {} => \E k \in Unlisted : \A j \in Unlisted : k <= j
  BY <1>1, Least
<1> QED
  BY <1>2 DEF NextId

---------------------------------------------------------------------------
(* How a call moves: it goes on, starts or ends.                           *)

Others(c) == /\ call' \in [Calls -> CallRow]
             /\ \A d \in Calls : d # c => call'[d] = call[d]

Goes(c, label, tx, kept, held, next, paid) ==
  LET m == call[c]
      n == call'[c]
  IN
  /\ Others(c)
  /\ n.pc = label /\ n.tx = tx /\ n.kept = kept /\ n.held = held
  /\ n.next = next /\ n.paid = paid
  /\ n.body = m.body /\ n.had = m.had /\ n.answer = m.answer /\ n.told = m.told
  /\ label \in {"editTwins", "save"} => n.saw = m.saw

Ends(c, x, id) ==
  LET n == call'[c] IN
  /\ Others(c)
  /\ n.pc = "idle" /\ n.answer = x /\ n.told = id /\ n.body = call[c].body
  /\ n.kept = None /\ n.held = "none" /\ n.had = FALSE

Starts(c, b, label, had) ==
  LET n == call'[c] IN
  /\ Others(c)
  /\ n.pc = label /\ n.answer = "none" /\ n.body = b
  /\ n.kept = None /\ n.held = "none" /\ n.had = had

Sets(c, label, tx, kept, held, next, paid, saw, from, till) ==
  call' = [call EXCEPT ![c] = [call[c] EXCEPT !.pc = label, !.tx = tx,
             !.kept = kept, !.held = held, !.next = next, !.paid = paid,
             !.saw = saw, !.from = from, !.till = till]]

LEMMA GoesBy ==
  ASSUME call \in [Calls -> CallRow], NEW c \in Calls, NEW label \in Labels,
         NEW tx \in Txs \cup {None}, NEW kept \in Txs \cup {None},
         NEW held \in Rails, NEW next \in Labels, NEW paid \in Time,
         NEW saw \in Copies \cup Draft \cup {None},
         NEW from \in (-Lookback)..MaxTime, NEW till \in Time,
         label \in {"editTwins", "save"} => saw = call[c].saw,
         Sets(c, label, tx, kept, held, next, paid, saw, from, till)
  PROVE  Goes(c, label, tx, kept, held, next, paid)
<1> DEFINE m == call[c]
           n == [m EXCEPT !.pc = label, !.tx = tx, !.kept = kept, !.held = held,
                          !.next = next, !.paid = paid, !.saw = saw,
                          !.from = from, !.till = till]
<1>1. m \in CallRow
  OBVIOUS
<1>2. /\ n.pc = label /\ n.tx = tx /\ n.kept = kept /\ n.held = held
      /\ n.next = next /\ n.paid = paid /\ n.saw = saw
      /\ n.body = m.body /\ n.had = m.had /\ n.answer = m.answer /\ n.told = m.told
  <2> HIDE DEF m
  <2> QED
    BY <1>1 DEF CallRow
<1>0. n \in CallRow
  <2> HIDE DEF m
  <2> QED
    BY <1>1 DEF CallRow
<1>3. call' = [call EXCEPT ![c] = n]
  BY DEF Sets
<1> HIDE DEF n
<1>4. call'[c] = n /\ Others(c)
  BY <1>0, <1>3 DEF Others
<1> QED
  BY <1>2, <1>4 DEF Goes

LEMMA GotoGoes ==
  ASSUME call \in [Calls -> CallRow], NEW c \in Calls, NEW label \in Labels,
         Goto(c, label)
  PROVE  Goes(c, label, call[c].tx, call[c].kept, call[c].held, call[c].next,
              call[c].paid)
<1> DEFINE m == call[c]
<1>1. m \in CallRow
  OBVIOUS
<1>2. Sets(c, label, m.tx, m.kept, m.held, m.next, m.paid, m.saw, m.from, m.till)
  BY <1>1 DEF Goto, Sets, CallRow
<1>3. /\ m.tx \in Txs \cup {None} /\ m.kept \in Txs \cup {None}
      /\ m.held \in Rails /\ m.next \in Labels /\ m.paid \in Time
      /\ m.saw \in Copies \cup Draft \cup {None}
      /\ m.from \in (-Lookback)..MaxTime /\ m.till \in Time
  BY <1>1 DEF CallRow
<1> HIDE DEF m
<1> QED
  BY <1>2, <1>3, GoesBy DEF m

LEMMA KeptGoes ==
  ASSUME call \in [Calls -> CallRow], NEW c \in Calls, NEW label \in Labels,
         NEW kept \in Txs \cup {None},
         call' = [call EXCEPT ![c].pc = label, ![c].kept = kept]
  PROVE  Goes(c, label, call[c].tx, kept, call[c].held, call[c].next, call[c].paid)
<1> DEFINE m == call[c]
<1>1. m \in CallRow
  OBVIOUS
<1>2. Sets(c, label, m.tx, kept, m.held, m.next, m.paid, m.saw, m.from, m.till)
  BY <1>1 DEF Sets, CallRow
<1>3. /\ m.tx \in Txs \cup {None}
      /\ m.held \in Rails
      /\ m.next \in Labels
      /\ m.paid \in Time
      /\ m.saw \in Copies \cup Draft \cup {None}
      /\ m.from \in (-Lookback)..MaxTime
      /\ m.till \in Time
  BY <1>1 DEF CallRow
<1> HIDE DEF m
<1> QED
  BY <1>2, <1>3, GoesBy DEF m

LEMMA HeldGoes ==
  ASSUME call \in [Calls -> CallRow], NEW c \in Calls, NEW label \in Labels,
         NEW held \in Rails,
         call' = [call EXCEPT ![c].pc = label, ![c].held = held]
  PROVE  Goes(c, label, call[c].tx, call[c].kept, held, call[c].next, call[c].paid)
<1> DEFINE m == call[c]
<1>1. m \in CallRow
  OBVIOUS
<1>2. Sets(c, label, m.tx, m.kept, held, m.next, m.paid, m.saw, m.from, m.till)
  BY <1>1 DEF Sets, CallRow
<1>3. /\ m.tx \in Txs \cup {None}
      /\ m.kept \in Txs \cup {None}
      /\ m.next \in Labels
      /\ m.paid \in Time
      /\ m.saw \in Copies \cup Draft \cup {None}
      /\ m.from \in (-Lookback)..MaxTime
      /\ m.till \in Time
  BY <1>1 DEF CallRow
<1> HIDE DEF m
<1> QED
  BY <1>2, <1>3, GoesBy DEF m

LEMMA HeldKeptGoes ==
  ASSUME call \in [Calls -> CallRow], NEW c \in Calls, NEW label \in Labels,
         NEW held \in Rails,
         NEW kept \in Txs \cup {None},
         call' = [call EXCEPT ![c].pc = label, ![c].held = held, ![c].kept = kept]
  PROVE  Goes(c, label, call[c].tx, kept, held, call[c].next, call[c].paid)
<1> DEFINE m == call[c]
<1>1. m \in CallRow
  OBVIOUS
<1>2. Sets(c, label, m.tx, kept, held, m.next, m.paid, m.saw, m.from, m.till)
  BY <1>1 DEF Sets, CallRow
<1>3. /\ m.tx \in Txs \cup {None}
      /\ m.next \in Labels
      /\ m.paid \in Time
      /\ m.saw \in Copies \cup Draft \cup {None}
      /\ m.from \in (-Lookback)..MaxTime
      /\ m.till \in Time
  BY <1>1 DEF CallRow
<1> HIDE DEF m
<1> QED
  BY <1>2, <1>3, GoesBy DEF m

LEMMA KeptHeldGoes ==
  ASSUME call \in [Calls -> CallRow], NEW c \in Calls, NEW label \in Labels,
         NEW kept \in Txs \cup {None},
         NEW held \in Rails,
         call' = [call EXCEPT ![c].pc = label, ![c].kept = kept, ![c].held = held]
  PROVE  Goes(c, label, call[c].tx, kept, held, call[c].next, call[c].paid)
<1> DEFINE m == call[c]
<1>1. m \in CallRow
  OBVIOUS
<1>2. Sets(c, label, m.tx, kept, held, m.next, m.paid, m.saw, m.from, m.till)
  BY <1>1 DEF Sets, CallRow
<1>3. /\ m.tx \in Txs \cup {None}
      /\ m.next \in Labels
      /\ m.paid \in Time
      /\ m.saw \in Copies \cup Draft \cup {None}
      /\ m.from \in (-Lookback)..MaxTime
      /\ m.till \in Time
  BY <1>1 DEF CallRow
<1> HIDE DEF m
<1> QED
  BY <1>2, <1>3, GoesBy DEF m

LEMMA TxNextGoes ==
  ASSUME call \in [Calls -> CallRow], NEW c \in Calls, NEW label \in Labels,
         NEW tx \in Txs \cup {None},
         NEW next \in Labels,
         call' = [call EXCEPT ![c].pc = label, ![c].tx = tx, ![c].next = next]
  PROVE  Goes(c, label, tx, call[c].kept, call[c].held, next, call[c].paid)
<1> DEFINE m == call[c]
<1>1. m \in CallRow
  OBVIOUS
<1>2. Sets(c, label, tx, m.kept, m.held, next, m.paid, m.saw, m.from, m.till)
  BY <1>1 DEF Sets, CallRow
<1>3. /\ m.kept \in Txs \cup {None}
      /\ m.held \in Rails
      /\ m.paid \in Time
      /\ m.saw \in Copies \cup Draft \cup {None}
      /\ m.from \in (-Lookback)..MaxTime
      /\ m.till \in Time
  BY <1>1 DEF CallRow
<1> HIDE DEF m
<1> QED
  BY <1>2, <1>3, GoesBy DEF m

LEMMA NextGoes ==
  ASSUME call \in [Calls -> CallRow], NEW c \in Calls, NEW label \in Labels,
         NEW next \in Labels,
         call' = [call EXCEPT ![c].pc = label, ![c].next = next]
  PROVE  Goes(c, label, call[c].tx, call[c].kept, call[c].held, next, call[c].paid)
<1> DEFINE m == call[c]
<1>1. m \in CallRow
  OBVIOUS
<1>2. Sets(c, label, m.tx, m.kept, m.held, next, m.paid, m.saw, m.from, m.till)
  BY <1>1 DEF Sets, CallRow
<1>3. /\ m.tx \in Txs \cup {None}
      /\ m.kept \in Txs \cup {None}
      /\ m.held \in Rails
      /\ m.paid \in Time
      /\ m.saw \in Copies \cup Draft \cup {None}
      /\ m.from \in (-Lookback)..MaxTime
      /\ m.till \in Time
  BY <1>1 DEF CallRow
<1> HIDE DEF m
<1> QED
  BY <1>2, <1>3, GoesBy DEF m

LEMMA WindowGoes ==
  ASSUME call \in [Calls -> CallRow], NEW c \in Calls, NEW label \in Labels,
         NEW from \in (-Lookback)..MaxTime,
         NEW till \in Time,
         call' = [call EXCEPT ![c].pc = label, ![c].from = from, ![c].till = till]
  PROVE  Goes(c, label, call[c].tx, call[c].kept, call[c].held, call[c].next, call[c].paid)
<1> DEFINE m == call[c]
<1>1. m \in CallRow
  OBVIOUS
<1>2. Sets(c, label, m.tx, m.kept, m.held, m.next, m.paid, m.saw, from, till)
  BY <1>1 DEF Sets, CallRow
<1>3. /\ m.tx \in Txs \cup {None}
      /\ m.kept \in Txs \cup {None}
      /\ m.held \in Rails
      /\ m.next \in Labels
      /\ m.paid \in Time
      /\ m.saw \in Copies \cup Draft \cup {None}
  BY <1>1 DEF CallRow
<1> HIDE DEF m
<1> QED
  BY <1>2, <1>3, GoesBy DEF m

LEMMA PaidGoes ==
  ASSUME call \in [Calls -> CallRow], NEW c \in Calls, NEW label \in Labels,
         NEW held \in Rails,
         NEW paid \in Time,
         call' = [call EXCEPT ![c].pc = label, ![c].held = held, ![c].paid = paid]
  PROVE  Goes(c, label, call[c].tx, call[c].kept, held, call[c].next, paid)
<1> DEFINE m == call[c]
<1>1. m \in CallRow
  OBVIOUS
<1>2. Sets(c, label, m.tx, m.kept, held, m.next, paid, m.saw, m.from, m.till)
  BY <1>1 DEF Sets, CallRow
<1>3. /\ m.tx \in Txs \cup {None}
      /\ m.kept \in Txs \cup {None}
      /\ m.next \in Labels
      /\ m.saw \in Copies \cup Draft \cup {None}
      /\ m.from \in (-Lookback)..MaxTime
      /\ m.till \in Time
  BY <1>1 DEF CallRow
<1> HIDE DEF m
<1> QED
  BY <1>2, <1>3, GoesBy DEF m

LEMMA SawGoes ==
  ASSUME call \in [Calls -> CallRow], NEW c \in Calls, NEW label \in Labels,
         NEW saw \in Copies \cup Draft \cup {None},
         label \notin {"editTwins", "save"},
         call' = [call EXCEPT ![c].saw = saw, ![c].pc = label]
  PROVE  Goes(c, label, call[c].tx, call[c].kept, call[c].held, call[c].next, call[c].paid)
<1> DEFINE m == call[c]
<1>1. m \in CallRow
  OBVIOUS
<1>2. Sets(c, label, m.tx, m.kept, m.held, m.next, m.paid, saw, m.from, m.till)
  BY <1>1 DEF Sets, CallRow
<1>3. /\ m.tx \in Txs \cup {None}
      /\ m.kept \in Txs \cup {None}
      /\ m.held \in Rails
      /\ m.next \in Labels
      /\ m.paid \in Time
      /\ m.from \in (-Lookback)..MaxTime
      /\ m.till \in Time
  BY <1>1 DEF CallRow
<1> HIDE DEF m
<1> QED
  BY <1>2, <1>3, GoesBy DEF m

LEMMA ReplyEnds ==
  ASSUME call \in [Calls -> CallRow], NEW c \in Calls, NEW x \in Answers, Reply(c, x)
  PROVE  Ends(c, x, None)
<1> DEFINE n == [IdleCall EXCEPT !.answer = x, !.body = call[c].body]
<1>1. call[c].body \in Bodies \cup {None}
  BY DEF CallRow
<1>2. n \in CallRow
  BY <1>1, Basics DEF CallRow
<1>3. /\ n.pc = "idle" /\ n.answer = x /\ n.told = None /\ n.body = call[c].body
      /\ n.kept = None /\ n.held = "none" /\ n.had = FALSE
  BY DEF IdleCall
<1>4. call' = [call EXCEPT ![c] = n]
  BY DEF Reply
<1> HIDE DEF n
<1>5. call'[c] = n /\ Others(c)
  BY <1>2, <1>4 DEF Others
<1> QED
  BY <1>3, <1>5 DEF Ends

LEMMA ListedEnds ==
  ASSUME call \in [Calls -> CallRow], NEW c \in Calls, NEW id \in Ids \cup {None},
         Listed(c, id)
  PROVE  Ends(c, "listed", id)
<1> DEFINE n == [IdleCall EXCEPT !.answer = "listed", !.told = id,
                                 !.body = call[c].body]
<1>1. call[c].body \in Bodies \cup {None}
  BY DEF CallRow
<1>2. n \in CallRow
  BY <1>1, Basics DEF CallRow, Answers
<1>3. /\ n.pc = "idle" /\ n.answer = "listed" /\ n.told = id
      /\ n.body = call[c].body
      /\ n.kept = None /\ n.held = "none" /\ n.had = FALSE
  BY DEF IdleCall
<1>4. call' = [call EXCEPT ![c] = n]
  BY DEF Listed
<1> HIDE DEF n
<1>5. call'[c] = n /\ Others(c)
  BY <1>2, <1>4 DEF Others
<1> QED
  BY <1>3, <1>5 DEF Ends

LEMMA BeginStarts ==
  ASSUME call \in [Calls -> CallRow], now \in Time, NEW c \in Calls,
         NEW b \in Bodies, NEW h \in BOOLEAN, NEW t \in Txs \cup {None},
         NEW label \in Labels, Begin(c, b, h, t, label)
  PROVE  Starts(c, b, label, Stored(b))
<1> DEFINE n == [IdleCall EXCEPT !.pc = label, !.body = b, !.started = now,
                        !.header = h, !.tx = t, !.had = Stored(b)]
<1>1. Stored(b) \in BOOLEAN
  BY DEF Stored
<1>2. n \in CallRow
  BY <1>1, Basics DEF CallRow
<1>3. /\ n.pc = label /\ n.answer = "none" /\ n.body = b
      /\ n.kept = None /\ n.held = "none" /\ n.had = Stored(b)
  BY DEF IdleCall
<1>4. call' = [call EXCEPT ![c] = n]
  BY DEF Begin
<1> HIDE DEF n
<1>5. call'[c] = n /\ Others(c)
  BY <1>2, <1>4 DEF Others
<1> QED
  BY <1>3, <1>5 DEF Starts

LEMMA EditStarts ==
  ASSUME call \in [Calls -> CallRow], listing \in [Ids -> Row], NEW c \in Calls,
         NEW id \in Ids, NEW k \in Copies, Edit(c, id, k)
  PROVE  \E label \in {"editTwins", "save"} :
           /\ Starts(c, listing[id].body, label, FALSE)
           /\ call'[c].told = id /\ call'[c].saw = k
<1> DEFINE label == IF k = listing[id].copy THEN "save" ELSE "editTwins"
           n == [IdleCall EXCEPT !.pc = label, !.body = listing[id].body,
                                 !.told = id, !.saw = k]
<1>1. listing[id].body \in Bodies \cup {None} /\ label \in {"editTwins", "save"}
  BY DEF Row
<1>2. n \in CallRow
  <2>1. label \in Labels /\ k \in Copies \cup Draft \cup {None}
        /\ id \in Ids \cup {None} /\ listing[id].body \in Bodies \cup {None}
    BY <1>1 DEF Labels
  <2> HIDE DEF label
  <2> QED
    BY <2>1, Basics DEF CallRow
<1>3. /\ n.pc = label /\ n.answer = "none" /\ n.body = listing[id].body
      /\ n.kept = None /\ n.held = "none" /\ n.had = FALSE
      /\ n.told = id /\ n.saw = k
  BY DEF IdleCall
<1>4. call' = [call EXCEPT ![c] = n]
  BY DEF Edit
<1> HIDE DEF n
<1>5. call'[c] = n /\ Others(c)
  BY <1>2, <1>4 DEF Others
<1> QED
  BY <1>1, <1>3, <1>5 DEF Starts

---------------------------------------------------------------------------
(* The steps of a call that store nothing leave it with a memory that is   *)
(* good as the tables stand.                                               *)

Store == ChainOK /\ TablesOK /\ Rows

\* A call moves on with a good memory, asking nobody whose fee is stored.
Moves(c) == /\ Others(c) /\ Good(call'[c])
            /\ call[c].had => call'[c].answer # "challenge"

LEMMA EndsGood ==
  ASSUME NEW c \in Calls, NEW x \in Answers, NEW id \in Ids \cup {None},
         Ends(c, x, id), call[c].body \in Bodies, x # "none",
         x = "listed" => id \in Ids /\ listing[id].body = call[c].body,
         x = "review" => attempt[call[c].body].status \in {"needs_review", "completed"},
         x = "challenge" => ~call[c].had
  PROVE  Moves(c)
<1>1. Others(c) /\ call'[c] \in CallRow
  BY DEF Ends, Others
<1>2. /\ call'[c].pc = "idle" /\ call'[c].answer = x /\ call'[c].told = id
      /\ call'[c].body = call[c].body
      /\ call'[c].kept = None /\ call'[c].held = "none" /\ call'[c].had = FALSE
  BY DEF Ends
<1>3. MemoryOK(call'[c])
  BY <1>2 DEF MemoryOK, FeeLabels
<1>4. Knowing(call'[c])
  BY <1>2 DEF Knowing, Remembers
<1> QED
  BY <1>1, <1>2, <1>3, <1>4 DEF Moves, Good

\* An answer that says nothing about the tables.
LEMMA ReplyGood ==
  ASSUME call \in [Calls -> CallRow], NEW c \in Calls, Good(call[c]),
         call[c].pc # "idle", NEW x \in Answers \ {"none", "listed"}, Reply(c, x),
         x = "review" => attempt[call[c].body].status \in {"needs_review", "completed"},
         x = "challenge" => ~call[c].had
  PROVE  Moves(c)
<1>1. Ends(c, x, None)
  BY ReplyEnds
<1>2. call[c].body \in Bodies
  BY DEF Good, MemoryOK
<1> QED
  BY <1>1, <1>2, EndsGood

LEMMA ListedGood ==
  ASSUME call \in [Calls -> CallRow], NEW c \in Calls, Good(call[c]),
         call[c].pc # "idle", NEW id \in Ids, Listed(c, id),
         listing[id].body = call[c].body
  PROVE  Moves(c)
<1>1. Ends(c, "listed", id)
  BY ListedEnds
<1>2. call[c].body \in Bodies /\ "listed" \in Answers
  BY DEF Good, MemoryOK, Answers
<1> QED
  BY <1>1, <1>2, EndsGood

LEMMA KeptOf ==
  ASSUME Store, NEW b \in Bodies
  PROVE  /\ Kept(b) \in Txs \cup {None}
         /\ Kept(b) # None <=> attempt[b].status # "none"
<1>1. attempt[b] \in Attempt
  BY DEF Store, TablesOK
<1>2. IF attempt[b].status = "none" THEN attempt[b].tx = None
      ELSE attempt[b].tx \in Txs
  BY DEF Store, Rows
<1> QED
  BY <1>1, <1>2, Names DEF Kept, Attempt

LEMMA KeeperReadsGood ==
  ASSUME Store, call \in [Calls -> CallRow], NEW c \in Calls, Good(call[c]),
         KeeperReads(c)
  PROVE  Moves(c)
<1> DEFINE m == call[c]
           b == call[c].body
<1>0. m \in CallRow /\ b \in Bodies
  BY DEF KeeperReads, Good, MemoryOK
<1>1. Kept(b) \in Txs \cup {None} /\ Kept(b) = attempt[b].tx
      /\ (Kept(b) # None <=> attempt[b].status # "none")
  BY <1>0, KeptOf DEF Kept
<1>2. /\ NoX402(b) <=> x402[b].start = 0
      /\ {"keeper2", "keeper3", "twins", "saved"} \subseteq Labels
      /\ {"none", "x402", "seed"} \subseteq Rails
  BY DEF NoX402, Labels, Rails
<1>3. CASE /\ m.pc = "keeper"
           /\ call' = [call EXCEPT ![c].pc = "keeper2", ![c].kept = Kept(b)]
  <2>1. Goes(c, "keeper2", m.tx, Kept(b), m.held, m.next, m.paid)
    BY <1>1, <1>2, <1>3, KeptGoes
  <2> QED
    BY <1>1, <1>3, <2>1
       DEF Moves, Goes, Others, Good, MemoryOK, Knowing, Remembers, Held, FeeLabels
<1>4. CASE /\ m.pc = "keeper"
           /\ call' = [call EXCEPT ![c].pc = "keeper3",
                         ![c].held = IF NoX402(b) THEN "none" ELSE "x402"]
  <2> DEFINE held == IF NoX402(b) THEN "none" ELSE "x402"
  <2>1. Goes(c, "keeper3", m.tx, m.kept, held, m.next, m.paid)
    BY <1>2, <1>4, HeldGoes
  <2> QED
    BY <1>1, <1>2, <1>4, <2>1 DEF Moves, Goes, Others, Good, MemoryOK, Knowing, Remembers,
       Held, FeeLabels
<1>5. ASSUME \/ m.pc = "keeper2" /\ m.kept = None /\ NoX402(b)
             \/ m.pc = "keeper3" /\ Kept(b) = None /\ m.held = "none",
             call' = [call EXCEPT ![c].pc = "twins", ![c].held = "seed"]
      PROVE  Moves(c)
  <2>1. Goes(c, "twins", m.tx, m.kept, "seed", m.next, m.paid)
    BY <1>2, <1>5, HeldGoes
  <2> QED
    BY <1>1, <1>2, <1>5, <2>1, Names
       DEF Moves, Goes, Others, Good, MemoryOK, Knowing, Remembers,
       Held, FeeLabels
<1>6. CASE m.pc = "keeper2" /\ Goto(c, "saved")
  <2>1. Goes(c, "saved", m.tx, m.kept, m.held, m.next, m.paid)
    BY <1>2, <1>6, GotoGoes
  <2> QED
    BY <1>2, <1>6, <2>1
       DEF Moves, Goes, Others, Good, MemoryOK, Knowing, Remembers, Held, FeeLabels
<1>7. CASE /\ m.pc = "keeper3"
           /\ call' = [call EXCEPT ![c].pc = "saved", ![c].held = "none",
                                   ![c].kept = Kept(b)]
  <2>1. Goes(c, "saved", m.tx, Kept(b), "none", m.next, m.paid)
    BY <1>1, <1>2, <1>7, HeldKeptGoes
  <2> QED
    BY <1>1, <1>2, <1>7, <2>1 DEF Moves, Goes, Others, Good, MemoryOK, Knowing, Remembers,
       Held, FeeLabels
<1> QED
  BY <1>3, <1>4, <1>5, <1>6, <1>7 DEF KeeperReads

LEMMA ReadPreservedGood ==
  ASSUME Store, call \in [Calls -> CallRow], NEW c \in Calls, Good(call[c]),
         ReadPreserved(c)
  PROVE  Moves(c)
<1> DEFINE m == call[c]
           b == call[c].body
<1>0. m \in CallRow /\ b \in Bodies
  BY DEF ReadPreserved, Good, MemoryOK
<1>1. Kept(b) \in Txs \cup {None} /\ Kept(b) = attempt[b].tx
      /\ (Kept(b) # None <=> attempt[b].status # "none")
  BY <1>0, KeptOf DEF Kept
<1>2. Goes(c, "saved", m.tx, Kept(b), m.held, m.next, m.paid)
  BY <1>1, KeptGoes DEF ReadPreserved, Labels
<1> QED
  BY <1>1, <1>2 DEF Moves, ReadPreserved, Goes, Others, Good, MemoryOK, Knowing, Remembers,
     Held, FeeLabels

LEMMA ReadSavedGood ==
  ASSUME Store, call \in [Calls -> CallRow], NEW c \in Calls, Good(call[c]),
         ReadSaved(c)
  PROVE  Moves(c)
<1> DEFINE m == call[c]
           b == call[c].body
<1>0. m \in CallRow /\ b \in Bodies /\ m.pc = "saved"
  BY DEF ReadSaved, Good, MemoryOK
<1>1. ASSUME NEW x \in {"choose", "do_not_pay"}, Reply(c, x)
      PROVE  Moves(c)
  BY <1>0, <1>1, ReplyGood DEF Answers
<1>2. CASE PaidX402(b) /\ call' = [call EXCEPT ![c].pc = "lookup", ![c].held = "x402"]
  <2>1. Goes(c, "lookup", m.tx, m.kept, "x402", m.next, m.paid)
    BY <1>2, HeldGoes DEF Labels, Rails
  <2> QED
    BY <1>0, <1>2, <2>1
       DEF Moves, Goes, Others, Good, MemoryOK, Knowing, Remembers, Held, FeeLabels
<1>3. CASE NoX402(b) /\ m.kept = None /\ Goto(c, "twins")
  <2>1. Goes(c, "twins", m.tx, m.kept, m.held, m.next, m.paid)
    BY <1>3, GotoGoes DEF Labels
  <2> QED
    BY <1>0, <1>3, <2>1 DEF NoX402, Moves, Goes, Others, Good, MemoryOK, Knowing, Remembers,
       Held, FeeLabels
<1>4. CASE /\ m.kept # None
           /\ call' = [call EXCEPT ![c].pc = "fee", ![c].tx = TxOf(c),
                                   ![c].next = "twins"]
  <2>1. TxOf(c) \in Txs
    BY <1>0, <1>4 DEF TxOf, CallRow
  <2>2. Goes(c, "fee", TxOf(c), m.kept, m.held, "twins", m.paid)
    BY <1>4, <2>1, TxNextGoes DEF Labels, FeeLabels
  <2> QED
    BY <1>0, <1>4, <2>1, <2>2 DEF Moves, Goes, Others, Good, MemoryOK, Knowing, Remembers,
       Held, FeeLabels
<1> QED
  BY <1>1, <1>2, <1>3, <1>4 DEF ReadSaved, MethodRefused

\* The listing an x402 fee of the body has paid for is one of the body.
LEMMA LookupPaidGood ==
  ASSUME Store, FeeBuysOneListing, call \in [Calls -> CallRow], NEW c \in Calls,
         Good(call[c]), LookupPaid(c)
  PROVE  Moves(c)
<1> DEFINE m == call[c]
           b == call[c].body
           t == x402[b].tx
           id == fee[t]
<1>0. m \in CallRow /\ b \in Bodies /\ m.pc = "lookup" /\ m.held = "x402"
  BY DEF LookupPaid, Good, MemoryOK
<1>1. x402[b].standing = "paid"
  BY <1>0 DEF Good, Knowing, PaidX402
<1>2. t \in Txs /\ uses[t] = X402(b)
  BY <1>0, <1>1 DEF Store, Rows
<1>3. CASE id # None /\ Listed(c, id)
  <2> DEFINE l == listing[id]
  <2>1. id \in Ids \ Unlisted
    <3>1. id \in Ids \cup {None}
      BY <1>2 DEF Store, TablesOK
    <3> QED
      BY <1>2, <1>3, <3>1 DEF Store, Rows
  <2>2. l.by # "seed" /\ \E u \in Txs :
            /\ {v \in Txs : fee[v] = id} = {u}
            /\ IF l.by = "direct" THEN PaidDirect(l.body, u) ELSE PaidX(l.body, u)
    BY <1>2, <2>1 DEF FeeBuysOneListing
  <2>3. IF l.by = "direct" THEN PaidDirect(l.body, t) ELSE PaidX(l.body, t)
    <3> HIDE DEF t
    <3> QED
      BY <1>2, <2>2
  <2>4. uses[t] = IF l.by = "direct" THEN Direct(l.body) ELSE X402(l.body)
    BY <2>3 DEF PaidDirect, PaidX
  <2>5. l.body = b
    <3>1. l \in Row
      BY <2>1 DEF Store, TablesOK
    <3>2. Direct(l.body) # X402(b) /\ (X402(l.body) = X402(b) => l.body = b)
      BY DEF Direct, X402
    <3> QED
      BY <1>2, <2>4, <3>2
  <2> QED
    BY <1>0, <1>3, <2>1, <2>5, ListedGood
<1>4. CASE Goto(c, "twins")
  <2>1. Goes(c, "twins", m.tx, m.kept, m.held, m.next, m.paid)
    BY <1>4, GotoGoes DEF Labels
  <2> QED
    BY <1>0, <1>4, <2>1 DEF Moves, Goes, Others, Good, MemoryOK, Knowing, Remembers,
       Held, FeeLabels
<1> QED
  BY <1>3, <1>4 DEF LookupPaid

LEMMA ReadTwinsGood ==
  ASSUME Store, call \in [Calls -> CallRow], NEW c \in Calls, Good(call[c]),
         ReadTwins(c)
  PROVE  Moves(c)
<1> DEFINE m == call[c]
           b == call[c].body
<1>0. m \in CallRow /\ b \in Bodies /\ m.pc = "twins"
  BY DEF ReadTwins, Good, MemoryOK
<1>1. ASSUME NEW x \in {"refused", "do_not_pay"}, Reply(c, x)
      PROVE  Moves(c)
  BY <1>0, <1>1, ReplyGood DEF Answers
<1>2. ASSUME NEW label \in {"pay", "insert", "review"}, Goto(c, label),
             label = "pay" <=> m.held = "none", label = "review" => m.held = "direct"
      PROVE  Moves(c)
  <2>1. Goes(c, label, m.tx, m.kept, m.held, m.next, m.paid)
    BY <1>2, GotoGoes DEF Labels
  <2> QED
    BY <1>0, <1>2, <2>1 DEF Moves, Goes, Others, Good, MemoryOK, Knowing, Remembers,
       Held, FeeLabels
<1>3. CASE Twins(CopyOf[b], None) = {}
  BY <1>2, <1>3 DEF ReadTwins
<1>4. CASE Twins(CopyOf[b], None) # {}
  BY <1>1, <1>2, <1>4 DEF ReadTwins
<1> QED
  BY <1>3, <1>4

LEMMA ChooseMethodGood ==
  ASSUME Store, call \in [Calls -> CallRow], NEW c \in Calls, Good(call[c]),
         ChooseMethod(c) \/ WorldChooseMethod(c)
  PROVE  Moves(c)
<1> DEFINE m == call[c]
<1>0. m \in CallRow /\ m.body \in Bodies /\ m.pc \in {"pay", "wpay"}
  BY DEF ChooseMethod, WorldChooseMethod, Good, MemoryOK
<1>1. CASE Reply(c, "challenge")
  <2>1. ~m.had
    BY <1>0 DEF Good, Knowing, Remembers
  <2> QED
    BY <1>0, <1>1, <2>1, ReplyGood DEF Answers
<1>2. ASSUME NEW next \in {"insert", "wconfirm"},
             call' = [call EXCEPT ![c].pc = "settle", ![c].next = next]
      PROVE  Moves(c)
  <2>1. Goes(c, "settle", m.tx, m.kept, m.held, next, m.paid)
    BY <1>2, NextGoes DEF Labels
  <2> QED
    BY <1>0, <1>2, <2>1 DEF Moves, Goes, Others, Good, MemoryOK, Knowing, Remembers,
       Held, FeeLabels
<1>3. ASSUME NEW next \in {"insert", "winsert"}, m.tx # None,
             call' = [call EXCEPT ![c].pc = "fee", ![c].next = next]
      PROVE  Moves(c)
  <2>1. Goes(c, "fee", m.tx, m.kept, m.held, next, m.paid) /\ m.tx \in Txs
    BY <1>0, <1>3, NextGoes DEF Labels, FeeLabels, CallRow
  <2> QED
    BY <1>0, <1>3, <2>1 DEF Moves, Goes, Others, Good, MemoryOK, Knowing, Remembers,
       Held, FeeLabels
<1> QED
  BY <1>1, <1>2, <1>3 DEF ChooseMethod, WorldChooseMethod

LEMMA ReadFeeGood ==
  ASSUME Store, FeeBuysOneListing, call \in [Calls -> CallRow], NEW c \in Calls,
         Good(call[c]), ReadFee(c)
  PROVE  Moves(c)
<1> DEFINE m == call[c]
           a == attempt[m.body]
<1>0. /\ m \in CallRow /\ m.body \in Bodies /\ m.pc = "fee" /\ m.tx \in Txs
      /\ a \in Attempt
  BY DEF ReadFee, Good, MemoryOK, FeeLabels, Store, TablesOK
<1>1. CASE a.status = "completed" /\ Listed(c, a.id)
  BY <1>0, <1>1, ListedGood DEF FeeBuysOneListing
<1>2. ASSUME NEW x \in {"review", "do_not_pay"}, Reply(c, x),
             x = "review" => a.status \in {"completed", "needs_review"}
      PROVE  Moves(c)
  BY <1>0, <1>2, ReplyGood DEF Answers
<1>3. ASSUME NEW label \in {"reserve", "verify"}, NEW from, NEW till,
             from \in (-Lookback)..MaxTime, till \in Time,
             label = "verify" => a.status # "none",
             call' = [call EXCEPT ![c].pc = label, ![c].from = from, ![c].till = till]
      PROVE  Moves(c)
  <2>1. Goes(c, label, m.tx, m.kept, m.held, m.next, m.paid)
    BY <1>3, WindowGoes DEF Labels, FeeLabels
  <2> QED
    BY <1>0, <1>3, <2>1 DEF Moves, Goes, Others, Good, MemoryOK, Knowing, Remembers,
       Held, FeeLabels
<1>4. /\ OwnFrom(c) \in (-Lookback)..MaxTime /\ OwnTill(c) \in Time
      /\ a.from \in (-Lookback)..MaxTime /\ a.till \in Time
  <2>1. m.started \in Time
    BY <1>0 DEF CallRow
  <2> QED
    BY <1>0, <2>1, FeeAssumption DEF OwnFrom, OwnTill, Attempt, Time
<1> QED
  BY <1>1, <1>2, <1>3, <1>4 DEF ReadFee

LEMMA RereadFeeGood ==
  ASSUME Store, FeeBuysOneListing, call \in [Calls -> CallRow], NEW c \in Calls,
         Good(call[c]), NEW absent \in {"do_not_pay", "refused"}, RereadFee(c, absent)
  PROVE  Moves(c)
<1> DEFINE m == call[c]
           a == attempt[m.body]
<1>0. /\ m \in CallRow /\ m.body \in Bodies /\ m.pc = "reread" /\ a \in Attempt
  BY DEF RereadFee, Good, MemoryOK, Store, TablesOK
<1>1. CASE a.status = "completed" /\ Listed(c, a.id)
  BY <1>0, <1>1, ListedGood DEF FeeBuysOneListing
<1>2. ASSUME NEW x \in {"review", "do_not_pay", "refused"}, Reply(c, x),
             x = "review" => a.status = "needs_review"
      PROVE  Moves(c)
  BY <1>0, <1>2, ReplyGood DEF Answers
<1>3. CASE a.status = "payment_pending" /\ Goto(c, "verify")
  <2>1. Goes(c, "verify", m.tx, m.kept, m.held, m.next, m.paid)
    BY <1>3, GotoGoes DEF Labels, FeeLabels
  <2> QED
    BY <1>0, <1>3, <2>1 DEF Moves, Goes, Others, Good, MemoryOK, Knowing, Remembers,
       Held, FeeLabels
<1> QED
  BY <1>1, <1>2, <1>3 DEF RereadFee

LEMMA VerifyFeeGood ==
  ASSUME Store, call \in [Calls -> CallRow], NEW c \in Calls, Good(call[c]),
         VerifyFee(c)
  PROVE  Moves(c)
<1> DEFINE m == call[c]
           t == m.tx
<1>0. /\ m \in CallRow /\ m.body \in Bodies /\ m.pc = "verify" /\ t \in Txs
      /\ m.next \in Held
  BY DEF VerifyFee, Good, MemoryOK, FeeLabels, Held
<1>1. CASE Reply(c, "pending")
  BY <1>0, <1>1, ReplyGood DEF Answers
<1>2. CASE /\ Final(t) /\ m.body \in Covers[t]
           /\ call' = [call EXCEPT ![c].pc = m.next, ![c].held = "direct",
                                   ![c].paid = mined[t]]
  <2>1. mined[t] \in Time
    BY <1>0 DEF Store, ChainOK
  <2>2. Goes(c, m.next, t, m.kept, "direct", m.next, mined[t])
    BY <1>0, <1>2, <2>1, PaidGoes DEF Labels, Held, Rails
  <2> QED
    BY <1>0, <1>2, <2>2 DEF Moves, Goes, Others, Good, MemoryOK, Knowing, Remembers,
       Held, FeeLabels
<1>3. CASE Goto(c, "review")
  <2>1. Goes(c, "review", m.tx, m.kept, m.held, m.next, m.paid)
    BY <1>3, GotoGoes DEF Labels
  <2> QED
    BY <1>0, <1>3, <2>1 DEF Moves, Goes, Others, Good, MemoryOK, Knowing, Remembers,
       Held, FeeLabels
<1> QED
  BY <1>1, <1>2, <1>3 DEF VerifyFee

LEMMA SettleAnswersGood ==
  ASSUME Store, call \in [Calls -> CallRow], NEW c \in Calls, Good(call[c]),
         SettleAnswers(c)
  PROVE  Moves(c)
<1> DEFINE m == call[c]
<1>0. /\ m \in CallRow /\ m.body \in Bodies /\ m.pc = "custody"
      /\ m.next \in {"insert", "wconfirm"}
  BY DEF SettleAnswers, Good, MemoryOK
<1>1. CASE Reply(c, "do_not_pay")
  BY <1>0, <1>1, ReplyGood DEF Answers
<1>2. CASE /\ PaidX402(m.body)
           /\ call' = [call EXCEPT ![c].pc = m.next, ![c].held = "x402"]
  <2>1. Goes(c, m.next, m.tx, m.kept, "x402", m.next, m.paid)
    BY <1>0, <1>2, HeldGoes DEF Labels, Rails
  <2> QED
    BY <1>0, <1>2, <2>1 DEF Moves, Goes, Others, Good, MemoryOK, Knowing, Remembers,
       Held, FeeLabels
<1> QED
  BY <1>1, <1>2 DEF SettleAnswers

LEMMA AbandonGood ==
  ASSUME call \in [Calls -> CallRow], NEW c \in Calls, Good(call[c]), Abandon(c)
  PROVE  Moves(c)
BY ReplyGood DEF Abandon, Answers

\* The failing branches of the inserting statements.
LEMMA FailedGood ==
  ASSUME Store, call \in [Calls -> CallRow], NEW c \in Calls, Good(call[c]),
         call[c].pc \in {"insert", "winsert", "save", "editTwins"},
         \/ Reply(c, "failed") \/ Reply(c, "do_not_pay") \/ Reply(c, "refused")
         \/ call[c].held = "direct" /\ Goto(c, "review")
         \/ call[c].pc = "editTwins" /\ Goto(c, "save")
  PROVE  Moves(c)
<1> DEFINE m == call[c]
<1>0. m \in CallRow /\ m.body \in Bodies
  BY DEF Good, MemoryOK
<1>1. ASSUME NEW x \in {"failed", "do_not_pay", "refused"}, Reply(c, x)
      PROVE  Moves(c)
  BY <1>0, <1>1, ReplyGood DEF Answers
<1>2. CASE m.held = "direct" /\ Goto(c, "review")
  <2>1. Goes(c, "review", m.tx, m.kept, m.held, m.next, m.paid)
    BY <1>2, GotoGoes DEF Labels
  <2> QED
    BY <1>0, <1>2, <2>1 DEF Moves, Goes, Others, Good, MemoryOK, Knowing, Remembers,
       Held, FeeLabels
<1>3. CASE m.pc = "editTwins" /\ Goto(c, "save")
  <2>1. Goes(c, "save", m.tx, m.kept, m.held, m.next, m.paid)
    BY <1>3, GotoGoes DEF Labels
  <2> QED
    BY <1>0, <1>3, <2>1 DEF Moves, Goes, Others, Good, MemoryOK, Knowing, Remembers,
       Held, FeeLabels
<1> QED
  BY <1>1, <1>2, <1>3

LEMMA StartsGood ==
  ASSUME Store, NEW c \in Calls, NEW b \in Bodies, NEW label,
         label \in {"keeper", "preserved", "draft"}, Starts(c, b, label, Stored(b)),
         label = "keeper" => b \in Keeper
  PROVE  Moves(c)
<1>1. attempt[b].status # "none" => attempt[b].tx # None
  BY Names DEF Store, Rows
<1> QED
  BY <1>1
     DEF Moves, Starts, Stored, Others, Good, MemoryOK, Knowing, Remembers, Held, FeeLabels

LEMMA BeginsGood ==
  ASSUME Store, call \in [Calls -> CallRow], NEW c \in Calls,
         NEW b \in Bodies, NEW h \in BOOLEAN, NEW t \in Txs \cup {None},
         Offer(c, b, h, t) \/ Activate(c, b, h, t)
  PROVE  Moves(c)
<1>1. PICK label \in {"keeper", "preserved", "draft"} :
        Begin(c, b, h, t, label) /\ (label = "keeper" => b \in Keeper)
  BY DEF Offer, Activate
<1>2. Starts(c, b, label, Stored(b))
  BY <1>1, BeginStarts DEF Store, ChainOK, Labels
<1> QED
  BY <1>1, <1>2, StartsGood

LEMMA EditGood ==
  ASSUME Store, call \in [Calls -> CallRow], NEW c \in Calls, NEW id \in Ids,
         NEW k \in Copies, Edit(c, id, k)
  PROVE  Moves(c)
<1>1. PICK label \in {"editTwins", "save"} :
        /\ Starts(c, listing[id].body, label, FALSE)
        /\ call'[c].told = id /\ call'[c].saw = k
  BY EditStarts DEF Store, TablesOK
<1>2. listing[id].body \in Bodies
  BY ArtifactAssumption DEF Edit
<1> QED
  BY <1>1, <1>2
     DEF Moves, Starts, Others, Good, MemoryOK, Knowing, Remembers, Held, FeeLabels

LEMMA ReadDraftGood ==
  ASSUME Store, call \in [Calls -> CallRow], NEW c \in Calls, Good(call[c]),
         Of(c, Worlds), ReadDraft(c)
  PROVE  Moves(c)
<1> DEFINE m == call[c]
           d == draft[DraftOf[m.body]]
           label == IF m.body \in Keeper THEN "wkeeper" ELSE "wsaved"
<1>0. m \in CallRow /\ m.body \in Worlds /\ m.body \in Bodies /\ m.pc = "draft"
  BY DEF ReadDraft, Good, MemoryOK, Of
<1>1. d \in Draft
  BY <1>0, WorldAssumption DEF Store, TablesOK
<1>2. CASE Reply(c, "refused")
  BY <1>0, <1>2, ReplyGood DEF Answers
<1>3. CASE call' = [call EXCEPT ![c].saw = d, ![c].pc = label]
  <2>1. Goes(c, label, m.tx, m.kept, m.held, m.next, m.paid)
    <3>1. label \in Labels /\ label \notin {"editTwins", "save"}
      BY DEF Labels
    <3> HIDE DEF label, d
    <3> QED
      BY <1>1, <1>3, <3>1, SawGoes
  <2>2. /\ label \in {"wkeeper", "wsaved"} /\ (label = "wkeeper" <=> m.body \in Keeper)
        /\ m.kept = None /\ m.held = "none"
    BY <1>0 DEF Good, MemoryOK, Held, CallRow, Rails
  <2> HIDE DEF label
  <2> QED
    BY <1>0, <2>1, <2>2, Names DEF Moves, Goes, Others, Good, MemoryOK, Knowing, Remembers,
       Held, FeeLabels
<1> QED
  BY <1>2, <1>3 DEF ReadDraft

LEMMA WorldKeeperGood ==
  ASSUME Store, call \in [Calls -> CallRow], NEW c \in Calls, Good(call[c]),
         WorldKeeperX402(c) \/ WorldSeedOrPay(c)
  PROVE  Moves(c)
<1> DEFINE m == call[c]
           b == call[c].body
<1>0. m \in CallRow /\ b \in Bodies /\ m.pc \in {"wkeeper", "wkeeper2"}
  BY DEF WorldKeeperX402, WorldSeedOrPay, Good, MemoryOK
<1>1. Kept(b) \in Txs \cup {None} /\ Kept(b) = attempt[b].tx
      /\ (Kept(b) # None <=> attempt[b].status # "none")
  BY <1>0, KeptOf DEF Kept
<1>2. CASE WorldKeeperX402(c)
  <2> DEFINE held == IF NoX402(b) THEN "none" ELSE "x402"
  <2>1. Goes(c, "wkeeper2", m.tx, m.kept, held, m.next, m.paid)
    BY <1>2, HeldGoes DEF WorldKeeperX402, Labels, Rails
  <2> QED
    BY <1>1, <1>2, <2>1 DEF WorldKeeperX402, NoX402, Moves, Goes, Others, Good, MemoryOK,
       Knowing, Remembers, Held, FeeLabels
<1>3. CASE m.pc = "wkeeper2" /\ Reply(c, "refused")
  BY <1>0, <1>3, ReplyGood DEF Answers
<1>4. CASE /\ m.pc = "wkeeper2" /\ m.held = "none" /\ Kept(b) = None
           /\ call' = [call EXCEPT ![c].pc = "city", ![c].held = "seed"]
  <2>1. Goes(c, "city", m.tx, m.kept, "seed", m.next, m.paid)
    BY <1>4, HeldGoes DEF Labels, Rails
  <2> QED
    BY <1>1, <1>4, <2>1, Names DEF Moves, Goes, Others, Good, MemoryOK,
       Knowing, Remembers, Held, FeeLabels
<1>5. CASE /\ m.pc = "wkeeper2"
           /\ call' = [call EXCEPT ![c].pc = "wsaved", ![c].kept = Kept(b),
                                   ![c].held = "none"]
  <2>1. Goes(c, "wsaved", m.tx, Kept(b), "none", m.next, m.paid)
    BY <1>1, <1>5, KeptHeldGoes DEF Labels, Rails
  <2> QED
    BY <1>1, <1>5, <2>1 DEF Moves, Goes, Others, Good, MemoryOK,
       Knowing, Remembers, Held, FeeLabels
<1> QED
  BY <1>2, <1>3, <1>4, <1>5 DEF WorldSeedOrPay

LEMMA WorldReadSavedGood ==
  ASSUME Store, call \in [Calls -> CallRow], NEW c \in Calls, Good(call[c]),
         WorldReadSaved(c)
  PROVE  Moves(c)
<1> DEFINE m == call[c]
           b == call[c].body
<1>0. m \in CallRow /\ b \in Bodies /\ m.pc = "wsaved"
  BY DEF WorldReadSaved, Good, MemoryOK
<1>1. attempt[b].tx # None <=> attempt[b].status # "none"
  BY <1>0, KeptOf DEF Kept
<1>2. CASE Reply(c, "do_not_pay")
  BY <1>0, <1>2, ReplyGood DEF Answers
<1>3. CASE NoX402(b) /\ Goto(c, "wkept")
  <2>1. Goes(c, "wkept", m.tx, m.kept, m.held, m.next, m.paid)
    BY <1>3, GotoGoes DEF Labels
  <2> QED
    BY <1>0, <1>3, <2>1 DEF NoX402, Moves, Goes, Others, Good, MemoryOK, Knowing, Remembers,
       Held, FeeLabels
<1>4. CASE /\ PaidX402(b)
           /\ call' = [call EXCEPT ![c].pc = "city", ![c].held = "x402",
                                   ![c].kept = None]
  <2>1. Goes(c, "city", m.tx, None, "x402", m.next, m.paid)
    BY <1>4, HeldKeptGoes DEF Labels, Rails
  <2> QED
    BY <1>0, <1>4, <2>1 DEF Moves, Goes, Others, Good, MemoryOK, Knowing, Remembers,
       Held, FeeLabels
<1> QED
  BY <1>2, <1>3, <1>4 DEF WorldReadSaved

LEMMA WorldReadKeptGood ==
  ASSUME Store, call \in [Calls -> CallRow], NEW c \in Calls, Good(call[c]),
         WorldReadKept(c)
  PROVE  Moves(c)
<1> DEFINE m == call[c]
           b == call[c].body
           known == IF b \in Keeper THEN m.kept ELSE Kept(b)
<1>0. m \in CallRow /\ b \in Bodies /\ m.pc = "wkept" /\ m.held = "none"
  BY DEF WorldReadKept, Good, MemoryOK, CallRow, Rails, Held
<1>1. /\ known \in Txs \cup {None}
      /\ known # None => attempt[b].status # "none"
      /\ m.had => known # None
  <2>1. Kept(b) \in Txs \cup {None} /\ Kept(b) = attempt[b].tx
        /\ (Kept(b) # None <=> attempt[b].status # "none")
    BY <1>0, KeptOf DEF Kept
  <2> QED
    BY <1>0, <2>1 DEF CallRow, Good, Knowing, Remembers
<1> HIDE DEF known
<1>2. ASSUME NEW x \in {"choose", "do_not_pay", "refused"}, Reply(c, x)
      PROVE  Moves(c)
  BY <1>0, <1>2, ReplyGood DEF Answers
<1>3. CASE known # None /\ Goto(c, "review")
  <2>1. Goes(c, "review", m.tx, m.kept, m.held, m.next, m.paid)
    BY <1>3, GotoGoes DEF Labels
  <2> QED
    BY <1>0, <1>1, <1>3, <2>1 DEF Moves, Goes, Others, Good, MemoryOK, Knowing, Remembers,
       Held, FeeLabels
<1>4. CASE call' = [call EXCEPT ![c].pc = "city", ![c].kept = known]
  <2>1. Goes(c, "city", m.tx, known, m.held, m.next, m.paid)
    BY <1>1, <1>4, KeptGoes DEF Labels
  <2> QED
    BY <1>0, <1>1, <1>4, <2>1 DEF Moves, Goes, Others, Good, MemoryOK, Knowing, Remembers,
       Held, FeeLabels
<1> QED
  BY <1>2, <1>3, <1>4 DEF WorldReadKept, known

LEMMA FetchOfferGood ==
  ASSUME Store, call \in [Calls -> CallRow], NEW c \in Calls, Good(call[c]),
         FetchOffer(c)
  PROVE  Moves(c)
<1> DEFINE m == call[c]
<1>0. m \in CallRow /\ m.body \in Bodies /\ m.pc = "city"
  BY DEF FetchOffer, Good, MemoryOK
<1>1. ASSUME NEW x \in {"do_not_pay", "refused"}, Reply(c, x)
      PROVE  Moves(c)
  BY <1>0, <1>1, ReplyGood DEF Answers
<1>2. CASE /\ m.kept # None
           /\ call' = [call EXCEPT ![c].pc = "fee", ![c].tx = TxOf(c),
                                   ![c].next = "winsert"]
  <2>1. TxOf(c) \in Txs
    BY <1>0, <1>2 DEF TxOf, CallRow
  <2>2. Goes(c, "fee", TxOf(c), m.kept, m.held, "winsert", m.paid)
    BY <1>2, <2>1, TxNextGoes DEF Labels, FeeLabels
  <2> QED
    BY <1>0, <1>2, <2>1, <2>2 DEF Moves, Goes, Others, Good, MemoryOK, Knowing, Remembers,
       Held, FeeLabels
<1>3. ASSUME NEW label \in {"wpay", "winsert", "review"}, Goto(c, label),
             label = "review" <=> m.kept # None,
             label = "wpay" => m.held = "none", label = "winsert" => m.held # "none"
      PROVE  Moves(c)
  <2>1. Goes(c, label, m.tx, m.kept, m.held, m.next, m.paid)
    BY <1>3, GotoGoes DEF Labels
  <2> QED
    BY <1>0, <1>3, <2>1 DEF Moves, Goes, Others, Good, MemoryOK, Knowing, Remembers,
       Held, FeeLabels
<1> QED
  BY <1>1, <1>2, <1>3 DEF FetchOffer

LEMMA WorldConfirmGood ==
  ASSUME Store, call \in [Calls -> CallRow], NEW c \in Calls, Good(call[c]),
         WorldConfirm(c)
  PROVE  Moves(c)
<1> DEFINE m == call[c]
<1>0. m \in CallRow /\ m.body \in Bodies /\ m.pc = "wconfirm"
  BY DEF WorldConfirm, Good, MemoryOK
<1>1. CASE Reply(c, "do_not_pay")
  BY <1>0, <1>1, ReplyGood DEF Answers
<1>2. CASE Goto(c, "winsert")
  <2>1. Goes(c, "winsert", m.tx, m.kept, m.held, m.next, m.paid)
    BY <1>2, GotoGoes DEF Labels
  <2> QED
    BY <1>0, <1>2, <2>1 DEF Moves, Goes, Others, Good, MemoryOK, Knowing, Remembers,
       Held, FeeLabels
<1> QED
  BY <1>1, <1>2 DEF WorldConfirm

---------------------------------------------------------------------------
(* What no step takes back: a used transaction, a final block, a stored    *)
(* attempt, a decided one, a stored or verified x402 payment, a listed     *)
(* body, a sold copy, the hour of a draft and that it was listed.          *)

Grows ==
  /\ \A t \in Txs : /\ uses[t] # None => uses'[t] = uses[t]
                    /\ Final(t) => mined'[t] # 0 /\ mined'[t] <= fin'
                                   /\ mined'[t] = mined[t]
  /\ \A b \in Bodies :
       /\ attempt[b].status # "none" =>
            /\ attempt'[b].status # "none"
            /\ attempt'[b].tx = attempt[b].tx
       /\ attempt[b].status \in {"completed", "needs_review"} =>
            attempt'[b] = attempt[b]
       /\ x402[b].start # 0 => x402'[b].start # 0
       /\ x402[b].standing = "paid" => x402'[b] = x402[b]
  /\ \A id \in Ids \ Unlisted :
       listing'[id].body = listing[id].body /\ listing'[id].by = listing[id].by
  /\ \A id \in Ids : listing[id].sold => listing'[id].copy = listing[id].copy
  /\ \A d \in Drafts :
       /\ draft[d].state # "none" => draft'[d].from = draft[d].from
       /\ draft[d].state \in {"active", "withdrawn"} =>
            draft'[d].state \in {"active", "withdrawn"}

\* Nothing is listed and nothing is charged.
NoBuying ==
  /\ fee' = fee /\ Unlisted' = Unlisted
  /\ \A b \in Bodies : attempt'[b].status = "completed"
                         => attempt[b].status = "completed"

\* What becomes of the direct fees, as a ledger sees it: nothing, a rival's
\* claim, or one of them is stored, listed with or reviewed.
Turns(b, s) ==
  \A o \in Bodies : attempt'[o].status = IF o = b THEN s ELSE attempt[o].status

Accounts ==
  \/ uses' = uses /\ \A o \in Bodies : attempt'[o].status = attempt[o].status
  \/ /\ UNCHANGED <<chain, attempt>>
     /\ \E t \in Txs : \E u \in {Rival} \cup {X402(b) : b \in Bodies} :
          uses[t] = None /\ uses' = [uses EXCEPT ![t] = u]
  \/ /\ UNCHANGED chain
     /\ \E b \in Bodies :
          \/ /\ attempt[b].status = "none" /\ Turns(b, "payment_pending")
             /\ \E t \in Txs : uses[t] = None /\ uses' = [uses EXCEPT ![t] = Direct(b)]
          \/ /\ attempt[b].status = "payment_pending" /\ Turns(b, "completed")
             /\ Final(attempt[b].tx) /\ uses' = uses
          \/ /\ attempt[b].status = "payment_pending" /\ Turns(b, "needs_review")
             /\ uses' = uses

\* A step of the tables that keeps what they say of each other.
Keeps == Grows /\ Accounts /\ ChainOK' /\ TablesOK' /\ Rows' /\ CanceledOwesNothing'

LEMMA TablesStay ==
  ASSUME Store, CanceledOwesNothing, UNCHANGED <<chain, listing, feeStore, draft>>,
         offer' \in [Drafts -> Phases]
  PROVE  Keeps /\ NoBuying
BY DEF Store, CanceledOwesNothing, chain, feeStore, Keeps, Accounts, NoBuying, Grows, ChainOK,
   TablesOK, Rows, Unlisted, Final

LEMMA ChainStays ==
  ASSUME Store, CanceledOwesNothing, UNCHANGED <<listing, feeStore, worldVars>>,
         \/ \E t \in Txs : Mine(t) \/ Reorg(t)
         \/ NewBlock \/ FinalizeBlock
  PROVE  Keeps /\ NoBuying
<1>1. ChainOK' /\ \A t \in Txs : Final(t) => /\ mined'[t] # 0 /\ mined'[t] <= fin'
                                             /\ mined'[t] = mined[t]
  <2>1. /\ now \in Int /\ fin \in Int /\ MaxTime \in Int
        /\ now <= MaxTime /\ 0 <= now /\ 0 <= fin /\ fin <= MaxTime
        /\ \A t \in Txs : mined[t] \in Int
    BY FeeAssumption DEF Store, ChainOK, Time
  <2>2. ASSUME NEW t \in Txs, Mine(t) \/ Reorg(t)
        PROVE  /\ now' = now /\ fin' = fin /\ mined' \in [Txs -> Time]
               /\ \A u \in Txs : u # t => mined'[u] = mined[u]
               /\ ~Final(t)
    BY <2>1, <2>2, Basics DEF Mine, Reorg, Store, ChainOK, Final
  <2>3. ASSUME NEW t \in Txs, Mine(t) \/ Reorg(t)
        PROVE  ChainOK' /\ \A u \in Txs : Final(u) => /\ mined'[u] # 0 /\ mined'[u] <= fin'
                                                      /\ mined'[u] = mined[u]
    BY <2>2, <2>3 DEF Store, ChainOK, Final
  <2>4. CASE NewBlock
    BY <2>1, <2>4 DEF NewBlock, Store, ChainOK, Final, Time
  <2>5. CASE FinalizeBlock
    BY <2>1, <2>5 DEF FinalizeBlock, Store, ChainOK, Final, Time
  <2> QED
    BY <2>3, <2>4, <2>5
<1>2. TablesOK' /\ CanceledOwesNothing' /\ NoBuying
  BY DEF Store, TablesOK, CanceledOwesNothing, NoBuying, feeStore, worldVars, Unlisted
<1>3. Rows'
  BY <1>1 DEF Store, Rows, feeStore, worldVars, Unlisted, Final
<1>4. Grows
  BY <1>1 DEF Grows, feeStore, worldVars
<1>5. Accounts
  BY DEF Accounts, feeStore
<1> QED
  BY <1>1, <1>2, <1>3, <1>4, <1>5 DEF Keeps

\* Drafts open, expire and are canceled.
DraftTurns(d) ==
  \/ draft'[d] = draft[d]
  \/ /\ draft[d].state = "pending"
     /\ draft'[d] = [draft[d] EXCEPT !.state = "expired"]
  \/ /\ draft[d].state = "none"
     /\ draft'[d] = [state |-> "pending", from |-> now, till |-> now + DraftLife]
  \/ /\ draft[d].state = "pending" /\ ~Owing(d)
     /\ draft'[d] = [draft[d] EXCEPT !.state = "canceled"]

LEMMA DraftsTurn ==
  ASSUME Store, NEW d \in Drafts, OpenDraft(d) \/ CancelDraft(d)
  PROVE  /\ UNCHANGED <<feeVars, offer>>
         /\ draft' \in [Drafts -> Draft]
         /\ \A e \in Drafts : DraftTurns(e)
<1>0. draft \in [Drafts -> Draft] /\ now \in Time
  BY DEF Store, ChainOK, TablesOK
<1>1. [state |-> "pending", from |-> now, till |-> now + DraftLife] \in Draft
  BY <1>0, FeeAssumption, WorldAssumption DEF Draft, Time, Forever
<1>2. \A e \in Drafts, x \in {"expired", "canceled"} :
        [draft[e] EXCEPT !.state = x] \in Draft
  BY <1>0 DEF Draft
<1>3. CASE CancelDraft(d)
  <2> DEFINE n == [draft[d] EXCEPT !.state = "canceled"]
  <2>1. draft' = [draft EXCEPT ![d] = n] /\ n \in Draft
    BY <1>0, <1>2, <1>3 DEF CancelDraft
  <2>2. draft' \in [Drafts -> Draft] /\ draft'[d] = n
        /\ \A e \in Drafts : e # d => draft'[e] = draft[e]
    <3> HIDE DEF n
    <3> QED
      BY <1>0, <2>1
  <2>3. draft[d].state = "pending" /\ ~Owing(d) /\ UNCHANGED <<feeVars, offer>>
    BY <1>3 DEF CancelDraft
  <2> QED
    BY <2>2, <2>3 DEF DraftTurns
<1>4. CASE OpenDraft(d)
  <2> DEFINE swept == Sweep(SellerOf[d])
             n == [state |-> "pending", from |-> now, till |-> now + DraftLife]
  <2>1. /\ swept \in [Drafts -> Draft]
        /\ \A e \in Drafts : \/ swept[e] = draft[e]
                             \/ /\ draft[e].state = "pending"
                                /\ swept[e] = [draft[e] EXCEPT !.state = "expired"]
    BY <1>0, <1>2 DEF Sweep
  <2>2. draft[d].state = "none" /\ UNCHANGED <<feeVars, offer>>
        /\ (draft' = swept \/ draft' = [swept EXCEPT ![d] = n])
    BY <1>4 DEF OpenDraft
  <2> HIDE DEF swept, n
  <2>3. n \in Draft
    BY <1>1 DEF n
  <2>4. draft' \in [Drafts -> Draft]
    BY <2>1, <2>2, <2>3
  <2>5. ASSUME NEW e \in Drafts PROVE DraftTurns(e)
    <3>1. draft'[e] = swept[e] \/ (e = d /\ draft'[e] = n)
      BY <2>1, <2>2
    <3> QED
      BY <2>1, <2>2, <3>1 DEF DraftTurns, n
  <2> QED
    BY <2>2, <2>4, <2>5
<1> QED
  BY <1>3, <1>4

LEMMA DraftsKeep ==
  ASSUME Store, CanceledOwesNothing, NEW d \in Drafts, OpenDraft(d) \/ CancelDraft(d)
  PROVE  Keeps /\ NoBuying
<1>1. /\ UNCHANGED <<chain, listing, feeStore, offer>>
      /\ draft' \in [Drafts -> Draft]
      /\ \A e \in Drafts : DraftTurns(e)
  BY DraftsTurn DEF feeVars
<1>2. \A e \in Drafts : draft[e] \in Draft
  BY DEF Store, TablesOK
<1>3. ASSUME NEW e \in Drafts
      PROVE  /\ draft[e].state # "none" => draft'[e].from = draft[e].from
             /\ draft[e].state \in {"active", "withdrawn"} =>
                  draft'[e].state \in {"active", "withdrawn"}
             /\ draft'[e].state \in {"pending", "expired"}
                  => draft'[e].till = draft'[e].from + DraftLife
             /\ draft'[e].state = "canceled" => draft[e].state = "canceled" \/ ~Owing(e)
  BY <1>1, <1>2 DEF DraftTurns, Draft, Store, Rows
<1>4. ChainOK' /\ TablesOK' /\ NoBuying
  BY <1>1 DEF Store, ChainOK, TablesOK, NoBuying, chain, feeStore, Unlisted
<1>5. Rows'
  <2>1. \A b \in Worlds : DraftOf[b] \in Drafts
    BY WorldAssumption
  <2> QED
    BY <1>1, <1>3, <2>1 DEF Store, Rows, chain, feeStore, Unlisted, Final
<1>6. CanceledOwesNothing'
  <2> SUFFICES ASSUME NEW b \in Worlds, draft'[DraftOf[b]].state = "canceled"
               PROVE  attempt'[b].status # "payment_pending"
    BY DEF CanceledOwesNothing
  <2>1. DraftOf[b] \in Drafts
    BY WorldAssumption
  <2>2. draft[DraftOf[b]].state = "canceled" \/ ~Owing(DraftOf[b])
    BY <1>3, <2>1
  <2> QED
    BY <1>1, <2>2 DEF CanceledOwesNothing, Owing, feeStore
<1>7. Grows
  BY <1>1, <1>3 DEF Grows, chain, feeStore, Final
<1>8. Accounts
  BY <1>1 DEF Accounts, feeStore
<1> QED
  BY <1>4, <1>5, <1>6, <1>7, <1>8 DEF Keeps

LEMMA RivalKeeps ==
  ASSUME Store, CanceledOwesNothing, NEW t \in Txs, RivalClaims(t), UNCHANGED worldVars
  PROVE  Keeps /\ NoBuying
<1>1. /\ UNCHANGED <<chain, listing, attempt, x402, fee, draft, offer>>
      /\ uses' = [uses EXCEPT ![t] = Rival] /\ uses[t] = None
  BY DEF RivalClaims, Unused, worldVars
<1>2. uses' \in [Txs -> Owners] /\ \A u \in Txs : u # t => uses'[u] = uses[u]
  BY <1>1 DEF Store, TablesOK, Owners
<1>3. ChainOK' /\ TablesOK' /\ CanceledOwesNothing' /\ NoBuying
  BY <1>1, <1>2 DEF Store, ChainOK, TablesOK, NoBuying, chain, Unlisted, CanceledOwesNothing
<1>4. \A u \in Txs : uses[u] # None => uses'[u] = uses[u]
  BY <1>1, <1>2
<1>5. Rows'
  BY <1>1, <1>4, Names DEF Store, Rows, chain, Unlisted, Final
<1>6. Grows
  BY <1>1, <1>4 DEF Grows, chain, Final
<1>7. Accounts
  BY <1>1 DEF Accounts
<1> QED
  BY <1>3, <1>5, <1>6, <1>7 DEF Keeps

\* Custody, and the call that opens it, move one x402 payment on.
CustodyTurns(b) ==
  /\ UNCHANGED <<chain, listing, attempt, fee, draft, offer>>
  /\ x402' \in [Bodies -> Custody] /\ uses' \in [Txs -> Owners]
  /\ \A o \in Bodies : o # b => x402'[o] = x402[o]
  /\ x402[b].start # 0 => x402'[b].start # 0
  /\ x402'[b].standing # "open" => x402'[b].start # 0
  /\ x402[b].standing # "paid"
  /\ \/ x402'[b].standing = x402[b].standing /\ x402'[b].tx = x402[b].tx
        /\ uses' = uses
     \/ x402'[b].standing \in {"held", "refused"} /\ uses' = uses
     \/ /\ x402[b].standing = "pending" /\ x402'[b].standing = "paid"
        /\ x402'[b].tx = x402[b].tx
        /\ Final(x402[b].tx) /\ uses' = uses
     \/ \E t \in Txs :
          /\ x402'[b].standing = "pending" /\ x402'[b].tx = t
          /\ uses[t] = None /\ uses' = [uses EXCEPT ![t] = X402(b)]

LEMMA CustodyKeeps ==
  ASSUME Store, CanceledOwesNothing, NEW b \in Bodies, CustodyTurns(b)
  PROVE  Keeps /\ NoBuying
<1>1. ChainOK' /\ TablesOK' /\ CanceledOwesNothing' /\ NoBuying
  BY DEF CustodyTurns, Store, ChainOK, TablesOK, NoBuying, chain, Unlisted,
     CanceledOwesNothing
<1>2. \A u \in Txs : uses[u] # None => uses'[u] = uses[u]
  BY DEF CustodyTurns, Store, TablesOK
<1>3. \A o \in Bodies : x402'[o].standing \in {"pending", "paid"} =>
            x402'[o].tx \in Txs /\ uses'[x402'[o].tx] = X402(o)
  <2> SUFFICES ASSUME NEW o \in Bodies, x402'[o].standing \in {"pending", "paid"}
               PROVE  x402'[o].tx \in Txs /\ uses'[x402'[o].tx] = X402(o)
    OBVIOUS
  <2>1. CASE o # b
    BY <1>2, <2>1, Names DEF CustodyTurns, Store, Rows
  <2>2. CASE o = b
    BY <1>2, <2>2, Names DEF CustodyTurns, Store, Rows, TablesOK
  <2> QED
    BY <2>1, <2>2
<1>4. \A o \in Bodies : x402'[o].standing = "paid" => Final(x402'[o].tx)
  BY DEF CustodyTurns, Store, Rows
<1>5. Rows'
  BY <1>2, <1>3, <1>4, Names DEF CustodyTurns, Store, Rows, chain, Unlisted, Final
<1>6. Grows
  BY <1>2 DEF CustodyTurns, Grows, chain, Final
<1>7. Accounts
  BY DEF CustodyTurns, Accounts
<1> QED
  BY <1>1, <1>5, <1>6, <1>7 DEF Keeps

LEMMA CustodyStepTurns ==
  ASSUME Store, NEW b \in Bodies, CustodyStep(b), UNCHANGED worldVars
  PROVE  CustodyTurns(b)
<1>0. /\ x402 \in [Bodies -> Custody] /\ uses \in [Txs -> Owners] /\ x402[b] \in Custody
      /\ X402(b) \in Owners
  BY Names DEF Store, TablesOK
<1>1. ASSUME NEW n \in Custody, x402' = [x402 EXCEPT ![b] = n]
      PROVE  /\ x402' \in [Bodies -> Custody] /\ x402'[b] = n
             /\ \A o \in Bodies : o # b => x402'[o] = x402[o]
  BY <1>0, <1>1
<1>2. ASSUME NEW t \in Txs, CustodyClaims(b, t) PROVE CustodyTurns(b)
  <2> DEFINE n == [x402[b] EXCEPT !.standing = "pending", !.tx = t]
  <2>1. /\ n \in Custody /\ n.standing = "pending" /\ n.tx = t
        /\ n.start = x402[b].start
    BY <1>0 DEF Custody
  <2>2. x402' = [x402 EXCEPT ![b] = n]
    BY <1>0, <1>2 DEF CustodyClaims
  <2> HIDE DEF n
  <2>3. /\ x402' \in [Bodies -> Custody] /\ x402'[b] = n
        /\ \A o \in Bodies : o # b => x402'[o] = x402[o]
    BY <1>1, <2>1, <2>2
  <2>4. uses' \in [Txs -> Owners] /\ uses[t] = None /\ uses' = [uses EXCEPT ![t] = X402(b)]
    BY <1>0, <1>2 DEF CustodyClaims, Unused
  <2>5. UNCHANGED <<chain, listing, attempt, fee, draft, offer>>
        /\ x402[b].standing \in {"open", "held"} /\ x402[b].start # 0
    BY <1>2 DEF CustodyClaims, worldVars
  <2> QED
    BY <2>1, <2>3, <2>4, <2>5 DEF CustodyTurns
<1>3. ASSUME NEW x \in {"held", "refused", "paid"},
             x402' = [x402 EXCEPT ![b].standing = x],
             UNCHANGED <<chain, listing, attempt, fee, uses>>,
             x402[b].standing # "paid", x402[b].start # 0,
             x = "paid" => x402[b].standing = "pending" /\ Final(x402[b].tx)
      PROVE  CustodyTurns(b)
  <2> DEFINE n == [x402[b] EXCEPT !.standing = x]
  <2>1. /\ n \in Custody /\ n.standing = x /\ n.tx = x402[b].tx
        /\ n.start = x402[b].start
    BY <1>0 DEF Custody
  <2>2. x402' = [x402 EXCEPT ![b] = n]
    BY <1>0, <1>3
  <2> HIDE DEF n
  <2>3. /\ x402' \in [Bodies -> Custody] /\ x402'[b] = n
        /\ \A o \in Bodies : o # b => x402'[o] = x402[o]
    BY <1>1, <2>1, <2>2
  <2> QED
    BY <1>0, <1>3, <2>1, <2>3 DEF CustodyTurns, worldVars
<1>4. CustodyPays(b) => CustodyTurns(b)
  BY <1>3 DEF CustodyPays, Store, Rows
<1>5. CustodyHolds(b) => CustodyTurns(b)
  BY <1>3 DEF CustodyHolds
<1>6. CustodyRefuses(b) => CustodyTurns(b)
  BY <1>3 DEF CustodyRefuses
<1> QED
  BY <1>2, <1>4, <1>5, <1>6 DEF CustodyStep

\* The call that finds no custody opens it, before any transaction is named.
LEMMA SettleTurns ==
  ASSUME Store, NEW c \in Calls, call[c].body \in Bodies, call[c].started \in Time,
         SettleX402(c), UNCHANGED worldVars
  PROVE  CustodyTurns(call[c].body) \/ UNCHANGED <<chain, listing, feeStore, worldVars>>
<1> DEFINE b == call[c].body
           n == [x402[b] EXCEPT !.start = call[c].started]
<1>0. x402 \in [Bodies -> Custody] /\ uses \in [Txs -> Owners] /\ x402[b] \in Custody
  BY DEF Store, TablesOK
<1>1. CASE UNCHANGED x402
  BY <1>1 DEF SettleX402, feeStore
<1>2. CASE NoX402(b) /\ x402' = [x402 EXCEPT ![b].start = call[c].started]
  <2>0. x402[b].standing = "open"
    BY <1>2 DEF NoX402, Store, Rows
  <2>1. /\ n \in Custody /\ n.standing = x402[b].standing /\ n.tx = x402[b].tx
    BY <1>0 DEF Custody
  <2>2. x402' = [x402 EXCEPT ![b] = n]
    BY <1>0, <1>2
  <2> HIDE DEF n
  <2>3. /\ x402' \in [Bodies -> Custody] /\ x402'[b] = n
        /\ \A o \in Bodies : o # b => x402'[o] = x402[o]
    BY <1>0, <2>1, <2>2
  <2>4. UNCHANGED <<chain, listing, attempt, fee, uses>>
    BY DEF SettleX402
  <2> QED
    BY <1>0, <1>2, <2>0, <2>1, <2>3, <2>4 DEF CustodyTurns, worldVars, NoX402
<1> QED
  BY <1>1, <1>2 DEF SettleX402

\* The row of an attempt and the owner of its transaction are stored together.
LEMMA ReserveKeeps ==
  ASSUME Store, CanceledOwesNothing, NEW c \in Calls, NEW open \in BOOLEAN,
         call \in [Calls -> CallRow], Good(call[c]),
         ReserveFee(c, open), Reservable(c, open), UNCHANGED worldVars,
         call[c].body \in Worlds => draft[DraftOf[call[c].body]].state # "canceled"
  PROVE  /\ Keeps /\ NoBuying
         /\ attempt'[call[c].body].status # "none"
<1> DEFINE m == call[c]
           b == m.body
           t == m.tx
           n == [NoAttempt EXCEPT !.status = "payment_pending", !.tx = t,
                                  !.from = m.from, !.till = m.till]
<1>0. b \in Bodies /\ t \in Txs /\ m \in CallRow
  BY DEF ReserveFee, Good, MemoryOK, FeeLabels
<1>1. n \in Attempt /\ n.status = "payment_pending" /\ n.tx = t
  BY <1>0 DEF NoAttempt, Attempt, CallRow
<1>2. /\ attempt' = [attempt EXCEPT ![b] = n] /\ uses' = [uses EXCEPT ![t] = Direct(b)]
      /\ attempt[b] = NoAttempt /\ uses[t] = None
      /\ UNCHANGED <<chain, listing, x402, fee, draft, offer>>
  BY DEF ReserveFee, Reservable, Unused, worldVars
<1> HIDE DEF n
<1>3. /\ attempt' \in [Bodies -> Attempt] /\ attempt'[b] = n
      /\ \A o \in Bodies : o # b => attempt'[o] = attempt[o]
      /\ uses' \in [Txs -> Owners] /\ uses'[t] = Direct(b)
      /\ \A u \in Txs : u # t => uses'[u] = uses[u]
  BY <1>0, <1>1, <1>2, Names DEF Store, TablesOK
<1>4. attempt[b].status = "none"
  BY <1>2 DEF NoAttempt
<1> HIDE DEF b, t, m
<1>5. ChainOK' /\ TablesOK'
  BY <1>2, <1>3 DEF Store, ChainOK, TablesOK, chain
<1>6. CanceledOwesNothing'
  BY <1>2, <1>3, WorldAssumption DEF CanceledOwesNothing, b, m
<1>7. NoBuying
  BY <1>1, <1>2, <1>3 DEF NoBuying, Unlisted
<1>8. \A u \in Txs : uses[u] # None => uses'[u] = uses[u]
  BY <1>2, <1>3
<1>9. \A o \in Bodies : /\ x402[o].standing \in {"pending", "paid"}
                             => uses'[x402[o].tx] = X402(o)
                        /\ attempt[o].status # "none" => uses'[attempt[o].tx] = Direct(o)
  BY <1>8, Names DEF Store, Rows
<1>10. Rows'
  BY <1>0, <1>1, <1>2, <1>3, <1>9 DEF Store, Rows, chain, Unlisted, Final
<1>11. Grows
  BY <1>2, <1>3, <1>4, <1>8 DEF Grows, chain, Final
<1>12. Accounts
  <2>1. Turns(b, "payment_pending")
    BY <1>1, <1>3 DEF Turns
  <2> QED
    BY <1>0, <1>2, <1>4, <2>1 DEF Accounts
<1> QED
  BY <1>1, <1>3, <1>5, <1>6, <1>7, <1>10, <1>11, <1>12 DEF Keeps, b, m

LEMMA ReviewKeeps ==
  ASSUME Store, CanceledOwesNothing, NEW b \in Bodies,
         attempt[b].status = "payment_pending",
         attempt' = [attempt EXCEPT ![b].status = "needs_review"],
         UNCHANGED <<chain, listing, x402, fee, uses, worldVars>>
  PROVE  Keeps /\ NoBuying /\ attempt'[b].status = "needs_review"
<1> DEFINE n == [attempt[b] EXCEPT !.status = "needs_review"]
<1>1. attempt[b] \in Attempt
  BY DEF Store, TablesOK
<1>2. n \in Attempt /\ n.status = "needs_review" /\ n.tx = attempt[b].tx
  BY <1>1 DEF Attempt
<1>3. attempt' = [attempt EXCEPT ![b] = n]
  BY DEF Store, TablesOK
<1> HIDE DEF n
<1>4. /\ attempt' \in [Bodies -> Attempt] /\ attempt'[b] = n
      /\ \A o \in Bodies : o # b => attempt'[o] = attempt[o]
  BY <1>2, <1>3 DEF Store, TablesOK
<1>5. ChainOK' /\ TablesOK'
  BY <1>4 DEF Store, ChainOK, TablesOK, chain, worldVars
<1>6. CanceledOwesNothing' /\ NoBuying
  BY <1>2, <1>4, WorldAssumption DEF CanceledOwesNothing, NoBuying, Unlisted, worldVars
<1>7. Rows'
  BY <1>2, <1>4 DEF Store, Rows, chain, Unlisted, Final, worldVars
<1>8. Grows
  BY <1>2, <1>4 DEF Grows, chain, Final, worldVars
<1>9. Accounts
  <2>1. Turns(b, "needs_review")
    BY <1>2, <1>4 DEF Turns
  <2> QED
    BY <2>1 DEF Accounts
<1> QED
  BY <1>2, <1>4, <1>5, <1>6, <1>7, <1>8, <1>9 DEF Keeps

\* A listed row is edited, sold, withdrawn or removed, a thing's with its draft.
RowTurns(id) ==
  /\ UNCHANGED <<chain, feeStore, offer>>
  /\ listing' \in [Ids -> Row] /\ draft' \in [Drafts -> Draft]
  /\ \A o \in Ids : o # id => listing'[o] = listing[o]
  /\ id \notin Unlisted /\ listing'[id].state # "none"
  /\ listing'[id].body = listing[id].body /\ listing'[id].by = listing[id].by
  /\ listing[id].sold => listing'[id].copy = listing[id].copy
  /\ \/ draft' = draft
     \/ /\ listing[id].body \in Worlds
        /\ draft' = [draft EXCEPT ![DraftOf[listing[id].body]].state = "withdrawn"]

LEMMA RowKeeps ==
  ASSUME Store, CanceledOwesNothing, NEW id \in Ids, RowTurns(id)
  PROVE  Keeps /\ NoBuying
<1>0. /\ UNCHANGED <<chain, feeStore, offer>>
      /\ listing' \in [Ids -> Row] /\ draft' \in [Drafts -> Draft]
      /\ \A o \in Ids : o # id => listing'[o] = listing[o]
      /\ id \notin Unlisted /\ listing'[id].state # "none"
      /\ listing'[id].body = listing[id].body /\ listing'[id].by = listing[id].by
      /\ listing[id].sold => listing'[id].copy = listing[id].copy
  BY DEF RowTurns
<1>1. Unlisted' = Unlisted
  <2>1. listing'[id] # NoRow
    BY <1>0 DEF NoRow
  <2> QED
    BY <1>0, <2>1 DEF Unlisted
<1>2. ASSUME NEW d \in Drafts
      PROVE  /\ draft'[d].from = draft[d].from /\ draft'[d].till = draft[d].till
             /\ \/ draft'[d].state = draft[d].state
                \/ draft[d].state \in {"active", "withdrawn"}
                   /\ draft'[d].state = "withdrawn"
  <2>1. CASE draft' = draft
    BY <2>1
  <2>2. CASE /\ listing[id].body \in Worlds
             /\ draft' = [draft EXCEPT ![DraftOf[listing[id].body]].state = "withdrawn"]
    <3> DEFINE e == DraftOf[listing[id].body]
               n == [draft[e] EXCEPT !.state = "withdrawn"]
    <3>1. e \in Drafts /\ draft[e] \in Draft /\ draft[e].state \in {"active", "withdrawn"}
      BY <2>2, WorldAssumption DEF Store, TablesOK, Rows
    <3>2. n.state = "withdrawn" /\ n.from = draft[e].from /\ n.till = draft[e].till
      BY <3>1 DEF Draft
    <3>3. draft' = [draft EXCEPT ![e] = n]
      BY <2>2, <3>1 DEF Store, TablesOK
    <3> HIDE DEF n, e
    <3> QED
      BY <3>1, <3>2, <3>3 DEF Store, TablesOK
  <2> QED
    BY <2>1, <2>2 DEF RowTurns
<1>3. ChainOK' /\ TablesOK' /\ NoBuying
  BY <1>0, <1>1 DEF Store, ChainOK, TablesOK, NoBuying, chain, feeStore
<1>4. CanceledOwesNothing'
  <2>1. \A b \in Worlds : DraftOf[b] \in Drafts
    BY WorldAssumption
  <2> QED
    BY <1>0, <1>2, <2>1 DEF CanceledOwesNothing, feeStore
<1>5. Rows'
  <2>1. \A b \in Worlds : DraftOf[b] \in Drafts
    BY WorldAssumption
  <2>2. \A o \in Ids : listing'[o].body = listing[o].body
    BY <1>0
  <2> QED
    BY <1>0, <1>1, <1>2, <2>1, <2>2 DEF Store, Rows, chain, feeStore, Final
<1>6. Grows
  BY <1>0, <1>2 DEF Grows, chain, feeStore, Final
<1>7. Accounts
  BY <1>0 DEF Accounts, feeStore
<1> QED
  BY <1>3, <1>4, <1>5, <1>6, <1>7 DEF Keeps

LEMMA RowsTurn ==
  ASSUME Store, NEW id \in Ids, listing[id].state # "none",
         NEW r \in Row, listing' = [listing EXCEPT ![id] = r],
         r.body = listing[id].body, r.by = listing[id].by, r.state # "none",
         listing[id].sold => r.copy = listing[id].copy,
         UNCHANGED <<chain, feeStore, offer>>,
         \/ UNCHANGED draft
         \/ /\ listing[id].body \in Worlds
            /\ draft' = [draft EXCEPT ![DraftOf[listing[id].body]].state = "withdrawn"]
  PROVE  RowTurns(id)
<1>1. /\ listing' \in [Ids -> Row] /\ listing'[id] = r
      /\ \A o \in Ids : o # id => listing'[o] = listing[o]
  BY DEF Store, TablesOK
<1>2. id \notin Unlisted
  BY DEF Unlisted, NoRow
<1>3. draft' \in [Drafts -> Draft]
  <2>1. CASE /\ listing[id].body \in Worlds
             /\ draft' = [draft EXCEPT ![DraftOf[listing[id].body]].state = "withdrawn"]
    <3>1. DraftOf[listing[id].body] \in Drafts
      BY <2>1, WorldAssumption
    <3>2. [draft[DraftOf[listing[id].body]] EXCEPT !.state = "withdrawn"] \in Draft
      BY <3>1 DEF Store, TablesOK, Draft
    <3> QED
      BY <2>1, <3>1, <3>2 DEF Store, TablesOK
  <2> QED
    BY <2>1 DEF Store, TablesOK
<1> QED
  BY <1>1, <1>2, <1>3 DEF RowTurns

LEMMA OfficeTurns ==
  ASSUME Store, NEW id \in Ids,
         \/ (Withdraw(id) \/ Remove(id) \/ Sell(id)) /\ UNCHANGED worldVars
         \/ WithdrawWorld(id)
  PROVE  RowTurns(id)
<1>0. listing \in [Ids -> Row] /\ listing[id] \in Row
  BY DEF Store, TablesOK
<1>1. ASSUME NEW x \in {"withdrawn", "removed"},
             listing' = [listing EXCEPT ![id].state = x]
      PROVE  \E r \in Row : /\ listing' = [listing EXCEPT ![id] = r]
                            /\ r.body = listing[id].body /\ r.by = listing[id].by
                            /\ r.copy = listing[id].copy /\ r.state # "none"
  <2> DEFINE r == [listing[id] EXCEPT !.state = x]
  <2>1. r \in Row /\ r.body = listing[id].body /\ r.by = listing[id].by
        /\ r.copy = listing[id].copy /\ r.state # "none"
    BY <1>0 DEF Row
  <2>2. listing' = [listing EXCEPT ![id] = r]
    BY <1>0, <1>1
  <2> HIDE DEF r
  <2> QED
    BY <2>1, <2>2
<1>2. CASE Sell(id) /\ UNCHANGED worldVars
  <2> DEFINE r == [listing[id] EXCEPT !.sold = TRUE]
  <2>1. r \in Row /\ r.body = listing[id].body /\ r.by = listing[id].by
        /\ r.copy = listing[id].copy /\ r.state = listing[id].state
    BY <1>0 DEF Row
  <2>2. listing' = [listing EXCEPT ![id] = r] /\ listing[id].state = "live"
    BY <1>0, <1>2 DEF Sell
  <2> HIDE DEF r
  <2> QED
    BY <1>2, <2>1, <2>2, RowsTurn DEF Sell, worldVars
<1>3. CASE (Withdraw(id) \/ Remove(id)) /\ UNCHANGED worldVars
  <2>1. PICK r \in Row : /\ listing' = [listing EXCEPT ![id] = r]
                         /\ r.body = listing[id].body /\ r.by = listing[id].by
                         /\ r.copy = listing[id].copy /\ r.state # "none"
    BY <1>1, <1>3 DEF Withdraw, Remove
  <2> QED
    BY <1>3, <2>1, RowsTurn DEF Withdraw, Remove, worldVars
<1>4. CASE WithdrawWorld(id)
  <2>1. PICK r \in Row : /\ listing' = [listing EXCEPT ![id] = r]
                         /\ r.body = listing[id].body /\ r.by = listing[id].by
                         /\ r.copy = listing[id].copy /\ r.state # "none"
    BY <1>1, <1>4 DEF WithdrawWorld
  <2> QED
    BY <1>4, <2>1, RowsTurn DEF WithdrawWorld
<1> QED
  BY <1>2, <1>3, <1>4

LEMMA SaveTurns ==
  ASSUME Store, NEW c \in Calls, Good(call[c]), SaveEdit(c),
         StillEditable(call[c].told), UNCHANGED worldVars
  PROVE  RowTurns(call[c].told)
<1> DEFINE id == call[c].told
           r == [listing[id] EXCEPT !.copy = call[c].saw]
<1>0. id \in Ids /\ call[c].saw \in Copies /\ listing[id] \in Row
      /\ listing \in [Ids -> Row]
  BY DEF SaveEdit, Good, MemoryOK, Store, TablesOK
<1>1. listing[id].state = "live" /\ ~listing[id].sold
  BY DEF StillEditable, Editable
<1>2. r \in Row /\ r.body = listing[id].body /\ r.by = listing[id].by
      /\ r.state = "live"
  BY <1>0, <1>1 DEF Row
<1>3. listing' = [listing EXCEPT ![id] = r] /\ UNCHANGED <<chain, feeStore>>
  BY <1>0 DEF SaveEdit
<1> HIDE DEF r
<1> QED
  BY <1>0, <1>1, <1>2, <1>3, RowsTurn DEF worldVars

---------------------------------------------------------------------------
(* The inserting statements: body b gets the free id, by a fee t of one of *)
(* the rails or, for the maintainer, by none.                              *)

Charges(b, id, by, t) ==
  \/ /\ by = "direct" /\ t \in Txs
     /\ attempt[b].status = "payment_pending" /\ attempt[b].tx = t
     /\ attempt' = [attempt EXCEPT ![b].status = "completed", ![b].id = id]
     /\ fee' = [fee EXCEPT ![t] = id]
     /\ Final(t) /\ b \in Covers[t]
     /\ attempt[b].from <= mined[t] /\ mined[t] <= attempt[b].till
  \/ /\ by = "x402" /\ t = x402[b].tx /\ PaidX402(b) /\ fee[t] = None
     /\ attempt' = attempt /\ fee' = [fee EXCEPT ![t] = id]
  \/ by = "seed" /\ b \in Keeper /\ attempt' = attempt /\ fee' = fee

Activates(b, by, t) ==
  LET e == DraftOf[b] IN
  \/ b \notin Worlds /\ draft' = draft
  \/ /\ b \in Worlds /\ Payable(draft[e])
     /\ draft' = [draft EXCEPT ![e].state = "active", ![e].till = Forever]
     /\ by # "seed" => draft[e].from <= mined[t] /\ mined[t] <= draft[e].till

Lists(b, id, by, t) ==
  /\ b \in Bodies /\ id \in Unlisted
  /\ UNCHANGED <<chain, x402, uses, offer>>
  /\ \E copy \in Copies \cup {None} :
       listing' = [listing EXCEPT ![id] = NewRow(b, by, copy)]
  /\ Charges(b, id, by, t)
  /\ Activates(b, by, t)

\* What the tables hold after it.
Listing(b, id, by, t) ==
  /\ id \in Ids /\ listing[id].body = None
  /\ listing' \in [Ids -> Row] /\ Unlisted' = Unlisted \ {id}
  /\ \A o \in Ids : o # id => listing'[o] = listing[o]
  /\ listing'[id].body = b /\ listing'[id].by = by
  /\ attempt' \in [Bodies -> Attempt]
  /\ \A o \in Bodies : o # b \/ by # "direct" => attempt'[o] = attempt[o]
  /\ by = "direct" => /\ attempt'[b].status = "completed" /\ attempt'[b].id = id
                      /\ attempt'[b].tx = attempt[b].tx
                      /\ attempt'[b].from = attempt[b].from
                      /\ attempt'[b].till = attempt[b].till
  /\ by \in {"direct", "x402", "seed"}
  /\ by # "seed" => t \in Txs /\ fee[t] = None
  /\ fee' \in [Txs -> Ids \cup {None}]
  /\ \A u \in Txs : fee'[u] = IF by # "seed" /\ u = t THEN id ELSE fee[u]
  /\ draft' \in [Drafts -> Draft]
  /\ \A d \in Drafts : IF b \in Worlds /\ d = DraftOf[b]
                       THEN /\ draft'[d].state = "active"
                            /\ draft'[d].from = draft[d].from
                       ELSE draft'[d] = draft[d]

LEMMA ListsListing ==
  ASSUME Store, FeeBuysOneListing, NEW b \in Bodies, NEW id \in Ids, NEW by, NEW t,
         Lists(b, id, by, t)
  PROVE  Listing(b, id, by, t)
<1>1. by \in {"direct", "x402", "seed"} /\ (by # "seed" => t \in Txs)
  BY DEF Lists, Charges, PaidX402, Store, Rows
<1>2. /\ id \in Ids /\ listing[id].body = None
      /\ listing' \in [Ids -> Row] /\ Unlisted' = Unlisted \ {id}
      /\ \A o \in Ids : o # id => listing'[o] = listing[o]
      /\ listing'[id].body = b /\ listing'[id].by = by
  <2>1. PICK copy \in Copies \cup {None} :
          listing' = [listing EXCEPT ![id] = NewRow(b, by, copy)]
    BY DEF Lists
  <2> DEFINE r == NewRow(b, by, copy)
  <2>2. r \in Row /\ r.body = b /\ r.by = by /\ r # NoRow
    BY <1>1, Names DEF NewRow, Row, NoRow
  <2>3. listing' = [listing EXCEPT ![id] = r]
    BY <2>1
  <2>4. listing[id] = NoRow
    BY DEF Lists, Unlisted
  <2> HIDE DEF r
  <2>5. /\ listing' \in [Ids -> Row] /\ listing'[id] = r
        /\ \A o \in Ids : o # id => listing'[o] = listing[o]
    BY <2>2, <2>3 DEF Store, TablesOK
  <2>6. Unlisted' = Unlisted \ {id}
    BY <2>2, <2>5 DEF Unlisted
  <2> QED
    BY <2>2, <2>4, <2>5, <2>6 DEF NoRow
<1>3. /\ attempt' \in [Bodies -> Attempt]
      /\ \A o \in Bodies : o # b \/ by # "direct" => attempt'[o] = attempt[o]
      /\ by = "direct" => /\ attempt'[b].status = "completed" /\ attempt'[b].id = id
                          /\ attempt'[b].tx = attempt[b].tx
                          /\ attempt'[b].from = attempt[b].from
                          /\ attempt'[b].till = attempt[b].till
  <2>1. CASE by # "direct"
    BY <2>1 DEF Lists, Charges, Store, TablesOK
  <2>2. CASE by = "direct"
    <3> DEFINE n == [attempt[b] EXCEPT !.status = "completed", !.id = id]
    <3>1. attempt[b] \in Attempt /\ attempt \in [Bodies -> Attempt]
      BY DEF Store, TablesOK
    <3>2. /\ n \in Attempt /\ n.status = "completed" /\ n.id = id
          /\ n.tx = attempt[b].tx /\ n.from = attempt[b].from /\ n.till = attempt[b].till
      BY <3>1 DEF Attempt
    <3>3. attempt' = [attempt EXCEPT ![b].status = "completed", ![b].id = id]
      BY <2>2 DEF Lists, Charges
    <3>4. attempt' = [attempt EXCEPT ![b] = n]
      BY <3>1, <3>3
    <3> HIDE DEF n
    <3> QED
      BY <2>2, <3>1, <3>2, <3>4
  <2> QED
    BY <2>1, <2>2
<1>4. by # "seed" => fee[t] = None
  <2> SUFFICES ASSUME by = "direct", fee[t] # None PROVE FALSE
    BY <1>1 DEF Lists, Charges
  <2>1. t \in Txs /\ attempt[b].status = "payment_pending" /\ attempt[b].tx = t
    BY DEF Lists, Charges
  <2>2. uses[t] = Direct(b)
    BY <2>1 DEF Store, Rows
  <2> DEFINE o == fee[t]
             l == listing[o]
  <2>3. o \in Ids \ Unlisted
    BY <2>1 DEF Store, TablesOK, Rows
  <2>4. /\ l.by = "seed" => {v \in Txs : fee[v] = o} = {}
        /\ l.by # "seed" => \E u \in Txs :
             /\ {v \in Txs : fee[v] = o} = {u}
             /\ IF l.by = "direct" THEN PaidDirect(l.body, u) ELSE PaidX(l.body, u)
    BY <2>3 DEF FeeBuysOneListing
  <2>5. IF l.by = "direct" THEN PaidDirect(l.body, t) ELSE PaidX(l.body, t)
    <3> HIDE DEF l
    <3> QED
      BY <2>1, <2>4
  <2>6. l.body = b
    BY <2>2, <2>5 DEF PaidDirect, PaidX, Direct, X402
  <2>7. l.by = "direct"
    BY <2>2, <2>5 DEF PaidX, Direct, X402
  <2> QED
    BY <2>1, <2>5, <2>6, <2>7 DEF PaidDirect
<1>5. /\ fee' \in [Txs -> Ids \cup {None}]
      /\ \A u \in Txs : fee'[u] = IF by # "seed" /\ u = t THEN id ELSE fee[u]
  BY <1>1 DEF Lists, Charges, Store, TablesOK
<1>6. /\ draft' \in [Drafts -> Draft]
      /\ \A d \in Drafts : IF b \in Worlds /\ d = DraftOf[b]
                           THEN /\ draft'[d].state = "active"
                                /\ draft'[d].from = draft[d].from
                           ELSE draft'[d] = draft[d]
  <2>1. CASE b \notin Worlds
    BY <2>1 DEF Lists, Activates, Store, TablesOK
  <2>2. CASE b \in Worlds
    <3> DEFINE e == DraftOf[b]
               n == [draft[e] EXCEPT !.state = "active", !.till = Forever]
    <3>1. e \in Drafts /\ draft[e] \in Draft /\ draft \in [Drafts -> Draft]
      BY <2>2, WorldAssumption DEF Store, TablesOK
    <3>2. Forever \in 0..Forever
      BY FeeAssumption, WorldAssumption DEF Forever
    <3>3. n \in Draft /\ n.state = "active" /\ n.from = draft[e].from
      BY <3>1, <3>2 DEF Draft
    <3>4. draft' = [draft EXCEPT ![e].state = "active", ![e].till = Forever]
      BY <2>2 DEF Lists, Activates
    <3>5. draft' = [draft EXCEPT ![e] = n]
      BY <3>1, <3>4
    <3> HIDE DEF n, e
    <3>6. /\ draft' \in [Drafts -> Draft] /\ draft'[e] = n
          /\ \A d \in Drafts : d # e => draft'[d] = draft[d]
      BY <3>1, <3>3, <3>5
    <3> QED
      BY <2>2, <3>3, <3>6 DEF e
  <2> QED
    BY <2>1, <2>2
<1> QED
  BY <1>1, <1>2, <1>3, <1>4, <1>5, <1>6 DEF Listing

LEMMA ListsKeeps ==
  ASSUME Store, CanceledOwesNothing, FeeBuysOneListing,
         NEW b \in Bodies, NEW id \in Ids, NEW by, NEW t, Lists(b, id, by, t)
  PROVE  Keeps
<1>0. Listing(b, id, by, t)
  BY ListsListing
<1>1. /\ UNCHANGED <<chain, x402, uses, offer>>
      /\ b \in Worlds => Payable(draft[DraftOf[b]])
      /\ by = "direct" => attempt[b].status = "payment_pending"
  BY DEF Lists, Activates, Charges
<1>2. ChainOK' /\ TablesOK'
  BY <1>0, <1>1 DEF Store, ChainOK, TablesOK, chain, Listing
<1>3. \A d \in Drafts : /\ draft'[d].state = draft[d].state \/ draft'[d].state = "active"
                        /\ draft'[d].from = draft[d].from
                        /\ draft'[d].state # "active" => draft'[d] = draft[d]
                        /\ draft[d].state \in {"active", "withdrawn"}
                             => draft'[d].state \in {"active", "withdrawn"}
  BY <1>0 DEF Listing
<1>4. \A o \in Bodies :
        /\ attempt'[o].tx = attempt[o].tx
        /\ attempt'[o].status = "none" <=> attempt[o].status = "none"
        /\ attempt'[o].status = "payment_pending" => attempt[o].status = "payment_pending"
        /\ attempt[o].status \in {"completed", "needs_review"} => attempt'[o] = attempt[o]
  BY <1>0, <1>1 DEF Listing
<1>5. CanceledOwesNothing'
  <2>1. \A o \in Worlds : DraftOf[o] \in Drafts /\ o \in Bodies
    BY WorldAssumption
  <2> QED
    BY <1>3, <1>4, <2>1 DEF CanceledOwesNothing
<1>6. Rows'
  <2>1. \A o \in Bodies :
       /\ IF attempt'[o].status = "none" THEN attempt'[o].tx = None
          ELSE attempt'[o].tx \in Txs /\ uses'[attempt'[o].tx] = Direct(o)
       /\ x402'[o].standing \in {"pending", "paid"} =>
            x402'[o].tx \in Txs /\ uses'[x402'[o].tx] = X402(o)
       /\ x402'[o].standing = "paid" => Final(x402[o].tx)'
       /\ x402'[o].standing # "open" => x402'[o].start # 0
    BY <1>1, <1>4 DEF Store, Rows, chain, Final
  <2>2. \A d \in Drafts : draft'[d].state \in {"pending", "expired"}
                            => draft'[d].till = draft'[d].from + DraftLife
    BY <1>3 DEF Store, Rows
  <2>3. \A o \in Ids : listing'[o].body \in Worlds
                         => draft'[DraftOf[listing'[o].body]].state \in {"active", "withdrawn"}
    <3> SUFFICES ASSUME NEW o \in Ids, listing'[o].body \in Worlds
                 PROVE  draft'[DraftOf[listing'[o].body]].state \in {"active", "withdrawn"}
      OBVIOUS
    <3>1. \A w \in Worlds : DraftOf[w] \in Drafts
      BY WorldAssumption
    <3>2. CASE o = id
      BY <1>0, <3>1, <3>2 DEF Listing
    <3>3. CASE o # id
      BY <1>0, <1>3, <3>1, <3>3 DEF Listing, Store, Rows
    <3> QED
      BY <3>2, <3>3
  <2>4. \A u \in Txs : fee'[u] # None => fee'[u] \notin Unlisted'
    BY <1>0 DEF Listing, Store, Rows
  <2>5. \A o \in Ids \ Unlisted' : listing'[o].body \in Bodies
    BY <1>0 DEF Listing, Store, Rows
  <2> QED
    BY <2>1, <2>2, <2>3, <2>4, <2>5 DEF Rows
<1>7. Grows
  <2>1. \A o \in Ids \ Unlisted :
          listing'[o].body = listing[o].body /\ listing'[o].by = listing[o].by
    <3>1. id \in Unlisted
      BY DEF Lists
    <3> QED
      BY <1>0, <3>1 DEF Listing
  <2>2. \A o \in Ids : listing[o].sold => listing'[o].copy = listing[o].copy
    <3>1. ~listing[id].sold
      BY DEF Lists, Unlisted, NoRow
    <3> QED
      BY <1>0, <3>1 DEF Listing
  <2> QED
    BY <1>1, <1>3, <1>4, <2>1, <2>2 DEF Grows, chain, Final
<1>8. Accounts
  <2>1. by = "direct" => Final(attempt[b].tx) /\ Turns(b, "completed")
    BY <1>0 DEF Listing, Lists, Charges, Turns
  <2>2. by # "direct" => \A o \in Bodies : attempt'[o].status = attempt[o].status
    BY <1>0 DEF Listing
  <2> QED
    BY <1>1, <2>1, <2>2 DEF Accounts
<1> QED
  BY <1>2, <1>5, <1>6, <1>7, <1>8 DEF Keeps

---------------------------------------------------------------------------
(* A fee buys one listing.                                                 *)

\* What a listing was listed with stays what it was.
LEMMA PaidStays ==
  ASSUME Grows, Store, NEW o \in Bodies, NEW t \in Txs
  PROVE  /\ PaidDirect(o, t) => PaidDirect(o, t)'
         /\ PaidX(o, t) => PaidX(o, t)'
<1>1. PaidDirect(o, t) => PaidDirect(o, t)'
  BY Names DEF Grows, PaidDirect, Final
<1>2. PaidX(o, t) => PaidX(o, t)'
  BY Names DEF Grows, PaidX, PaidX402, Final
<1> QED
  BY <1>1, <1>2

\* The fee of one listing, and that it is the one of its body.
OneFee(id) ==
  LET l == listing[id]
      paid == {t \in Txs : fee[t] = id}
  IN
  /\ l.by = "seed" => paid = {} /\ l.body \in Keeper
  /\ l.by # "seed" => \E t \in Txs :
       /\ paid = {t}
       /\ IF l.by = "direct" THEN PaidDirect(l.body, t) ELSE PaidX(l.body, t)
       /\ l.body \in Worlds =>
            LET d == draft[DraftOf[l.body]] IN
            d.from <= mined[t] /\ mined[t] <= d.from + DraftLife

LEMMA OneFeeStays ==
  ASSUME Grows, Store, NEW id \in Ids \ Unlisted, OneFee(id),
         \A t \in Txs : fee'[t] = id <=> fee[t] = id
  PROVE  OneFee(id)'
<1>1. PICK b \in Bodies : b = listing[id].body
  BY DEF Store, Rows
<1>2. PICK by \in {"none", "direct", "x402", "seed"} : by = listing[id].by
  BY DEF Store, TablesOK, Row
<1>3. listing'[id].body = b /\ listing'[id].by = by
  BY <1>1, <1>2 DEF Grows
<1>4. {t \in Txs : fee'[t] = id} = {t \in Txs : fee[t] = id}
  OBVIOUS
<1>5. b \in Worlds => draft'[DraftOf[b]].from = draft[DraftOf[b]].from
  BY <1>1, WorldAssumption DEF Grows, Store, Rows
<1>6. CASE by = "seed"
  BY <1>1, <1>2, <1>3, <1>4, <1>6 DEF OneFee
<1>7. CASE by # "seed"
  <2>1. PICK t \in Txs :
          /\ {u \in Txs : fee[u] = id} = {t}
          /\ IF by = "direct" THEN PaidDirect(b, t) ELSE PaidX(b, t)
          /\ b \in Worlds => /\ draft[DraftOf[b]].from <= mined[t]
                             /\ mined[t] <= draft[DraftOf[b]].from + DraftLife
    BY <1>1, <1>2, <1>7 DEF OneFee
  <2>2. IF by = "direct" THEN PaidDirect(b, t)' ELSE PaidX(b, t)'
    BY <2>1, PaidStays
  <2>3. mined'[t] = mined[t]
    BY <2>1 DEF PaidDirect, PaidX, Grows
  <2>4. IF listing'[id].by = "direct" THEN PaidDirect(listing[id].body, t)'
                                      ELSE PaidX(listing[id].body, t)'
    BY <1>3, <2>2
  <2>5. listing'[id].body \in Worlds =>
          /\ draft'[DraftOf[listing'[id].body]].from <= mined'[t]
          /\ mined'[t] <= draft'[DraftOf[listing'[id].body]].from + DraftLife
    BY <1>3, <1>5, <2>1, <2>3
  <2>6. listing'[id].by # "seed" /\ {u \in Txs : fee'[u] = id} = {t}
    BY <1>3, <1>4, <1>7, <2>1
  <2> QED
    BY <2>4, <2>5, <2>6 DEF OneFee
<1> QED
  BY <1>6, <1>7

\* A thing is listed once, and a completed attempt names its listing.
NamesOne ==
  /\ \A id \in Ids \ Unlisted : listing[id].body \in Worlds =>
       \A other \in Ids \ (Unlisted \cup {id}) : listing[other].body # listing[id].body
  /\ \A b \in Bodies : attempt[b].status = "completed" =>
       attempt[b].id \in Ids /\ listing[attempt[b].id].body = b

LEMMA FeesAre ==
  FeeBuysOneListing <=> NamesOne /\ \A id \in Ids \ Unlisted : OneFee(id)
BY DEF FeeBuysOneListing, NamesOne, OneFee

LEMMA FeesAreNext ==
  NamesOne' /\ (\A id \in Ids \ Unlisted' : OneFee(id)') => FeeBuysOneListing'
BY DEF FeeBuysOneListing, NamesOne, OneFee

LEMMA FeesStay ==
  ASSUME Grows, Store, FeeBuysOneListing, NoBuying
  PROVE  FeeBuysOneListing'
<1>1. \A id \in Ids \ Unlisted : OneFee(id)'
  BY FeesAre, OneFeeStays DEF NoBuying
<1>2. NamesOne'
  <2>1. NamesOne
    BY FeesAre
  <2>2. Unlisted' = Unlisted
    BY DEF NoBuying
  <2>3. ASSUME NEW id \in Ids \ Unlisted', listing'[id].body \in Worlds,
               NEW other \in Ids \ (Unlisted' \cup {id})
        PROVE  listing'[other].body # listing'[id].body
    BY <2>1, <2>2, <2>3 DEF NamesOne, Grows
  <2>4. ASSUME NEW b \in Bodies, attempt'[b].status = "completed"
        PROVE  attempt'[b].id \in Ids /\ listing'[attempt'[b].id].body = b
    <3>1. attempt'[b] = attempt[b] /\ attempt[b].id \in Ids
          /\ listing[attempt[b].id].body = b
      BY <2>1, <2>4 DEF NoBuying, NamesOne, Grows
    <3>2. attempt[b].id \notin Unlisted
      BY <3>1, Names DEF Unlisted, NoRow
    <3> QED
      BY <3>1, <3>2 DEF Grows
  <2> QED
    BY <2>3, <2>4 DEF NamesOne
<1>3. Unlisted' = Unlisted
  BY DEF NoBuying
<1> QED
  BY <1>1, <1>2, <1>3, FeesAreNext

\* The new listing has the fee it is listed with; the draft of a thing was
\* still pending or expired, so that the thing was not listed before.
LEMMA FeesBuy ==
  ASSUME Store, CanceledOwesNothing, FeeBuysOneListing,
         NEW b \in Bodies, NEW id \in Ids, NEW by, NEW t, Lists(b, id, by, t)
  PROVE  FeeBuysOneListing'
<1>0. Listing(b, id, by, t) /\ Keeps
  BY ListsListing, ListsKeeps
<1>1. /\ Grows /\ id \in Unlisted /\ UNCHANGED <<chain, x402, uses, offer>>
      /\ Charges(b, id, by, t) /\ Activates(b, by, t)
  BY <1>0 DEF Keeps, Lists
<1>2. ASSUME NEW o \in Ids \ Unlisted PROVE OneFee(o)'
  <2>1. \A u \in Txs : fee'[u] = o <=> fee[u] = o
    BY <1>0, <1>1, Names DEF Listing
  <2> QED
    BY <1>1, <2>1, FeesAre, OneFeeStays
<1>3. OneFee(id)'
  <2>1. \A u \in Txs : fee[u] # id
    BY <1>1, Names DEF Store, Rows
  <2>2. {u \in Txs : fee'[u] = id} = IF by = "seed" THEN {} ELSE {t}
    <3>1. \A u \in Txs : fee'[u] = IF by # "seed" /\ u = t THEN id ELSE fee[u]
      BY <1>0 DEF Listing
    <3>2. by # "seed" => t \in Txs
      BY <1>0 DEF Listing
    <3> QED
      BY <2>1, <3>1, <3>2
  <2>3. listing'[id].body = b /\ listing'[id].by = by
    BY <1>0 DEF Listing
  <2>4. CASE by = "seed"
    BY <1>1, <2>2, <2>3, <2>4 DEF OneFee, Charges
  <2>5. CASE by # "seed"
    <3>1. t \in Txs /\ by \in {"direct", "x402"}
      BY <1>0, <2>5 DEF Listing
    <3>2. PICK u \in Txs : u = t
      BY <3>1
    <3>3. by = "direct" => PaidDirect(b, u)'
      <4> SUFFICES ASSUME by = "direct" PROVE PaidDirect(b, u)'
        OBVIOUS
      <4>1. /\ attempt'[b].status = "completed" /\ attempt'[b].tx = u
            /\ attempt'[b].from = attempt[b].from /\ attempt'[b].till = attempt[b].till
            /\ Final(u) /\ b \in Covers[u]
            /\ attempt[b].from <= mined[u] /\ mined[u] <= attempt[b].till
            /\ uses[u] = Direct(b)
        BY <1>0, <1>1, <3>2 DEF Listing, Charges, Store, Rows
      <4> QED
        BY <1>1, <4>1 DEF PaidDirect, Final, chain
    <3>4. by = "x402" => PaidX(b, u)'
      BY <1>1, <3>2 DEF Charges, PaidX, PaidX402, Final, chain, Store, Rows
    <3>5. b \in Worlds => /\ draft'[DraftOf[b]].from <= mined'[u]
                          /\ mined'[u] <= draft'[DraftOf[b]].from + DraftLife
      <4> SUFFICES ASSUME b \in Worlds
                   PROVE  /\ draft'[DraftOf[b]].from <= mined'[u]
                          /\ mined'[u] <= draft'[DraftOf[b]].from + DraftLife
        OBVIOUS
      <4> DEFINE e == DraftOf[b]
      <4>1. e \in Drafts
        BY WorldAssumption
      <4>2. /\ draft[e].state \in {"pending", "expired"}
            /\ draft[e].from <= mined[u] /\ mined[u] <= draft[e].till
        BY <1>1, <2>5, <3>2 DEF Activates, Payable
      <4>3. draft[e].till = draft[e].from + DraftLife
        BY <4>1, <4>2 DEF Store, Rows
      <4>4. draft'[e].from = draft[e].from /\ mined' = mined
        BY <1>0, <1>1, <4>1 DEF Listing, chain
      <4> QED
        BY <4>2, <4>3, <4>4
    <3>6. IF listing'[id].by = "direct" THEN PaidDirect(listing[id].body, u)'
                                        ELSE PaidX(listing[id].body, u)'
      BY <2>3, <3>1, <3>3, <3>4
    <3>7. listing'[id].body \in Worlds =>
          /\ draft'[DraftOf[listing'[id].body]].from <= mined'[u]
          /\ mined'[u] <= draft'[DraftOf[listing'[id].body]].from + DraftLife
      BY <2>3, <3>5
    <3>8. {v \in Txs : fee'[v] = id} = {u} /\ listing'[id].by # "seed"
      BY <2>2, <2>3, <2>5, <3>2
    <3> QED
      BY <3>6, <3>7, <3>8 DEF OneFee
  <2> QED
    BY <2>4, <2>5
<1>4. NamesOne'
  <2>1. NamesOne
    BY FeesAre
  <2>2. /\ Unlisted' = Unlisted \ {id} /\ listing'[id].body = b
        /\ \A o \in Ids : o # id => listing'[o] = listing[o]
    BY <1>0 DEF Listing
  <2>3. b \in Worlds => \A o \in Ids : listing[o].body # b
    BY <1>1 DEF Activates, Payable, Store, Rows
  <2>4. ASSUME NEW o \in Ids \ Unlisted', listing'[o].body \in Worlds,
               NEW other \in Ids \ (Unlisted' \cup {o})
        PROVE  listing'[other].body # listing'[o].body
    BY <2>1, <2>2, <2>3, <2>4 DEF NamesOne
  <2>5. ASSUME NEW o \in Bodies, attempt'[o].status = "completed"
        PROVE  attempt'[o].id \in Ids /\ listing'[attempt'[o].id].body = o
    <3>1. CASE o = b /\ by = "direct"
      BY <1>0, <3>1 DEF Listing
    <3>2. CASE o # b \/ by # "direct"
      <4>1. attempt'[o] = attempt[o] /\ attempt[o].id \in Ids
            /\ listing[attempt[o].id].body = o
        BY <1>0, <2>1, <2>5, <3>2 DEF Listing, NamesOne
      <4>2. listing[id].body = None
        BY <1>0 DEF Listing
      <4> QED
        BY <2>2, <4>1, <4>2, Names
    <3> QED
      BY <3>1, <3>2
  <2> QED
    BY <2>4, <2>5 DEF NamesOne
<1>5. Unlisted' = Unlisted \ {id}
  BY <1>0 DEF Listing
<1> QED
  BY <1>2, <1>3, <1>4, <1>5, FeesAreNext

---------------------------------------------------------------------------
(* The steps, one by one.                                                  *)

LEMMA KnowingStays ==
  ASSUME Grows, Store, NEW n \in CallRow, MemoryOK(n), Knowing(n)
  PROVE  Knowing(n)'
<1> DEFINE b == n.body
<1>1. /\ n.pc # "idle" \/ n.answer # "none" => b \in Bodies
      /\ n.pc = "idle" => n.kept = None /\ n.held = "none"
      /\ n.held = "direct" => n.tx \in Txs
      /\ n.pc \in {"editTwins", "save"} => n.told \in Ids
  BY DEF MemoryOK, CallRow, Rails, Held
<1>2. ASSUME b \in Bodies
      PROVE  /\ attempt[b].status # "none" => attempt'[b].status # "none"
             /\ attempt[b].tx # None => attempt'[b].tx # None
             /\ attempt[b].status \in {"needs_review", "completed"}
                  => attempt'[b].status \in {"needs_review", "completed"}
             /\ x402[b].start # 0 => x402'[b].start # 0
             /\ PaidX402(b) => PaidX402(b)'
             /\ \A id \in Ids : listing[id].body = b => listing'[id].body = b
  <2>1. ASSUME NEW id \in Ids, listing[id].body = b PROVE listing'[id].body = b
    <3>1. id \notin Unlisted
      BY <1>2, <2>1, Names DEF Unlisted, NoRow
    <3> QED
      BY <2>1, <3>1 DEF Grows
  <2>2. attempt[b].tx # None => attempt'[b].tx # None
    BY <1>2 DEF Grows, Store, Rows
  <2> QED
    BY <1>2, <2>1, <2>2 DEF Grows, PaidX402
<1>3. ASSUME n.held = "direct", Final(n.tx) /\ n.paid = mined[n.tx]
      PROVE  Final(n.tx)' /\ n.paid = mined'[n.tx]
  BY <1>1, <1>3 DEF Grows, Final
<1>4. Remembers(n)'
  BY <1>1, <1>2 DEF Knowing, Remembers
<1> QED
  BY <1>1, <1>2, <1>3, <1>4 DEF Knowing

\* Nobody whose fee is stored is asked for one.
Asks == \A c \in Calls : call[c].had => call'[c].answer # "challenge"

LEMMA CallsStay ==
  ASSUME Store, Grows, Calling,
         \/ UNCHANGED call
         \/ \E c \in Calls : Moves(c)
  PROVE  Calling' /\ Asks
<1>0. \A d \in Calls : call[d].had => call[d].answer # "challenge"
  BY DEF Calling, Good, MemoryOK
<1>1. /\ call' \in [Calls -> CallRow] /\ \A d \in Calls : Good(call'[d])
      /\ Asks
  BY <1>0 DEF Calling, Moves, Others, Asks
<1>2. ASSUME NEW d \in Calls PROVE Good(call[d])'
  <2>1. PICK n \in CallRow : n = call'[d]
    BY <1>1
  <2>2. MemoryOK(n) /\ Knowing(n)
    BY <1>1, <2>1 DEF Good
  <2>3. Knowing(n)'
    BY <2>2, KnowingStays
  <2>4. Knowing(call[d])'
    BY <2>1, <2>3
  <2>5. MemoryOK(call[d])'
    BY <1>1 DEF Good
  <2> QED
    BY <1>1, <2>4, <2>5 DEF Good
<1> QED
  BY <1>1, <1>2 DEF Calling

\* One call has learnt something from its own step.
LEMMA CallLearns ==
  ASSUME Store, Grows, Calling, NEW c \in Calls, NEW n \in CallRow,
         Others(c), n = call'[c], MemoryOK(n), Knowing(n)', n.answer # "challenge"
  PROVE  Calling' /\ Asks
<1>1. call' \in [Calls -> CallRow]
  BY DEF Others
<1>2. ASSUME NEW d \in Calls PROVE Good(call[d])'
  <2>1. CASE d = c
    <3>1. Knowing(call[c])' /\ MemoryOK(call[c])'
      BY DEF Others
    <3> QED
      BY <1>1, <2>1, <3>1 DEF Good
  <2>2. CASE d # c
    <3>1. PICK m \in CallRow : m = call'[d]
      BY <1>1
    <3>2. m = call[d] /\ MemoryOK(m) /\ Knowing(m)
      BY <2>2, <3>1 DEF Others, Calling, Good
    <3>3. Knowing(m)'
      BY <3>2, KnowingStays
    <3>4. Knowing(call[d])'
      BY <3>1, <3>3
    <3>5. MemoryOK(call[d])'
      BY <3>1, <3>2
    <3> QED
      BY <1>1, <3>4, <3>5 DEF Good
  <2> QED
    BY <2>1, <2>2
<1>3. Asks
  <2>1. \A d \in Calls : call[d].had => call[d].answer # "challenge"
    BY DEF Calling, Good, MemoryOK
  <2> QED
    BY <2>1 DEF Asks, Others
<1> QED
  BY <1>1, <1>2, <1>3 DEF Calling

Tables == <<chain, listing, feeStore, worldVars>>

\* What every step leaves true.
Sound == Keeps /\ FeeBuysOneListing' /\ Calling' /\ Asks

LEMMA QuietSteps ==
  ASSUME Inv, UNCHANGED Tables,
         \/ UNCHANGED call
         \/ \E c \in Calls : Moves(c)
  PROVE  Sound
<1>1. Keeps /\ NoBuying
  BY TablesStay DEF Inv, Store, TablesOK, Tables, worldVars
<1>2. Grows
  BY <1>1 DEF Keeps
<1> QED
  BY <1>1, <1>2, FeesStay, CallsStay DEF Sound, Inv, Store

LEMMA KeepingSteps ==
  ASSUME Inv, Keeps, NoBuying,
         \/ UNCHANGED call
         \/ \E c \in Calls : Moves(c)
  PROVE  Sound
<1>2. Grows
  BY DEF Keeps
<1> QED
  BY <1>2, FeesStay, CallsStay DEF Sound, Inv, Store

\* The steps around the routes.
LEMMA AroundSteps ==
  ASSUME Inv, Around, UNCHANGED worldVars
  PROVE  Sound
<1>0. Store /\ call \in [Calls -> CallRow] /\ (\A c \in Calls : Good(call[c]))
      /\ CanceledOwesNothing /\ FeeBuysOneListing
  BY DEF Inv, Store, Calling
<1>1. ASSUME NEW c \in Calls,
             Abandon(c) \/ ReadFee(c) \/ VerifyFee(c) \/ SettleAnswers(c)
      PROVE  Sound
  <2>1. Moves(c)
    BY <1>0, <1>1, AbandonGood, ReadFeeGood, VerifyFeeGood, SettleAnswersGood
  <2>2. UNCHANGED Tables
    BY <1>1 DEF Abandon, ReadFee, VerifyFee, SettleAnswers, Tables
  <2> QED
    BY <2>1, <2>2, QuietSteps
<1>2. ASSUME NEW c \in Calls, ReviewFee(c) PROVE Sound
  <2> DEFINE b == call[c].body
             a == attempt[b]
  <2>1. /\ call[c].pc = "review" /\ b \in Bodies /\ a \in Attempt /\ a.status # "none"
        /\ Good(call[c])
    BY <1>0, <1>2 DEF ReviewFee, Good, MemoryOK, Knowing, Store, TablesOK
  <2>2. CASE a.status = "payment_pending"
    <3>1. /\ attempt' = [attempt EXCEPT ![b].status = "needs_review"]
          /\ Reply(c, "review")
          /\ UNCHANGED <<chain, listing, x402, fee, uses>>
      BY <1>2, <2>2 DEF ReviewFee
    <3>2. Keeps /\ NoBuying /\ attempt'[b].status = "needs_review"
      BY <1>0, <2>1, <2>2, <3>1, ReviewKeeps
    <3>3. Ends(c, "review", None)
      BY <1>0, <3>1, ReplyEnds DEF Answers
    <3>4. PICK n \in CallRow : n = call'[c]
      BY <3>3 DEF Ends, Others
    <3>5. /\ n.pc = "idle" /\ n.answer = "review" /\ n.told = None /\ n.body = b
          /\ n.kept = None /\ n.held = "none" /\ n.had = FALSE
      BY <3>3, <3>4 DEF Ends
    <3>6. MemoryOK(n)
      BY <2>1, <3>5 DEF MemoryOK, FeeLabels
    <3>7. attempt'[n.body].status = "needs_review"
      BY <3>2, <3>5
    <3>8. Knowing(n)'
      BY <3>5, <3>7 DEF Knowing, Remembers
    <3>9. Others(c) /\ Grows
      BY <3>2, <3>3 DEF Ends, Keeps
    <3>10. Calling' /\ Asks
      BY <1>0, <3>4, <3>5, <3>6, <3>8, <3>9, CallLearns DEF Inv
    <3> QED
      BY <1>0, <3>2, <3>9, <3>10, FeesStay DEF Sound
  <2>3. CASE a.status # "payment_pending"
    <3>1. UNCHANGED Tables
      BY <1>2, <2>3 DEF ReviewFee, Tables, feeStore
    <3>2. CASE a.status = "completed"
      <4>1. Listed(c, a.id) /\ a.id \in Ids /\ listing[a.id].body = b
        BY <1>0, <1>2, <2>1, <2>3, <3>2 DEF ReviewFee, FeeBuysOneListing
      <4> QED
        BY <1>0, <2>1, <3>1, <4>1, ListedGood, QuietSteps
    <3>3. CASE a.status = "needs_review"
      <4>1. Reply(c, "review")
        BY <1>2, <2>3, <3>3 DEF ReviewFee
      <4> QED
        BY <1>0, <2>1, <3>1, <3>3, <4>1, ReplyGood, QuietSteps DEF Answers
    <3> QED
      BY <2>1, <2>3, <3>2, <3>3 DEF Attempt
  <2> QED
    BY <2>2, <2>3
<1>3. ASSUME NEW c \in Calls, SettleX402(c) PROVE Sound
  <2> DEFINE m == call[c]
  <2>1. /\ m.pc = "settle" /\ m \in CallRow /\ m.body \in Bodies /\ m.started \in Time
        /\ Good(m)
    BY <1>0, <1>3 DEF SettleX402, Good, MemoryOK, CallRow
  <2>2. CASE Goto(c, "custody")
    <3>1. Goes(c, "custody", m.tx, m.kept, m.held, m.next, m.paid)
      BY <1>0, <2>2, GotoGoes DEF Labels
    <3>2. Moves(c)
      BY <2>1, <3>1
         DEF Moves, Goes, Others, Good, MemoryOK, Knowing, Remembers, Held, FeeLabels
    <3>3. CustodyTurns(m.body) \/ UNCHANGED Tables
      BY <1>0, <1>3, <2>1, SettleTurns DEF Tables
    <3> QED
      BY <1>0, <2>1, <3>2, <3>3, CustodyKeeps, KeepingSteps, QuietSteps
  <2>3. CASE /\ UNCHANGED x402
             /\ Reply(c, IF NoX402(m.body) THEN "challenge" ELSE "do_not_pay")
    <3>0. ~m.had
      BY <2>1 DEF Good, Knowing, Remembers
    <3>1. Moves(c)
      BY <1>0, <2>1, <2>3, <3>0, ReplyGood DEF Answers
    <3>2. UNCHANGED Tables
      BY <1>3, <2>3 DEF SettleX402, Tables, feeStore
    <3> QED
      BY <3>1, <3>2, QuietSteps
  <2> QED
    BY <1>3, <2>2, <2>3 DEF SettleX402
<1>4. ASSUME NEW b \in Bodies, CustodyStep(b) PROVE Sound
  <2>1. CustodyTurns(b) /\ UNCHANGED call
    BY <1>0, <1>4, CustodyStepTurns DEF CustodyStep, CustodyClaims, CustodyPays,
       CustodyHolds, CustodyRefuses
  <2> QED
    BY <1>0, <2>1, CustodyKeeps, KeepingSteps
<1>5. ASSUME NEW t \in Txs, RivalClaims(t) PROVE Sound
  <2>1. UNCHANGED call
    BY <1>5 DEF RivalClaims
  <2> QED
    BY <1>0, <1>5, <2>1, RivalKeeps, KeepingSteps
<1>6. CASE (\E t \in Txs : Mine(t) \/ Reorg(t)) \/ NewBlock \/ FinalizeBlock
  <2>1. UNCHANGED <<listing, feeStore, call>>
    BY <1>6 DEF Mine, Reorg, NewBlock, FinalizeBlock
  <2> QED
    BY <1>0, <1>6, <2>1, ChainStays, KeepingSteps
<1> QED
  BY <1>1, <1>2, <1>3, <1>4, <1>5, <1>6 DEF Around

LEMMA ReserveSteps ==
  ASSUME Inv, NEW c \in Calls, NEW open \in BOOLEAN, ReserveFee(c, open),
         UNCHANGED worldVars,
         open /\ call[c].body \in Worlds => Payable(draft[DraftOf[call[c].body]])
  PROVE  Sound
<1> DEFINE m == call[c]
<1>0. /\ Store /\ call \in [Calls -> CallRow] /\ Good(m)
      /\ CanceledOwesNothing /\ FeeBuysOneListing
      /\ m.pc = "reserve" /\ m \in CallRow /\ m.body \in Bodies
  BY DEF Inv, Store, Calling, ReserveFee, Good, MemoryOK
<1>1. CASE Reservable(c, open)
  <2>1. Keeps /\ NoBuying /\ attempt'[m.body].status # "none"
    BY <1>0, <1>1, ReserveKeeps DEF Reservable, Payable
  <2>2. Goto(c, "verify")
    BY <1>1 DEF ReserveFee
  <2>3. Goes(c, "verify", m.tx, m.kept, m.held, m.next, m.paid)
    BY <1>0, <2>2, GotoGoes DEF Labels, FeeLabels
  <2>4. PICK n \in CallRow : n = call'[c]
    BY <2>3 DEF Goes, Others
  <2>5. /\ n.pc = "verify" /\ n.tx = m.tx /\ n.kept = m.kept /\ n.held = m.held
        /\ n.next = m.next /\ n.paid = m.paid /\ n.body = m.body
        /\ n.had = m.had /\ n.answer = m.answer /\ n.told = m.told
    BY <2>3, <2>4 DEF Goes
  <2>6. m.held = "none"
    BY <1>0 DEF Good, MemoryOK, CallRow, Rails, Held
  <2>7. MemoryOK(n)
    BY <1>0, <2>5, <2>6 DEF Good, MemoryOK, FeeLabels, Held
  <2>8. Grows
    BY <2>1 DEF Keeps
  <2>9. attempt'[n.body].status # "none"
    BY <2>1, <2>5
  <2>10. Remembers(n)'
    <3>1. attempt[m.body].tx # None => attempt'[m.body].tx # None
      BY <1>0, <2>8 DEF Grows, Store, Rows
    <3>2. x402[m.body].start # 0 => x402'[m.body].start # 0
      BY <1>0, <2>8 DEF Grows
    <3> QED
      BY <1>0, <2>5, <2>6, <3>1, <3>2 DEF Good, Knowing, Remembers
  <2>11. Knowing(n)'
    BY <1>0, <2>5, <2>6, <2>9, <2>10 DEF Good, MemoryOK, Knowing
  <2>12. n.answer # "challenge"
    BY <1>0, <2>5 DEF Good, MemoryOK
  <2>13. Calling' /\ Asks
    BY <1>0, <2>3, <2>4, <2>7, <2>12, <2>8, <2>11, CallLearns DEF Inv, Goes
  <2> QED
    BY <1>0, <2>1, <2>8, <2>13, FeesStay DEF Sound
<1>2. CASE ~Reservable(c, open)
  <2>1. Goto(c, "reread") /\ UNCHANGED Tables
    BY <1>2 DEF ReserveFee, Tables, feeStore
  <2>2. Goes(c, "reread", m.tx, m.kept, m.held, m.next, m.paid)
    BY <1>0, <2>1, GotoGoes DEF Labels, FeeLabels
  <2>3. Moves(c)
    BY <1>0, <2>2
       DEF Moves, Goes, Others, Good, MemoryOK, Knowing, Remembers, Held, FeeLabels
  <2> QED
    BY <2>1, <2>3, QuietSteps
<1> QED
  BY <1>1, <1>2

LEMMA ListingSteps ==
  ASSUME Inv, NEW c \in Calls, call[c].body \in Bodies,
         NEW id \in Ids, NEW by, NEW t, Lists(call[c].body, id, by, t), Listed(c, id)
  PROVE  Sound
<1> DEFINE b == call[c].body
<1>0. /\ Store /\ call \in [Calls -> CallRow]
      /\ CanceledOwesNothing /\ FeeBuysOneListing
  BY DEF Inv, Store, Calling
<1>1. Keeps /\ FeeBuysOneListing'
  BY <1>0, ListsKeeps, FeesBuy
<1>2. listing'[id].body = b
  BY <1>0, ListsListing DEF Listing
<1>3. Ends(c, "listed", id)
  BY <1>0, ListedEnds
<1>4. PICK n \in CallRow : n = call'[c]
  BY <1>3 DEF Ends, Others
<1>5. /\ n.pc = "idle" /\ n.answer = "listed" /\ n.told = id /\ n.body = b
      /\ n.kept = None /\ n.held = "none" /\ n.had = FALSE
  BY <1>3, <1>4 DEF Ends
<1>6. MemoryOK(n)
  BY <1>5 DEF MemoryOK, FeeLabels
<1>7. Knowing(n)'
  BY <1>2, <1>5 DEF Knowing, Remembers
<1>8. Others(c) /\ Grows
  BY <1>1, <1>3 DEF Ends, Keeps
<1>9. Calling' /\ Asks
  BY <1>0, <1>4, <1>5, <1>6, <1>7, <1>8, CallLearns DEF Inv
<1> QED
  BY <1>1, <1>9 DEF Sound

\* By each route and each rail.
LEMMA Rigid ==
  ASSUME Inv, NEW c \in Calls, Listed(c, NextId), NEW by, NEW t, call[c].body \in Bodies,
         Unlisted # {}, Lists(call[c].body, NextId, by, t)
  PROVE  Sound
<1>1. PICK id \in Ids : id = NextId
  BY FreeId DEF Unlisted
<1> QED
  BY <1>1, ListingSteps

LEMMA InsertSteps ==
  ASSUME Inv, NEW c \in Calls, call[c].body \in Artifacts, UNCHANGED worldVars,
         InsertDirect(c) \/ InsertX402(c) \/ InsertSeed(c)
  PROVE  Sound
<1> DEFINE m == call[c]
           b == m.body
<1>0. /\ Store /\ call \in [Calls -> CallRow] /\ Good(m) /\ b \in Bodies
      /\ b \notin Worlds /\ m.pc = "insert" /\ m \in CallRow
  BY ArtifactAssumption, WorldAssumption DEF Inv, Store, Calling, InsertDirect,
     InsertX402, InsertSeed
<1>1. ASSUME NEW by, Insert(c, by)
      PROVE  /\ Unlisted # {} /\ NextId \in Unlisted /\ Listed(c, NextId)
             /\ \E copy \in Copies \cup {None} :
                  listing' = [listing EXCEPT ![NextId] = NewRow(b, by, copy)]
  BY <1>1, FreeId, ArtifactAssumption DEF Insert
<1>2. \A by, t : Activates(b, by, t)
  BY <1>0 DEF Activates, worldVars
<1>3. CASE /\ InsertDirect(c) /\ Insert(c, "direct") /\ ChargeDirect(c, NextId)
           /\ InStoredWindow(c)
  <2>1. /\ m.held = "direct" /\ attempt[b].status = "payment_pending"
        /\ attempt[b].tx = m.tx /\ UNCHANGED chain
    BY <1>3 DEF InsertDirect, Chargeable
  <2>2. m.tx \in Txs /\ Final(m.tx) /\ b \in Covers[m.tx] /\ m.paid = mined[m.tx]
    BY <1>0, <2>1 DEF Good, MemoryOK, Knowing
  <2>3. Charges(b, NextId, "direct", m.tx)
    BY <1>3, <2>1, <2>2 DEF Charges, ChargeDirect, InStoredWindow
  <2>4. Lists(b, NextId, "direct", m.tx)
    BY <1>0, <1>1, <1>2, <1>3, <2>1, <2>3 DEF Lists, ChargeDirect, worldVars
  <2> QED
    BY <1>0, <1>1, <1>3, <2>4, Rigid
<1>4. CASE InsertDirect(c) /\ Reply(c, "failed") /\ UNCHANGED <<listing, feeStore>>
  <2>1. UNCHANGED Tables
    BY <1>4 DEF InsertDirect, Tables
  <2> QED
    BY <1>0, <1>4, <2>1, FailedGood, QuietSteps
<1>5. CASE /\ InsertX402(c) /\ Insert(c, "x402") /\ ChargeX402(c, NextId)
           /\ Unbilled(x402[b].tx)
  <2>1. m.held = "x402" /\ UNCHANGED chain
    BY <1>5 DEF InsertX402
  <2>2. PaidX402(b)
    BY <1>0, <2>1 DEF Good, Knowing
  <2>3. Charges(b, NextId, "x402", x402[b].tx)
    BY <1>5, <2>2 DEF Charges, ChargeX402, Unbilled
  <2>4. Lists(b, NextId, "x402", x402[b].tx)
    BY <1>0, <1>1, <1>2, <1>5, <2>1, <2>3 DEF Lists, ChargeX402, worldVars
  <2> QED
    BY <1>0, <1>1, <1>5, <2>4, Rigid
<1>6. CASE InsertX402(c) /\ Reply(c, "do_not_pay") /\ UNCHANGED <<listing, feeStore>>
  <2>1. UNCHANGED Tables
    BY <1>6 DEF InsertX402, Tables
  <2> QED
    BY <1>0, <1>6, <2>1, FailedGood, QuietSteps
<1>7. CASE InsertSeed(c)
  <2>1. Insert(c, "seed") /\ m.held = "seed" /\ UNCHANGED <<chain, feeStore>>
    BY <1>7 DEF InsertSeed
  <2>2. Charges(b, NextId, "seed", None)
    BY <1>0, <2>1 DEF Charges, Good, MemoryOK, feeStore
  <2>3. Lists(b, NextId, "seed", None)
    BY <1>0, <1>1, <1>2, <2>1, <2>2 DEF Lists, feeStore, worldVars
  <2> QED
    BY <1>0, <1>1, <2>1, <2>3, Rigid
<1> QED
  BY <1>3, <1>4, <1>5, <1>6, <1>7 DEF InsertDirect, InsertX402

LEMMA WorldInsertSteps ==
  ASSUME Inv, NEW c \in Calls, call[c].body \in Worlds,
         WorldInsertDirect(c) \/ WorldInsertX402(c) \/ WorldInsertSeed(c)
  PROVE  Sound
<1> DEFINE m == call[c]
           b == m.body
           d == draft[DraftOf[b]]
<1>0. /\ Store /\ call \in [Calls -> CallRow] /\ Good(m) /\ b \in Bodies
      /\ m.pc = "winsert" /\ m \in CallRow
  BY WorldAssumption DEF Inv, Store, Calling, WorldInsertDirect,
     WorldInsertX402, WorldInsertSeed
<1>1. ASSUME NEW by, ActivateDraft(c, by)
      PROVE  /\ Unlisted # {} /\ NextId \in Unlisted /\ Listed(c, NextId)
             /\ \E copy \in Copies \cup {None} :
                  listing' = [listing EXCEPT ![NextId] = NewRow(b, by, copy)]
             /\ draft' = [draft EXCEPT ![DraftOf[b]].state = "active",
                                       ![DraftOf[b]].till = Forever]
             /\ UNCHANGED offer
  BY <1>1, FreeId DEF ActivateDraft
<1>2. CASE /\ WorldInsertDirect(c) /\ ActivateDraft(c, "direct")
           /\ ChargeDirect(c, NextId) /\ InStoredWindow(c) /\ Chargeable(c)
           /\ DraftTakes(d, {attempt[b].till, m.paid})
  <2>1. /\ m.held = "direct" /\ attempt[b].status = "payment_pending"
        /\ attempt[b].tx = m.tx /\ UNCHANGED chain
    BY <1>2 DEF WorldInsertDirect, Chargeable
  <2>2. m.tx \in Txs /\ Final(m.tx) /\ b \in Covers[m.tx] /\ m.paid = mined[m.tx]
    BY <1>0, <2>1 DEF Good, MemoryOK, Knowing
  <2>3. Charges(b, NextId, "direct", m.tx)
    BY <1>2, <2>1, <2>2 DEF Charges, ChargeDirect, InStoredWindow
  <2>4. Activates(b, "direct", m.tx)
    BY <1>1, <1>2, <2>2 DEF Activates, DraftTakes, Inside
  <2>5. Lists(b, NextId, "direct", m.tx)
    BY <1>0, <1>1, <1>2, <2>1, <2>3, <2>4 DEF Lists, ChargeDirect
  <2> QED
    BY <1>0, <1>1, <1>2, <2>5, Rigid
<1>3. CASE /\ WorldInsertDirect(c) /\ UNCHANGED <<listing, feeStore, worldVars>>
           /\ Reply(c, "failed") \/ Goto(c, "review")
  <2>1. UNCHANGED Tables /\ m.held = "direct"
    BY <1>3 DEF WorldInsertDirect, Tables
  <2> QED
    BY <1>0, <1>3, <2>1, FailedGood, QuietSteps
<1>4. CASE /\ WorldInsertX402(c) /\ ActivateDraft(c, "x402")
           /\ ChargeX402(c, NextId) /\ Unbilled(x402[b].tx)
           /\ DraftTakes(d, {x402[b].start, mined[x402[b].tx]})
  <2>1. m.held = "x402" /\ UNCHANGED chain
    BY <1>4 DEF WorldInsertX402
  <2>2. PaidX402(b)
    BY <1>0, <2>1 DEF Good, Knowing
  <2>3. Charges(b, NextId, "x402", x402[b].tx)
    BY <1>4, <2>2 DEF Charges, ChargeX402, Unbilled
  <2>4. Activates(b, "x402", x402[b].tx)
    BY <1>1, <1>4 DEF Activates, DraftTakes, Inside
  <2>5. Lists(b, NextId, "x402", x402[b].tx)
    BY <1>0, <1>1, <1>4, <2>1, <2>3, <2>4 DEF Lists, ChargeX402
  <2> QED
    BY <1>0, <1>1, <1>4, <2>5, Rigid
<1>5. CASE /\ WorldInsertX402(c) /\ Reply(c, "do_not_pay")
           /\ UNCHANGED <<listing, feeStore, worldVars>>
  <2>1. UNCHANGED Tables
    BY <1>5 DEF WorldInsertX402, Tables
  <2> QED
    BY <1>0, <1>5, <2>1, FailedGood, QuietSteps
<1>6. CASE WorldInsertSeed(c) /\ ActivateDraft(c, "seed") /\ Open(d)
  <2>1. m.held = "seed" /\ UNCHANGED <<chain, feeStore>>
    BY <1>6 DEF WorldInsertSeed
  <2>2. Charges(b, NextId, "seed", None)
    BY <1>0, <2>1 DEF Charges, Good, MemoryOK, feeStore
  <2>3. Activates(b, "seed", None)
    BY <1>1, <1>6 DEF Activates, Open, Payable
  <2>4. Lists(b, NextId, "seed", None)
    BY <1>0, <1>1, <1>6, <2>1, <2>2, <2>3 DEF Lists, feeStore
  <2> QED
    BY <1>0, <1>1, <1>6, <2>4, Rigid
<1>7. CASE /\ WorldInsertSeed(c) /\ Reply(c, "refused")
           /\ UNCHANGED <<listing, worldVars>>
  <2>1. UNCHANGED Tables
    BY <1>7 DEF WorldInsertSeed, Tables
  <2> QED
    BY <1>0, <1>7, <2>1, FailedGood, QuietSteps
<1> QED
  BY <1>2, <1>3, <1>4, <1>5, <1>6, <1>7 DEF WorldInsertDirect, WorldInsertX402,
     WorldInsertSeed

LEMMA SaveSteps ==
  ASSUME Inv, NEW c \in Calls, SaveEdit(c), UNCHANGED worldVars
  PROVE  Sound
<1>0. /\ Store /\ call \in [Calls -> CallRow] /\ Good(call[c])
      /\ CanceledOwesNothing /\ call[c].pc = "save"
  BY DEF Inv, Store, Calling, SaveEdit
<1>1. CASE StillEditable(call[c].told)
  <2>1. Listed(c, call[c].told)
    BY <1>1 DEF SaveEdit
  <2>2. call[c].told \in Ids /\ listing[call[c].told].body = call[c].body
    BY <1>0 DEF Good, MemoryOK, Knowing
  <2>3. Moves(c)
    BY <1>0, <2>1, <2>2, ListedGood
  <2>4. Keeps /\ NoBuying
    BY <1>0, <1>1, <2>2, SaveTurns, RowKeeps
  <2> QED
    BY <2>3, <2>4, KeepingSteps
<1>2. CASE ~StillEditable(call[c].told)
  <2>1. Reply(c, "refused") /\ UNCHANGED Tables
    BY <1>2 DEF SaveEdit, Tables
  <2> QED
    BY <1>0, <2>1, FailedGood, QuietSteps
<1> QED
  BY <1>1, <1>2

LEMMA ArtifactSteps ==
  ASSUME Inv, ArtifactNext, UNCHANGED worldVars
  PROVE  Sound
<1>0. /\ Store /\ call \in [Calls -> CallRow] /\ (\A c \in Calls : Good(call[c]))
      /\ CanceledOwesNothing /\ FeeBuysOneListing
  BY DEF Inv, Store, Calling
<1>1. ASSUME NEW c \in Calls, NEW b \in Artifacts, NEW h \in BOOLEAN,
             NEW t \in Txs \cup {None}, Offer(c, b, h, t)
      PROVE  Sound
  <2>1. Moves(c)
    BY <1>0, <1>1, BeginsGood, ArtifactAssumption
  <2>2. UNCHANGED Tables
    BY <1>1 DEF Offer, Tables
  <2> QED
    BY <2>1, <2>2, QuietSteps
<1>2. ASSUME NEW c \in Calls, NEW id \in Ids, NEW k \in Copies, Edit(c, id, k)
      PROVE  Sound
  <2>1. Moves(c)
    BY <1>0, <1>2, EditGood
  <2>2. UNCHANGED Tables
    BY <1>2 DEF Edit, Tables
  <2> QED
    BY <2>1, <2>2, QuietSteps
<1>3. ASSUME NEW id \in Ids, Withdraw(id) \/ Remove(id) \/ Sell(id) PROVE Sound
  <2>1. RowTurns(id)
    BY <1>0, <1>3, OfficeTurns
  <2>2. UNCHANGED call
    BY <1>3 DEF Withdraw, Remove, Sell
  <2> QED
    BY <1>0, <2>1, <2>2, RowKeeps, KeepingSteps
<1>4. ASSUME NEW c \in Calls, Of(c, Artifacts), ArtifactStep(c) PROVE Sound
  <2>0. call[c].body \in Artifacts /\ call[c].body \notin Worlds
    BY <1>4, WorldAssumption DEF Of
  <2>1. CASE \/ KeeperReads(c) \/ ReadPreserved(c) \/ ReadSaved(c) \/ LookupPaid(c)
             \/ ReadTwins(c) \/ ChooseMethod(c) \/ RereadFee(c, "do_not_pay")
    <3>1. Moves(c)
      BY <1>0, <2>1, KeeperReadsGood, ReadPreservedGood, ReadSavedGood, LookupPaidGood,
         ReadTwinsGood, ChooseMethodGood, RereadFeeGood
    <3>2. UNCHANGED Tables
      BY <2>1 DEF KeeperReads, ReadPreserved, ReadSaved, LookupPaid, ReadTwins,
         ChooseMethod, RereadFee, Tables
    <3> QED
      BY <3>1, <3>2, QuietSteps
  <2>2. CASE AttemptGone(c) \/ EditTwins(c)
    <3>1. Moves(c)
      BY <1>0, <2>2, FailedGood DEF AttemptGone, EditTwins
    <3>2. UNCHANGED Tables
      BY <2>2 DEF AttemptGone, EditTwins, Tables
    <3> QED
      BY <3>1, <3>2, QuietSteps
  <2>3. CASE InsertDirect(c) \/ InsertX402(c) \/ InsertSeed(c)
    BY <2>0, <2>3, InsertSteps
  <2>4. CASE ReserveFee(c, TRUE)
    BY <2>0, <2>4, ReserveSteps
  <2>5. CASE SaveEdit(c)
    BY <2>5, SaveSteps
  <2> QED
    BY <1>4, <2>1, <2>2, <2>3, <2>4, <2>5 DEF ArtifactStep
<1> QED
  BY <1>1, <1>2, <1>3, <1>4 DEF ArtifactNext

LEMMA WorldSteps ==
  ASSUME Inv, WorldNext
  PROVE  Sound
<1>0. /\ Store /\ call \in [Calls -> CallRow] /\ (\A c \in Calls : Good(call[c]))
      /\ CanceledOwesNothing /\ FeeBuysOneListing
  BY DEF Inv, Store, Calling
<1>1. ASSUME NEW c \in Calls, NEW b \in Worlds, NEW h \in BOOLEAN,
             NEW t \in Txs \cup {None}, Activate(c, b, h, t)
      PROVE  Sound
  <2>1. Moves(c)
    BY <1>0, <1>1, BeginsGood, WorldAssumption
  <2>2. UNCHANGED Tables
    BY <1>1 DEF Activate, Tables
  <2> QED
    BY <2>1, <2>2, QuietSteps
<1>2. ASSUME NEW d \in Drafts, OpenDraft(d) \/ CancelDraft(d) PROVE Sound
  <2>1. UNCHANGED call
    BY <1>2 DEF OpenDraft, CancelDraft, feeVars
  <2> QED
    BY <1>0, <1>2, <2>1, DraftsKeep, KeepingSteps
<1>3. ASSUME NEW d \in Drafts, CityLists(d) \/ CityChanges(d) PROVE Sound
  <2>1. UNCHANGED <<chain, listing, feeStore, draft, call>>
    BY <1>3 DEF CityLists, CityChanges, feeVars
  <2>2. offer' \in [Drafts -> Phases]
    BY <1>0, <1>3 DEF CityLists, CityChanges, Store, TablesOK, Phases
  <2> QED
    BY <1>0, <2>1, <2>2, TablesStay, KeepingSteps
<1>4. ASSUME NEW id \in Ids, WithdrawWorld(id) PROVE Sound
  <2>1. RowTurns(id)
    BY <1>0, <1>4, OfficeTurns
  <2>2. UNCHANGED call
    BY <1>4 DEF WithdrawWorld
  <2> QED
    BY <1>0, <2>1, <2>2, RowKeeps, KeepingSteps
<1>5. ASSUME NEW c \in Calls, Of(c, Worlds), WorldStep(c) PROVE Sound
  <2>0. call[c].body \in Worlds
    BY <1>5 DEF Of
  <2>1. CASE \/ ReadDraft(c) \/ WorldKeeperX402(c) \/ WorldSeedOrPay(c)
             \/ WorldReadSaved(c) \/ WorldReadKept(c) \/ FetchOffer(c)
             \/ WorldChooseMethod(c) \/ WorldConfirm(c)
             \/ RereadFee(c, "refused") /\ UNCHANGED worldVars
    <3>1. Moves(c)
      BY <1>0, <1>5, <2>1, ReadDraftGood, WorldKeeperGood, WorldReadSavedGood,
         WorldReadKeptGood, FetchOfferGood, ChooseMethodGood, WorldConfirmGood,
         RereadFeeGood
    <3>2. UNCHANGED Tables
      BY <2>1 DEF ReadDraft, WorldKeeperX402, WorldSeedOrPay, WorldReadSaved,
         WorldReadKept, FetchOffer, WorldChooseMethod, WorldConfirm, RereadFee, Tables
    <3> QED
      BY <3>1, <3>2, QuietSteps
  <2>2. CASE WorldInsertDirect(c) \/ WorldInsertX402(c) \/ WorldInsertSeed(c)
    BY <2>0, <2>2, WorldInsertSteps
  <2>3. CASE WorldReserve(c)
    <3>1. Payable(draft[DraftOf[call[c].body]]) \in BOOLEAN
      BY DEF Payable
    <3> QED
      BY <2>3, <3>1, ReserveSteps DEF WorldReserve
  <2> QED
    BY <1>5, <2>1, <2>2, <2>3 DEF WorldStep
<1> QED
  BY <1>1, <1>2, <1>3, <1>4, <1>5 DEF WorldNext

---------------------------------------------------------------------------
(* The invariant.                                                          *)

LEMMA InitInv == Init => Inv
<1> SUFFICES ASSUME Init PROVE Inv
  OBVIOUS
<1>0. /\ now = 1 /\ fin = 0 /\ mined = [t \in Txs |-> 0]
      /\ attempt = [b \in Bodies |-> NoAttempt]
      /\ x402 = [b \in Bodies |-> NoCustody]
      /\ fee = [t \in Txs |-> None] /\ uses = [t \in Txs |-> None]
      /\ call = [c \in Calls |-> IdleCall]
      /\ listing = [id \in Ids |-> NoRow]
      /\ draft = [d \in Drafts |-> NoDraft] /\ offer = [d \in Drafts |-> "none"]
  BY DEF Init, FeeInit, ListingInit, WorldInit
<1>1. ChainOK
  BY <1>0, Basics, FeeAssumption DEF ChainOK, Time
<1>2. TablesOK
  BY <1>0, Basics DEF TablesOK, Owners, Phases
<1>3. Unlisted = Ids
  BY <1>0 DEF Unlisted
<1>4. Rows
  <2>1. \A w \in Worlds : w \in Bodies
    BY WorldAssumption
  <2> QED
    BY <1>0, <1>3, <2>1, Names DEF Rows, NoAttempt, NoCustody, NoDraft, NoRow
<1>5. FeeBuysOneListing
  BY <1>0, <1>3 DEF FeeBuysOneListing, NoAttempt
<1>6. CanceledOwesNothing
  BY <1>0, WorldAssumption DEF CanceledOwesNothing, NoDraft
<1>7. Calling
  <2>1. Good(IdleCall)
    BY Basics DEF Good, MemoryOK, Knowing, Remembers, IdleCall, FeeLabels
  <2> QED
    BY <1>0, <2>1, Basics DEF Calling
<1> QED
  BY <1>1, <1>2, <1>4, <1>5, <1>6, <1>7 DEF Inv

LEMMA Steps == Inv /\ [Next]_vars => Sound
<1>1. CASE Inv /\ ArtifactNext /\ UNCHANGED worldVars
  BY <1>1, ArtifactSteps
<1>2. CASE Inv /\ WorldNext
  BY <1>2, WorldSteps
<1>3. CASE Inv /\ Around /\ UNCHANGED worldVars
  BY <1>3, AroundSteps
<1>4. CASE Inv /\ UNCHANGED vars
  BY <1>4, QuietSteps DEF vars, feeVars, Tables
<1> QED
  BY <1>1, <1>2, <1>3, <1>4 DEF Next

LEMMA StepInv == Inv /\ [Next]_vars => Inv'
BY Steps DEF Sound, Keeps, Inv

LEMMA InvHolds == Spec => []Inv
BY InitInv, StepInv, PTL DEF Spec

---------------------------------------------------------------------------
(* The theorems.                                                           *)

\* Every table and every answer has its type: the constraints of the migrations
\* hold in whatever order requests, custody and the chain interleave.
THEOREM TypeCorrect == Spec => []TypeOK
<1>1. Inv => TypeOK
  BY DEF Inv, ChainOK, TablesOK, Calling, CallRow, TypeOK
<1> QED
  BY <1>1, InvHolds, PTL

\* Each listing has the one fee it was listed with, a finalized transfer that
\* payment_uses gives to it alone, and a free listing none.
THEOREM OneFeeOneListing == Spec => []FeeBuysOneListing
<1>1. Inv => FeeBuysOneListing
  BY DEF Inv
<1> QED
  BY <1>1, InvHolds, PTL

\* What a request answered stays true: the listing it named is the merchant's,
\* and a fee under review is decided.
THEOREM AnswersStayTrue == Spec => []AnswersHold
<1>1. Inv => AnswersHold
  BY DEF Inv, Calling, Good, Knowing, AnswersHold
<1> QED
  BY <1>1, InvHolds, PTL

\* No draft of a world listing is canceled while a direct fee for it waits.
THEOREM NoFeeForACanceledDraft == Spec => []CanceledOwesNothing
<1>1. Inv => CanceledOwesNothing
  BY DEF Inv
<1> QED
  BY <1>1, InvHolds, PTL

\* A merchant whose fee is stored is neither asked for another nor listed
\* without it.
THEOREM NoFeeTwice == Spec => NoSecondFee
<1>1. Inv => \A c \in Calls : call[c].had => call[c].held # "seed"
  BY DEF Inv, Calling, Good, Knowing, Remembers
<1>2. Inv /\ [Next]_vars =>
        [\A c \in Calls : call[c].had =>
           /\ call'[c].answer # "challenge"
           /\ ~(call[c].held = "seed" /\ call'[c].answer = "listed")]_call
  BY <1>1, Steps DEF Sound, Asks
<1> QED
  BY <1>2, InvHolds, PTL DEF Spec, NoSecondFee

\* No edit and no later step changes the copy a buyer bought.
THEOREM SoldStaysAsListed == Spec => SoldAsListed
<1>1. Inv /\ [Next]_vars =>
        [\A id \in Ids : listing[id].sold
           => listing'[id].copy = listing[id].copy]_listing
  BY Steps DEF Sound, Keeps, Grows
<1> QED
  BY <1>1, InvHolds, PTL DEF Spec, SoldAsListed

---------------------------------------------------------------------------
(* Direct fees implement the ledger: a reservation claims, a listing pays, *)
(* a review refuses, and x402 is a rival.                                  *)

Payments == {Direct(b) : b \in Bodies}

Finals == {t \in Txs : Final(t)}

Owner == [t \in Txs |-> IF uses[t] \in {X402(b) : b \in Bodies} THEN Rival ELSE uses[t]]

Statuses == {"none", "payment_pending", "completed", "needs_review"}

Standings == [a \in Payments |-> Standing(attempt[a[2]])]

LEMMA InitLedger == Init => Ledger!Init
<1> SUFFICES ASSUME Init PROVE Ledger!Init
  OBVIOUS
<1>0. /\ mined = [t \in Txs |-> 0] /\ uses = [t \in Txs |-> None]
      /\ attempt = [b \in Bodies |-> NoAttempt]
  BY DEF Init, FeeInit
<1>1. Finals = {}
  BY <1>0 DEF Finals, Final
<1>2. Owner = [t \in Txs |-> None]
  BY <1>0, Names DEF Owner
<1>3. Standings = [a \in Payments |-> "open"]
  BY <1>0 DEF Standings, Standing, Payments, Direct, NoAttempt
<1> QED
  BY <1>1, <1>2, <1>3 DEF Ledger!Init, Finals, Owner, Standings, Payments

LEMMA StepLedger ==
  ASSUME Inv, [Next]_vars
  PROVE  [Ledger!Next]_(Ledger!vars)
<1>0. /\ Grows /\ Accounts /\ Rows /\ TablesOK /\ TablesOK' /\ ChainOK
  BY Steps DEF Sound, Keeps, Inv
<1>1. Finals \subseteq Finals' /\ Finals' \in SUBSET Txs
  BY <1>0 DEF Grows, Finals, Final
<1>2. UNCHANGED chain => Finals' = Finals
  BY DEF chain, Finals, Final
<1>s. \A b \in Bodies : attempt[b].status \in Statuses
  BY <1>0 DEF TablesOK, Attempt, Statuses
<1>3. ASSUME \A o \in Bodies : attempt'[o].status = attempt[o].status
      PROVE  Standings' = Standings
  <2>0. \A a \in Payments : /\ attempt'[a[2]].status = attempt[a[2]].status
                            /\ attempt[a[2]].status \in Statuses
    BY <1>3, <1>s DEF Payments, Direct
  <2>1. \A a \in Payments : Standing(attempt'[a[2]]) = Standing(attempt[a[2]])
    BY <2>0 DEF Standing, Statuses
  <2>2. Standings' = [a \in Payments |-> Standing(attempt'[a[2]])]
    BY DEF Standings
  <2> QED
    BY <2>1, <2>2 DEF Standings
<1>4. uses' = uses => Owner' = Owner
  BY DEF Owner
<1>5. CASE uses' = uses /\ \A o \in Bodies : attempt'[o].status = attempt[o].status
  BY <1>1, <1>3, <1>4, <1>5
     DEF Ledger!Next, Ledger!Finalize, Owner, Standings, Finals, Payments
<1>6. CASE /\ UNCHANGED <<chain, attempt>>
           /\ \E t \in Txs : \E u \in {Rival} \cup {X402(b) : b \in Bodies} :
                uses[t] = None /\ uses' = [uses EXCEPT ![t] = u]
  <2>1. PICK t \in Txs, u \in {Rival} \cup {X402(b) : b \in Bodies} :
          uses[t] = None /\ uses' = [uses EXCEPT ![t] = u]
    BY <1>6
  <2>2. Owner[t] = None /\ Owner' = [Owner EXCEPT ![t] = Rival]
    <3>1. None \notin {X402(b) : b \in Bodies}
      BY Names
    <3> QED
      BY <1>0, <2>1, <3>1 DEF Owner, TablesOK
  <2>3. Standings' = Standings /\ Finals' = Finals
    BY <1>2, <1>3, <1>6
  <2>4. Ledger!RivalClaim(t)
    BY <2>2, <2>3 DEF Ledger!RivalClaim, Owner, Standings, Finals, Payments
  <2> QED
    BY <2>4 DEF Ledger!Next
<1>7. ASSUME UNCHANGED chain, NEW b \in Bodies, NEW s, Turns(b, s),
             s \in {"payment_pending", "completed", "needs_review"}
      PROVE  /\ Standings' = [Standings EXCEPT ![Direct(b)] =
                  IF s = "payment_pending" THEN "pending"
                  ELSE IF s = "completed" THEN "paid" ELSE "refused"]
             /\ Standings[Direct(b)] = Standing(attempt[b])
             /\ Finals' = Finals /\ Direct(b) \in Payments
  <2> DEFINE v == IF s = "payment_pending" THEN "pending"
                  ELSE IF s = "completed" THEN "paid" ELSE "refused"
             d == Direct(b)
  <2>1. \A a \in Payments : /\ a[2] \in Bodies /\ (a = d <=> a[2] = b)
    BY DEF Payments, Direct
  <2>2. \A a \in Payments : attempt'[a[2]].status =
                            IF a = d THEN s ELSE attempt[a[2]].status
    BY <1>7, <2>1 DEF Turns
  <2>3. \A a \in Payments : Standing(attempt'[a[2]]) =
                            IF a = d THEN v ELSE Standing(attempt[a[2]])
    <3>1. \A a \in Payments : attempt[a[2]].status \in Statuses
      BY <1>s, <2>1
    <3> HIDE DEF d
    <3> QED
      BY <1>7, <2>2, <3>1 DEF Standing, Statuses
  <2>4. Standings' = [a \in Payments |-> Standing(attempt'[a[2]])]
    BY DEF Standings
  <2>5. d \in Payments /\ d[2] = b
    BY DEF Payments, Direct
  <2> HIDE DEF d, v
  <2>6. Standings' = [Standings EXCEPT ![d] = v]
    BY <2>3, <2>4 DEF Standings
  <2> QED
    BY <1>2, <1>7, <2>5, <2>6 DEF Standings, d, v
<1>8. ASSUME NEW b \in Bodies, UNCHANGED chain,
             attempt[b].status = "none", Turns(b, "payment_pending"),
             NEW t \in Txs, uses[t] = None, uses' = [uses EXCEPT ![t] = Direct(b)]
      PROVE  [Ledger!Next]_(Ledger!vars)
  <2>1. /\ Standings' = [Standings EXCEPT ![Direct(b)] = "pending"]
        /\ Standings[Direct(b)] = "open" /\ Finals' = Finals
        /\ Direct(b) \in Payments
    BY <1>7, <1>8 DEF Standing
  <2>2. Owner[t] = None /\ Owner' = [Owner EXCEPT ![t] = Direct(b)]
    <3> DEFINE X == {X402(o) : o \in Bodies}
               d == Direct(b)
    <3>1. None \notin X /\ d \notin X
      BY Names
    <3>2. Owner = [x \in Txs |-> IF uses[x] \in X THEN Rival ELSE uses[x]]
      BY DEF Owner
    <3>3. Owner' = [x \in Txs |-> IF uses'[x] \in X THEN Rival ELSE uses'[x]]
      BY DEF Owner
    <3>4. uses' = [uses EXCEPT ![t] = d]
      BY <1>8
    <3> HIDE DEF X, d
    <3>5. Owner[t] = None /\ Owner' = [Owner EXCEPT ![t] = d]
      BY <1>0, <1>8, <3>1, <3>2, <3>3, <3>4 DEF TablesOK
    <3> QED
      BY <3>5 DEF d
  <2>3. PICK a \in Payments : a = Direct(b)
    BY <2>1
  <2>4. Ledger!Claim(a, t)
    BY <2>1, <2>2, <2>3 DEF Ledger!Claim, Owner, Standings, Finals, Payments
  <2> QED
    BY <2>4 DEF Ledger!Next, Payments
<1>9. ASSUME NEW b \in Bodies, UNCHANGED chain, uses' = uses,
             attempt[b].status = "payment_pending", Turns(b, "completed"),
             Final(attempt[b].tx)
      PROVE  [Ledger!Next]_(Ledger!vars)
  <2>1. /\ Standings' = [Standings EXCEPT ![Direct(b)] = "paid"]
        /\ Standings[Direct(b)] = "pending" /\ Finals' = Finals
        /\ Direct(b) \in Payments
    BY <1>7, <1>9 DEF Standing
  <2>2. PICK a \in Payments, t \in Txs : a = Direct(b) /\ t = attempt[b].tx
    BY <1>0, <1>9, <2>1 DEF Rows
  <2>3. t \in Finals /\ Owner[t] = a
    <3>1. uses[t] = a /\ t \in Finals
      BY <1>0, <1>9, <2>2 DEF Rows, Finals
    <3>2. a \notin {X402(o) : o \in Bodies}
      BY <2>2, Names
    <3> QED
      BY <3>1, <3>2 DEF Owner
  <2>4. Ledger!Owns(a, t)
    BY <2>3 DEF Ledger!Owns, Owner
  <2>5. Ledger!Pay(a)
    BY <1>4, <1>9, <2>1, <2>2, <2>3, <2>4
       DEF Ledger!Pay, Owner, Standings, Finals, Payments
  <2> QED
    BY <2>5 DEF Ledger!Next, Payments
<1>10. ASSUME NEW b \in Bodies, UNCHANGED chain, uses' = uses,
              attempt[b].status = "payment_pending", Turns(b, "needs_review")
       PROVE  [Ledger!Next]_(Ledger!vars)
  <2>1. /\ Standings' = [Standings EXCEPT ![Direct(b)] = "refused"]
        /\ Standings[Direct(b)] = "pending" /\ Finals' = Finals
        /\ Direct(b) \in Payments
    BY <1>7, <1>10 DEF Standing
  <2>2. PICK a \in Payments : a = Direct(b)
    BY <2>1
  <2>3. Ledger!Refuse(a)
    BY <1>4, <1>10, <2>1, <2>2 DEF Ledger!Refuse, Owner, Standings, Finals, Payments
  <2> QED
    BY <2>3 DEF Ledger!Next, Payments
<1> QED
  BY <1>0, <1>5, <1>6, <1>8, <1>9, <1>10 DEF Accounts

\* Direct fees are one more channel of the ledger: a reservation claims its
\* transaction, a listing is paid by a final one, a review refuses, and an x402
\* fee is a rival.
THEOREM FeesImplementLedger == Spec => LedgerSpec
<1>1. Inv /\ [Next]_vars =>
        [UNCHANGED <<uses, attempt, {t \in Txs : Final(t)}>>
         \/ Ledger!Next]_(Ledger!vars)
  BY StepLedger
<1> QED
  BY <1>1, InitLedger, InvHolds, PTL DEF Spec, LedgerSpec
=============================================================================
