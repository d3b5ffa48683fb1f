------------------------- MODULE X402Custody_proofs -------------------------
(***************************************************************************)
(* Proofs about X402Custody, for every set of operations, proofs,          *)
(* transactions and requests: types and terms first, then ownership and    *)
(* finality, OneOwner, PaidIsFinal, HistoryKept and NoSecondInvitation.    *)
(***************************************************************************)
EXTENDS X402Custody, TLAPS

---------------------------------------------------------------------------
(* Type correctness.  It is inductive together with the fact that a        *)
(* request at work has an operation, and one that pays has a proof.        *)

Paying == {"custody", "anchor", "verify", "begin", "insert", "raced",
           "settle", "await", "record"}

RequestOK ==
  \A r \in Requests :
    /\ req[r].pc # "idle" => req[r].answer = "none"
    /\ req[r].pc # "idle" \/ req[r].answer # "none" => req[r].op \in Ops
    /\ req[r].pc \in Paying => req[r].proof \in Proofs
    /\ req[r].pc = "record" => req[r].tx \in Txs
    /\ req[r].pc = "chain" => req[r].row.tx \in Txs

Typed == TypeOK /\ RequestOK

LEMMA InitTyped == Init => Typed
BY CustodyAssumption
   DEF Init, Typed, TypeOK, RequestOK, Time, Row, NoRow, Req, IdleReq, Facts,
       NoFacts, Labels, Answers, Paying

LEMMA MoveTyped ==
  ASSUME Typed, NEW r \in Requests, NEW x \in Req,
         req' = [req EXCEPT ![r] = x],
         x.pc # "idle" => x.answer = "none",
         x.pc # "idle" \/ x.answer # "none" => x.op \in Ops,
         x.pc \in Paying => x.proof \in Proofs,
         x.pc = "record" => x.tx \in Txs,
         x.pc = "chain" => x.row.tx \in Txs
  PROVE  req' \in [Requests -> Req] /\ RequestOK'
BY DEF Typed, TypeOK, RequestOK

LEMMA GotoTyped ==
  ASSUME Typed, NEW r \in Requests, NEW label \in Labels \ {"chain"},
         Goto(r, label), req[r].pc # "idle",
         label \in Paying => req[r].proof \in Proofs,
         label = "record" => req[r].tx \in Txs
  PROVE  req' \in [Requests -> Req] /\ RequestOK'
BY DEF Typed, TypeOK, RequestOK, Goto, Req, Paying

LEMMA NoRowTyped == NoRow \in Row /\ IdleReq \in Req
<1>1. 0 \in Time
  BY CustodyAssumption DEF Time
<1>2. NoRow \in Row
  BY <1>1 DEF NoRow, Row
<1>3. NoFacts \in Facts
  BY <1>1 DEF NoFacts, Facts
<1> QED
  BY <1>1, <1>2, <1>3 DEF IdleReq, Req, Labels, Answers

LEMMA ReplyTyped ==
  ASSUME Typed, NEW r \in Requests, NEW x \in Answers, Reply(r, x),
         req[r].pc # "idle"
  PROVE  req' \in [Requests -> Req] /\ RequestOK'
<1> DEFINE y == [IdleReq EXCEPT !.op = req[r].op, !.answer = x]
<1>1. req[r].op \in Ops
  BY DEF Typed, RequestOK
<1>2. y \in Req
  BY <1>1, NoRowTyped DEF Req
<1>3. y.pc = "idle" /\ y.op \in Ops
  BY <1>1 DEF IdleReq
<1>4. req' = [req EXCEPT ![r] = y]
  BY DEF Reply
<1> HIDE DEF y
<1> QED
  BY <1>2, <1>3, <1>4, MoveTyped DEF Paying

LEMMA ClassifyTyped ==
  ASSUME Typed, NEW r \in Requests, NEW a \in Row, Classify(r, a),
         req[r].pc # "idle"
  PROVE  req' \in [Requests -> Req] /\ RequestOK'
<1>1. CASE a.tx # None /\ a.status = "settled"
  <2>1. a.tx \in Txs
    BY <1>1 DEF Row
  <2> QED
    BY <1>1, <2>1 DEF Typed, TypeOK, RequestOK, Classify, Req, Labels, Paying
<1>2. CASE ~(a.tx # None /\ a.status = "settled")
  BY <1>2, ReplyTyped DEF Classify, ReplyStored, Answers
<1> QED BY <1>1, <1>2

LEMMA ResumeTyped ==
  ASSUME Typed, NEW r \in Requests, NEW a \in Row, Resume(r, a),
         req[r].pc # "idle"
  PROVE  req' \in [Requests -> Req] /\ RequestOK'
<1>1. CASE a.tx = None /\ a.status = "settling"
  BY <1>1 DEF Typed, TypeOK, RequestOK, Resume, Req, Labels, Paying
<1>2. CASE ~(a.tx = None /\ a.status = "settling")
  BY <1>2, ClassifyTyped DEF Resume
<1> QED BY <1>1, <1>2

\* One step of one request.
LEMMA ArriveTyped ==
  ASSUME Typed, NEW r \in Requests, Arrive(r)
  PROVE  Typed'
<1>1. PICK o \in Ops, p \in Proofs \cup {None} : Start(r, o, p)
  BY DEF Arrive
<1> DEFINE y == [IdleReq EXCEPT !.pc = "resume", !.op = o,
                   !.proof = p, !.start = now, !.had = Exists(o)]
<1>2. y \in Req
  BY NoRowTyped DEF Typed, TypeOK, Req, Labels, Exists
<1>3. /\ req' = [req EXCEPT ![r] = y]
      /\ y.pc = "resume" /\ y.op \in Ops /\ y.answer = "none"
  BY <1>1 DEF Start, IdleReq
<1> HIDE DEF y
<1>4. req' \in [Requests -> Req] /\ RequestOK'
  BY <1>2, <1>3, MoveTyped DEF Paying
<1> QED
  BY <1>1, <1>4 DEF Start, Typed, TypeOK

LEMMA BindTyped ==
  ASSUME Typed, NEW r \in Requests, Bind(r)
  PROVE  Typed'
<1> DEFINE o == req[r].op
<1> DEFINE reqTyped == req' \in [Requests -> Req] /\ RequestOK'
<1>1. req[r].pc # "idle" /\ o \in Ops
  BY DEF Bind, ReadSaved, ReadCustody, ReadHead, Verify, BeginRead,
         InsertAttempt, RacedRead, Typed, RequestOK
<1>2. \A x \in Ops : attempt[x] \in Row
  BY DEF Typed, TypeOK
<1>3. ASSUME req' \in [Requests -> Req] /\ RequestOK',
             UNCHANGED <<now, fin, mined, attempt, uses, sent>>
      PROVE  Typed'
  BY <1>3 DEF Typed, TypeOK
<1>4. ASSUME UseExisting(r) PROVE reqTyped
  <2>1. PICK x \in Ops : IF MatchesTerms(r, x) THEN Resume(r, attempt[x])
                                               ELSE Reply(r, "conflict")
    BY <1>1, <1>4 DEF UseExisting, Owners
  <2> QED
    BY <1>1, <1>2, <2>1, ResumeTyped, ReplyTyped DEF Answers
<1>5. CASE ReadSaved(r)
  <2>1. CASE Resume(r, attempt[o])
    BY <1>1, <1>2, <1>3, <1>5, <2>1, ResumeTyped DEF ReadSaved
  <2>2. CASE req[r].proof # None /\ Goto(r, "custody")
    <3>1. req[r].proof \in Proofs
      BY <2>2 DEF Typed, TypeOK, Req
    <3> QED
      BY <1>1, <1>3, <1>5, <2>2, <3>1, GotoTyped DEF ReadSaved, Labels
  <2>3. CASE Reply(r, "challenge")
    BY <1>1, <1>3, <1>5, <2>3, ReplyTyped DEF ReadSaved, Answers
  <2> QED
    BY <1>5, <2>1, <2>2, <2>3 DEF ReadSaved
<1>6. CASE ReadCustody(r)
  <2>1. req[r].proof \in Proofs
    BY <1>6 DEF ReadCustody, Typed, RequestOK, Paying
  <2>2. CASE Goto(r, "anchor")
    BY <1>1, <1>3, <1>6, <2>1, <2>2, GotoTyped DEF ReadCustody, Labels
  <2>3. CASE \E x \in Answers : Reply(r, x)
    BY <1>1, <1>3, <1>6, <2>3, ReplyTyped DEF ReadCustody
  <2>4. CASE Resume(r, attempt[o])
    BY <1>1, <1>2, <1>3, <1>6, <2>4, ResumeTyped DEF ReadCustody
  <2> QED
    BY <1>6, <2>2, <2>3, <2>4 DEF ReadCustody, Answers
<1>7. CASE ReadHead(r)
  <2> DEFINE y == [req[r] EXCEPT !.pc = "verify", !.block = now]
  <2>1. y \in Req /\ y.pc = "verify" /\ y.op = o /\ y.proof = req[r].proof
        /\ y.answer = "none"
    BY <1>1 DEF RequestOK, Typed, TypeOK, Req, Labels
  <2>2. req[r].proof \in Proofs /\ req' = [req EXCEPT ![r] = y]
    BY <1>7 DEF ReadHead, Typed, RequestOK, Paying, TypeOK
  <2> HIDE DEF y
  <2> QED
    BY <1>1, <1>3, <1>7, <2>1, <2>2, MoveTyped DEF ReadHead, Paying
<1>8. CASE Verify(r)
  <2>1. req[r].proof \in Proofs
    BY <1>8 DEF Verify, Typed, RequestOK, Paying
  <2> QED
    BY <1>1, <1>3, <1>8, <2>1, GotoTyped, ReplyTyped
       DEF Verify, Labels, Answers
<1>9. CASE BeginRead(r)
  <2>1. req[r].proof \in Proofs
    BY <1>9 DEF BeginRead, Typed, RequestOK, Paying
  <2> QED
    BY <1>1, <1>3, <1>4, <1>9, <2>1, GotoTyped DEF BeginRead, Labels
<1>10. CASE InsertAttempt(r)
  <2>1. req[r].proof \in Proofs
    BY <1>10 DEF InsertAttempt, Typed, RequestOK, Paying
  <2>2. NewRow(r) \in Row
    BY <2>1, NoRowTyped DEF NewRow, Row, Typed, TypeOK, Req
  <2>3. CASE Owners(o, req[r].proof) = {}
    <3> DEFINE y == [req[r] EXCEPT !.pc = "settle", !.row = NewRow(r)]
    <3>1. y \in Req /\ y.pc = "settle" /\ y.op = o /\ y.proof = req[r].proof
          /\ y.answer = "none"
      BY <1>1, <2>2 DEF RequestOK, Typed, TypeOK, Req, Labels
    <3>2. req' = [req EXCEPT ![r] = y]
      BY <1>10, <2>3 DEF InsertAttempt, Typed, TypeOK
    <3> HIDE DEF y
    <3>3. reqTyped
      BY <1>1, <2>1, <3>1, <3>2, MoveTyped DEF Paying
    <3>4. attempt' \in [Ops -> Row]
      BY <1>10, <2>2, <2>3 DEF InsertAttempt, Typed, TypeOK
    <3> QED
      BY <1>10, <3>3, <3>4 DEF InsertAttempt, Typed, TypeOK
  <2>4. CASE Owners(o, req[r].proof) # {}
    BY <1>1, <1>3, <1>10, <2>1, <2>4, GotoTyped DEF InsertAttempt, Labels
  <2> QED
    BY <2>3, <2>4
<1>11. CASE RacedRead(r)
  BY <1>3, <1>4, <1>11 DEF RacedRead
<1> QED
  BY <1>5, <1>6, <1>7, <1>8, <1>9, <1>10, <1>11 DEF Bind

LEMMA SettleTyped ==
  ASSUME Typed, NEW r \in Requests, Settle(r)
  PROVE  Typed'
<1> DEFINE o == req[r].op
           t == req[r].tx
           reqTyped == req' \in [Requests -> Req] /\ RequestOK'
<1>1. req[r].pc # "idle" /\ o \in Ops /\ attempt[o] \in Row
  BY DEF Settle, CallSettle, SettleAnswers, SettleInconclusive, HoldForReview,
         HoldReread, RecordSettlement, Typed, RequestOK, TypeOK
<1>2. ASSUME reqTyped, UNCHANGED <<now, fin, mined, attempt, uses, sent>>
      PROVE  Typed'
  BY <1>2 DEF Typed, TypeOK
<1>3. ASSUME NEW b \in Row, reqTyped,
             attempt' = [attempt EXCEPT ![o] = b],
             uses' = uses \/ uses' = [uses EXCEPT ![t] = o],
             UNCHANGED <<now, fin, mined, sent>>
      PROVE  Typed'
  BY <1>1, <1>3 DEF Typed, TypeOK
<1>4. CASE CallSettle(r)
  <2>1. req[r].proof \in Proofs /\ reqTyped
    BY <1>1, <1>4, GotoTyped
       DEF CallSettle, Typed, RequestOK, Paying, Labels
  <2>2. sent' \in [Ops \X Proofs -> Nat]
    <3> DEFINE x == <<o, req[r].proof>>
               n == sent[x] + 1
    <3>1. x \in Ops \X Proofs
      BY <1>1, <2>1
    <3>2. n \in Nat
      BY <3>1 DEF Typed, TypeOK
    <3>3. sent' = [sent EXCEPT ![x] = n]
      BY <1>4 DEF CallSettle
    <3> HIDE DEF x, n
    <3> QED
      BY <3>1, <3>2, <3>3 DEF Typed, TypeOK
  <2> QED
    BY <1>4, <2>1, <2>2 DEF CallSettle, Typed, TypeOK
<1>5. ASSUME NEW s \in Txs, SettleAnswers(r, s)
      PROVE  Typed'
  <2> DEFINE y == [req[r] EXCEPT !.pc = "record", !.tx = s]
  <2>1. y \in Req /\ y.pc = "record" /\ y.op = o /\ y.proof = req[r].proof
        /\ y.tx = s /\ y.answer = "none"
    BY <1>1 DEF RequestOK, Typed, TypeOK, Req, Labels
  <2>2. req[r].proof \in Proofs /\ req' = [req EXCEPT ![r] = y]
    BY <1>5 DEF SettleAnswers, Typed, RequestOK, Paying, TypeOK
  <2> HIDE DEF y
  <2> QED
    BY <1>1, <1>2, <1>5, <2>1, <2>2, MoveTyped DEF SettleAnswers, Paying
<1>6. CASE SettleInconclusive(r)
  BY <1>1, <1>2, <1>6, GotoTyped DEF SettleInconclusive, Labels, Paying
<1>7. CASE HoldForReview(r)
  <2>1. CASE attempt[o].status = "settling"
    <3> DEFINE b == [attempt[o] EXCEPT !.status = "needs_review",
                                       !.review = "uncertain"]
    <3>1. b \in Row /\ attempt' = [attempt EXCEPT ![o] = b]
      BY <1>1, <1>7, <2>1 DEF HoldForReview, Row, Typed, TypeOK
    <3>2. reqTyped
      BY <1>1, <1>7, <2>1, ReplyTyped
         DEF HoldForReview, ReplyStored, Answers
    <3> QED
      BY <1>3, <1>7, <2>1, <3>1, <3>2 DEF HoldForReview
  <2>2. CASE attempt[o].status # "settling"
    BY <1>1, <1>2, <1>7, <2>2, GotoTyped DEF HoldForReview, Labels, Paying
  <2> QED
    BY <2>1, <2>2
<1>8. CASE HoldReread(r)
  BY <1>1, <1>2, <1>8, ClassifyTyped, ReplyTyped
     DEF HoldReread, ReplyStored, Answers
<1>9. CASE RecordSettlement(r)
  <2>1. t \in Txs
    BY <1>9 DEF RecordSettlement, Typed, RequestOK
  <2>2. Claimed(attempt[o], t) \in Row /\ Taken(attempt[o], t) \in Row
    BY <1>1, <2>1 DEF Claimed, Taken, Row
  <2>3. CASE Reply(r, "unavailable") /\ UNCHANGED <<attempt, uses>>
    BY <1>1, <1>2, <1>9, <2>3, ReplyTyped DEF RecordSettlement, Answers
  <2>4. CASE /\ attempt' = [attempt EXCEPT ![o] = Claimed(attempt[o], t)]
             /\ uses' = [uses EXCEPT ![t] = o]
             /\ Classify(r, Claimed(attempt[o], t))
    BY <1>1, <1>3, <1>9, <2>2, <2>4, ClassifyTyped DEF RecordSettlement
  <2>5. CASE /\ attempt' = [attempt EXCEPT ![o] = Taken(attempt[o], t)]
             /\ Classify(r, Taken(attempt[o], t))
             /\ UNCHANGED uses
    BY <1>1, <1>3, <1>9, <2>2, <2>5, ClassifyTyped DEF RecordSettlement
  <2> QED
    BY <1>9, <2>3, <2>4, <2>5 DEF RecordSettlement
<1> QED
  BY <1>4, <1>5, <1>6, <1>7, <1>8, <1>9 DEF Settle

LEMMA ConfirmTyped ==
  ASSUME Typed, NEW r \in Requests, Confirm(r)
  PROVE  Typed'
<1> DEFINE o == req[r].op
           reqTyped == req' \in [Requests -> Req] /\ RequestOK'
<1>1. req[r].pc # "idle" /\ o \in Ops /\ attempt[o] \in Row
  BY DEF Confirm, ReadChain, ReadStored, RecordFinality, FinalityReread,
         Typed, RequestOK, TypeOK
<1>2. ASSUME reqTyped, UNCHANGED <<now, fin, mined, attempt, uses, sent>>
      PROVE  Typed'
  BY <1>2 DEF Typed, TypeOK
<1>3. ASSUME NEW l \in Labels \ (Paying \cup {"chain"}), NEW f \in Facts,
             req' = [req EXCEPT ![r] = [req[r] EXCEPT !.pc = l, !.facts = f]]
      PROVE  reqTyped
  <2> DEFINE y == [req[r] EXCEPT !.pc = l, !.facts = f]
  <2>1. y \in Req /\ y.pc = l /\ y.op = o /\ y.answer = "none"
    BY <1>1 DEF RequestOK, Typed, TypeOK, Req
  <2>2. req' = [req EXCEPT ![r] = y]
    BY <1>3
  <2> HIDE DEF y
  <2> QED
    BY <1>1, <2>1, <2>2, MoveTyped DEF Paying
<1>4. ASSUME NEW x \in Answers, ReplyStored(r, x)
      PROVE  reqTyped
  BY <1>1, <1>4, ReplyTyped DEF ReplyStored, Answers
<1>5. CASE ReadChain(r)
  <2> DEFINE u == req[r].row.tx
             f == [outcome |-> IF Pays[u] = AuthOf[req[r].row.proof]
                               THEN "verified" ELSE "needs_review",
                   block |-> mined[u], at |-> now]
  <2>1. f \in Facts
    BY <1>5 DEF ReadChain, Facts, Typed, TypeOK, RequestOK
  <2>2. CASE mined[u] # 0 /\ mined[u] <= fin
    <3>1. req' = [req EXCEPT ![r] =
                    [req[r] EXCEPT !.pc = "stored", !.facts = f]]
      BY <1>5, <2>2 DEF ReadChain, Typed, TypeOK
    <3> HIDE DEF f
    <3> QED
      BY <1>2, <1>3, <1>5, <2>1, <3>1 DEF ReadChain, Labels, Paying
  <2> QED
    BY <1>2, <1>4, <1>5, <2>2 DEF ReadChain, Answers
<1>6. CASE ReadStored(r)
  <2> DEFINE f == Anchored(attempt[o], req[r].facts)
  <2>1. f \in Facts
    BY DEF Anchored, Facts, Typed, TypeOK, Req
  <2>2. CASE attempt[o].status = "settled"
    <3>1. req' = [req EXCEPT ![r] =
                    [req[r] EXCEPT !.pc = "finalize", !.facts = f]]
      BY <1>6, <2>2 DEF ReadStored, Typed, TypeOK
    <3> HIDE DEF f
    <3> QED
      BY <1>2, <1>3, <1>6, <2>1, <3>1 DEF ReadStored, Labels, Paying
  <2> QED
    BY <1>1, <1>2, <1>4, <1>6, <2>2, ClassifyTyped DEF ReadStored, Answers
<1>7. CASE RecordFinality(r)
  <2> DEFINE a == Finalized(attempt[o], req[r].facts)
  <2>1. a \in Row
    BY <1>1 DEF Finalized, Row, Typed, TypeOK, Req, Facts
  <2>2. CASE attempt[o].status = "settled"
    <3> HIDE DEF a
    <3>1. attempt' = [attempt EXCEPT ![o] = a] /\ Classify(r, a)
      BY <1>7, <2>2 DEF RecordFinality, a
    <3>2. reqTyped
      BY <1>1, <2>1, <3>1, ClassifyTyped
    <3> QED
      BY <1>7, <2>1, <3>1, <3>2 DEF RecordFinality, Typed, TypeOK
  <2> QED
    BY <1>1, <1>2, <1>7, <2>2, GotoTyped DEF RecordFinality, Labels, Paying
<1>8. CASE FinalityReread(r)
  BY <1>1, <1>2, <1>4, <1>8, ClassifyTyped DEF FinalityReread, Answers
<1> QED
  BY <1>5, <1>6, <1>7, <1>8 DEF Confirm

LEMMA ChainTyped ==
  ASSUME Typed, Chain \/ (\E t \in Txs : RivalClaims(t))
  PROVE  Typed'
<1>1. now \in Nat /\ fin \in Nat /\ now <= MaxTime
  BY CustodyAssumption DEF Typed, TypeOK, Time
<1> QED
  BY <1>1, CustodyAssumption
     DEF Chain, Mine, Reorg, NewBlock, FinalizeBlock, RivalClaims, Typed,
         TypeOK, RequestOK, Time

LEMMA AbandonTyped ==
  ASSUME Typed, NEW r \in Requests, Abandon(r)
  PROVE  Typed'
<1>1. IdleReq \in Req /\ IdleReq.pc = "idle" /\ IdleReq.answer = "none"
  BY NoRowTyped DEF IdleReq
<1>2. req' \in [Requests -> Req] /\ RequestOK'
  BY <1>1, MoveTyped DEF Abandon, Paying
<1> QED
  BY <1>2 DEF Abandon, Typed, TypeOK

LEMMA StepTyped == Typed /\ [Next]_vars => Typed'
<1>1. CASE UNCHANGED vars
  BY <1>1 DEF vars, Typed, TypeOK, RequestOK
<1> QED
  BY <1>1, ArriveTyped, BindTyped, SettleTyped, ConfirmTyped, ChainTyped,
     AbandonTyped DEF Next

\* Every variable keeps its type: the rows of x402_payment_attempts, the owners
\* in payment_uses and what each request remembers.
THEOREM TypeCorrect == Spec => []TypeOK
<1>1. Typed => TypeOK
  BY DEF Typed
<1> QED
  BY <1>1, InitTyped, StepTyped, PTL DEF Spec

---------------------------------------------------------------------------
(* Money is asked for once.  SettleOnce says nothing of the request that   *)
(* is about to call /settle; the inductive invariant adds that it holds    *)
(* its operation's row alone, that the row is not paid for yet, and that   *)
(* no two rows share an authorization.                                     *)

StoredProof == \A o \in Ops : Exists(o) => attempt[o].proof \in Proofs

DistinctAuths ==
  \A o1, o2 \in Ops :
    Exists(o1) /\ Exists(o2) /\ AuthOf[attempt[o1].proof] = AuthOf[attempt[o2].proof]
      => o1 = o2

HoldsRow ==
  \A r \in Requests : req[r].pc \in Awaiting =>
    /\ Exists(req[r].op) /\ attempt[req[r].op].proof = req[r].proof
    /\ req[r].pc = "settle" => sent[<<req[r].op, req[r].proof>>] = 0
    /\ \A q \in Requests : req[q].pc \in Awaiting /\ req[q].op = req[r].op => q = r

AskedOnce ==
  \A o \in Ops, p \in Proofs :
    /\ sent[<<o, p>>] <= 1
    /\ sent[<<o, p>>] > 0 => Exists(o) /\ attempt[o].proof = p

Once == Typed /\ StoredProof /\ DistinctAuths /\ HoldsRow /\ AskedOnce

\* No request comes to /settle, and one that waits keeps its payment.
Calm ==
  \A r \in Requests : req'[r].pc \in Awaiting =>
    /\ req[r].pc \in Awaiting
    /\ req'[r].op = req[r].op /\ req'[r].proof = req[r].proof
    /\ req'[r].pc = "settle" => req[r].pc = "settle"

\* A step that neither binds a row nor calls /settle.
Quiet ==
  /\ UNCHANGED sent /\ Calm
  /\ \A o \in Ops : (Exists(o)' <=> Exists(o)) /\ attempt'[o].proof = attempt[o].proof

LEMMA QuietStep ==
  ASSUME Typed, [Next]_vars,
         ~\E r \in Requests : InsertAttempt(r) \/ CallSettle(r)
  PROVE  Quiet
<1> DEFINE still == attempt' = attempt /\ sent' = sent
<1>1. still /\ Calm => Quiet
  BY DEF Quiet, Exists
<1>2. ASSUME NEW r \in Requests, NEW x, x.pc \notin Awaiting, req' = [req EXCEPT ![r] = x]
      PROVE  Calm
  BY <1>2 DEF Calm, Typed, TypeOK
<1>3. ASSUME NEW r \in Requests, NEW x, Reply(r, x) PROVE Calm
  BY <1>3 DEF Reply, IdleReq, Calm, Awaiting, Typed, TypeOK, Req
<1>4. ASSUME NEW r \in Requests, NEW x, ReplyStored(r, x) PROVE Calm
  BY <1>3, <1>4 DEF ReplyStored
<1>5. ASSUME NEW r \in Requests, NEW a, Classify(r, a) PROVE Calm
  BY <1>4, <1>5 DEF Classify, Calm, Awaiting, Typed, TypeOK, Req
<1>6. ASSUME NEW r \in Requests, NEW a, Resume(r, a) PROVE Calm
  BY <1>5, <1>6 DEF Resume, Calm, Awaiting, Typed, TypeOK, Req
<1>7. ASSUME NEW r \in Requests, UseExisting(r) PROVE Calm
  BY <1>3, <1>6, <1>7 DEF UseExisting
<1>8. ASSUME NEW r \in Requests, NEW label, label \notin Awaiting,
             Goto(r, label)
      PROVE  Calm
  BY <1>8 DEF Goto, Calm, Typed, TypeOK, Req
<1>9. ASSUME NEW o \in Ops, NEW b, attempt' = [attempt EXCEPT ![o] = b],
             Exists(o), b.status # "none", b.proof = attempt[o].proof,
             sent' = sent, Calm
      PROVE  Quiet
  BY <1>9 DEF Quiet, Exists, Typed, TypeOK
<1>10. CASE UNCHANGED vars
  BY <1>1, <1>10 DEF Calm, vars
<1>11. ASSUME NEW r \in Requests, Arrive(r) PROVE Quiet
  <2> PICK o \in Ops, p \in Proofs \cup {None} : Start(r, o, p)
    BY <1>11 DEF Arrive
  <2> QED
    BY <1>1 DEF Start, IdleReq, Calm, Awaiting, Typed, TypeOK, Req
<1>12. ASSUME NEW r \in Requests, Bind(r) PROVE Quiet
  BY <1>1, <1>3, <1>6, <1>7, <1>8, <1>12
     DEF Bind, ReadSaved, ReadCustody, ReadHead, Verify, BeginRead, RacedRead,
         Calm, Awaiting, Typed, TypeOK, Req
<1>13. ASSUME NEW r \in Requests, Settle(r) PROVE Quiet
  <2>1. ASSUME NEW t \in Txs, SettleAnswers(r, t) PROVE Quiet
    BY <1>1, <2>1 DEF SettleAnswers, Calm, Awaiting, Typed, TypeOK, Req
  <2>2. CASE SettleInconclusive(r)
    BY <1>1, <1>8, <2>2 DEF SettleInconclusive, Awaiting
  <2>3. CASE HoldForReview(r)
    <3> DEFINE o == req[r].op
               b == [attempt[o] EXCEPT !.status = "needs_review",
                                       !.review = "uncertain"]
    <3>1. o \in Ops /\ attempt[o] \in Row
      BY <2>3 DEF HoldForReview, Typed, RequestOK, TypeOK
    <3>2. Calm /\ sent' = sent
      BY <1>4, <1>8, <2>3 DEF HoldForReview, Awaiting
    <3>3. CASE attempt[o].status = "settling"
      <4>1. attempt' = [attempt EXCEPT ![o] = b]
        BY <2>3, <3>3 DEF HoldForReview, Typed, TypeOK
      <4>2. b.status # "none" /\ b.proof = attempt[o].proof
        BY <3>1 DEF Row
      <4> HIDE DEF b
      <4> QED
        BY <1>9, <3>1, <3>2, <3>3, <4>1, <4>2 DEF Exists
    <3> QED
      BY <1>1, <2>3, <3>2, <3>3 DEF HoldForReview
  <2>4. CASE HoldReread(r)
    BY <1>1, <1>4, <1>5, <2>4 DEF HoldReread
  <2>5. CASE RecordSettlement(r)
    <3> DEFINE o == req[r].op
               a == Claimed(attempt[o], req[r].tx)
               b == Taken(attempt[o], req[r].tx)
    <3>1. o \in Ops /\ attempt[o] \in Row
      BY <2>5 DEF RecordSettlement, Typed, RequestOK, TypeOK
    <3>2. Calm /\ sent' = sent
      BY <1>3, <1>5, <1>8, <2>5 DEF RecordSettlement, Awaiting
    <3>3. /\ a.status # "none" /\ a.proof = attempt[o].proof
          /\ b.status # "none" /\ b.proof = attempt[o].proof
      BY <3>1 DEF Claimed, Taken, Row
    <3>4. CASE attempt' # attempt
      <4>1. Exists(o)
        BY <2>5, <3>4 DEF RecordSettlement, Exists
      <4>2. attempt' = [attempt EXCEPT ![o] = a] \/ attempt' = [attempt EXCEPT ![o] = b]
        BY <2>5, <3>4 DEF RecordSettlement
      <4> HIDE DEF a, b
      <4> QED
        BY <1>9, <3>1, <3>2, <3>3, <4>1, <4>2
    <3> QED
      BY <1>1, <3>2, <3>4
  <2> QED
    BY <1>13, <2>1, <2>2, <2>3, <2>4, <2>5 DEF Settle
<1>14. ASSUME NEW r \in Requests, Confirm(r) PROVE Quiet
  <2>1. CASE ReadChain(r)
    BY <1>1, <1>4, <2>1 DEF ReadChain, Calm, Awaiting, Typed, TypeOK, Req
  <2>2. CASE ReadStored(r)
    BY <1>1, <1>4, <1>5, <2>2 DEF ReadStored, Calm, Awaiting, Typed, TypeOK, Req
  <2>3. CASE RecordFinality(r)
    <3> DEFINE o == req[r].op
               b == Finalized(attempt[o], req[r].facts)
    <3>1. o \in Ops /\ attempt[o] \in Row /\ req[r].facts \in Facts
      BY <2>3 DEF RecordFinality, Typed, RequestOK, TypeOK, Req
    <3>2. Calm /\ sent' = sent
      BY <1>5, <1>8, <2>3 DEF RecordFinality, Awaiting
    <3>3. b.status # "none" /\ b.proof = attempt[o].proof
      BY <3>1 DEF Finalized, Row, Facts
    <3>4. CASE attempt[o].status = "settled"
      <4>1. attempt' = [attempt EXCEPT ![o] = b]
        BY <2>3, <3>4 DEF RecordFinality
      <4> HIDE DEF b
      <4> QED
        BY <1>9, <3>1, <3>2, <3>3, <3>4, <4>1 DEF Exists
    <3> QED
      BY <1>1, <2>3, <3>2, <3>4 DEF RecordFinality
  <2>4. CASE FinalityReread(r)
    BY <1>1, <1>4, <1>5, <2>4 DEF FinalityReread
  <2> QED
    BY <1>14, <2>1, <2>2, <2>3, <2>4 DEF Confirm
<1>15. ASSUME NEW r \in Requests, Abandon(r) PROVE Quiet
  BY <1>1, <1>15 DEF Abandon, IdleReq, Calm, Awaiting, Typed, TypeOK, Req
<1>16. CASE Chain \/ \E t \in Txs : RivalClaims(t)
  BY <1>1, <1>16 DEF Chain, Mine, Reorg, NewBlock, FinalizeBlock, RivalClaims, Calm
<1> QED
  BY <1>10, <1>11, <1>12, <1>13, <1>14, <1>15, <1>16 DEF Next

LEMMA InitOnce == Init => Once
BY InitTyped
   DEF Init, Once, StoredProof, DistinctAuths, HoldsRow, AskedOnce, Exists,
       NoRow, IdleReq, Awaiting

LEMMA QuietOnce ==
  ASSUME Once, Typed', Quiet
  PROVE  Once'
<1>1. StoredProof' /\ DistinctAuths'
  BY DEF Once, Quiet, StoredProof, DistinctAuths, Exists
<1>2. AskedOnce'
  BY DEF Once, Quiet, AskedOnce, Exists
<1>3. HoldsRow'
  BY DEF Once, Quiet, Calm, HoldsRow, Exists, Typed, RequestOK, Awaiting
<1> QED
  BY <1>1, <1>2, <1>3 DEF Once

\* The insert takes a free operation, proof and authorization, so it cannot
\* share any of them with a row, with a /settle made or with one about to be.
LEMMA InsertOnce ==
  ASSUME Once, Typed', NEW r \in Requests, InsertAttempt(r)
  PROVE  Once'
<1> DEFINE o == req[r].op
           p == req[r].proof
<1>1. o \in Ops /\ p \in Proofs /\ req[r].pc = "insert"
  BY DEF InsertAttempt, Once, Typed, RequestOK, Paying
<1>2. CASE Owners(o, p) = {}
  <2>1. /\ ~Exists(o)
        /\ \A x \in Ops : Exists(x) => AuthOf[attempt[x].proof] # AuthOf[p]
    BY <1>1, <1>2 DEF Owners
  <2>2. /\ \A x \in Ops : x # o => attempt'[x] = attempt[x]
        /\ attempt'[o].status = "settling" /\ attempt'[o].proof = p
    <3>1. attempt' = [attempt EXCEPT ![o] = NewRow(r)]
      BY <1>2 DEF InsertAttempt
    <3>2. NewRow(r).status = "settling" /\ NewRow(r).proof = p
      BY DEF NewRow, NoRow
    <3> QED
      BY <1>1, <3>1, <3>2 DEF Once, Typed, TypeOK
  <2>3. /\ \A q \in Requests : q # r => req'[q] = req[q]
        /\ req'[r].pc = "settle" /\ req'[r].op = o /\ req'[r].proof = p
    BY <1>2 DEF InsertAttempt, Once, Typed, TypeOK, Req
  <2>4. sent' = sent
    BY DEF InsertAttempt
  <2>5. StoredProof'
    BY <1>1, <2>2 DEF Once, StoredProof, Exists
  <2>6. DistinctAuths'
    BY <2>1, <2>2 DEF Once, DistinctAuths, Exists
  <2>7. AskedOnce'
    <3> SUFFICES ASSUME NEW x \in Ops, NEW y \in Proofs
                 PROVE  /\ sent'[<<x, y>>] <= 1
                        /\ sent'[<<x, y>>] > 0
                             => attempt'[x].status # "none" /\ attempt'[x].proof = y
      BY DEF AskedOnce, Exists
    <3>1. /\ sent[<<x, y>>] <= 1
          /\ sent[<<x, y>>] > 0 => Exists(x) /\ attempt[x].proof = y
      BY DEF Once, AskedOnce
    <3> QED
      BY <2>1, <2>2, <2>4, <3>1 DEF Exists
  <2>8. HoldsRow'
    <3>1. \A x \in Proofs : sent[<<o, x>>] = 0
      <4>1. \A x \in Proofs : sent[<<o, x>>] \in Nat
        BY <1>1 DEF Once, Typed, TypeOK
      <4> QED
        BY <1>1, <2>1, <4>1 DEF Once, AskedOnce
    <3>2. \A q \in Requests : req[q].pc \in Awaiting => req[q].op # o
      BY <2>1 DEF Once, HoldsRow
    <3>3. \A q \in Requests : req[q].pc \in Awaiting => req[q].op \in Ops
      BY DEF Once, Typed, RequestOK, Awaiting
    <3> QED
      BY <1>1, <2>2, <2>3, <2>4, <3>1, <3>2, <3>3 DEF Once, HoldsRow, Exists
  <2> QED
    BY <2>5, <2>6, <2>7, <2>8 DEF Once
<1>3. CASE Owners(o, p) # {}
  <2>1. Quiet
    BY <1>3 DEF InsertAttempt, Goto, Quiet, Calm, Awaiting, Exists, Once, Typed,
                TypeOK, Req
  <2> QED
    BY <2>1, QuietOnce
<1> QED
  BY <1>2, <1>3

LEMMA CallOnce ==
  ASSUME Once, Typed', NEW r \in Requests, CallSettle(r)
  PROVE  Once'
<1> DEFINE o == req[r].op
           p == req[r].proof
<1>1. o \in Ops /\ p \in Proofs /\ req[r].pc = "settle"
  BY DEF CallSettle, Once, Typed, RequestOK, Paying
<1>2. Exists(o) /\ attempt[o].proof = p /\ sent[<<o, p>>] = 0
  BY <1>1 DEF Once, HoldsRow, Awaiting
<1>3. /\ sent'[<<o, p>>] = 1
      /\ \A x \in Ops, y \in Proofs : <<x, y>> # <<o, p>> => sent'[<<x, y>>] = sent[<<x, y>>]
  BY <1>1, <1>2 DEF CallSettle, Once, Typed, TypeOK
<1>4. attempt' = attempt
  BY DEF CallSettle
<1>5. /\ \A q \in Requests : q # r => req'[q] = req[q]
      /\ req'[r].pc = "await" /\ req'[r].op = o /\ req'[r].proof = p
  BY DEF CallSettle, Goto, Once, Typed, TypeOK, Req
<1>6. StoredProof' /\ DistinctAuths'
  BY <1>4 DEF Once, StoredProof, DistinctAuths, Exists
<1>7. AskedOnce'
  <2> SUFFICES ASSUME NEW x \in Ops, NEW y \in Proofs
               PROVE  /\ sent'[<<x, y>>] <= 1
                      /\ sent'[<<x, y>>] > 0
                           => attempt'[x].status # "none" /\ attempt'[x].proof = y
    BY DEF AskedOnce, Exists
  <2>1. /\ sent[<<x, y>>] <= 1
        /\ sent[<<x, y>>] > 0 => Exists(x) /\ attempt[x].proof = y
    BY DEF Once, AskedOnce
  <2>2. CASE x = o /\ y = p
    BY <1>2, <1>3, <1>4, <2>2 DEF Exists
  <2>3. CASE <<x, y>> # <<o, p>>
    BY <1>3, <1>4, <2>1, <2>3 DEF Exists
  <2> QED
    BY <2>2, <2>3
<1>8. HoldsRow'
  <2>1. \A q \in Requests : req[q].pc \in Awaiting =>
           /\ req[q].op \in Ops /\ req[q].proof \in Proofs
           /\ q # r => req[q].op # o
    BY <1>1 DEF Once, HoldsRow, Typed, RequestOK, Paying, Awaiting
  <2> QED
    BY <1>1, <1>2, <1>3, <1>4, <1>5, <2>1 DEF Once, HoldsRow, Exists, Awaiting
<1> QED
  BY <1>6, <1>7, <1>8 DEF Once

LEMMA StepOnce == Once /\ [Next]_vars => Once'
<1> SUFFICES ASSUME Once, [Next]_vars PROVE Once'
  OBVIOUS
<1>1. Typed'
  BY StepTyped DEF Once
<1>2. CASE \E r \in Requests : InsertAttempt(r) \/ CallSettle(r)
  BY <1>1, <1>2, InsertOnce, CallOnce
<1>3. CASE ~\E r \in Requests : InsertAttempt(r) \/ CallSettle(r)
  BY <1>1, <1>3, QuietStep, QuietOnce DEF Once
<1> QED
  BY <1>2, <1>3

LEMMA OnceSettlesOnce == Once => SettleOnce
<1> SUFFICES ASSUME Once, NEW o1 \in Ops, NEW o2 \in Ops,
                    NEW p1 \in Proofs, NEW p2 \in Proofs
             PROVE  /\ sent[<<o1, p1>>] <= 1
                    /\ sent[<<o1, p1>>] > 0 => attempt[o1].proof = p1
                    /\ (sent[<<o1, p1>>] > 0 /\ sent[<<o2, p2>>] > 0
                        /\ (o1 = o2 \/ AuthOf[p1] = AuthOf[p2]))
                       => o1 = o2 /\ p1 = p2
  BY DEF SettleOnce
<1>1. /\ sent[<<o1, p1>>] <= 1
      /\ sent[<<o1, p1>>] > 0 => Exists(o1) /\ attempt[o1].proof = p1
      /\ sent[<<o2, p2>>] > 0 => Exists(o2) /\ attempt[o2].proof = p2
  BY DEF Once, AskedOnce
<1> QED
  BY <1>1 DEF Once, DistinctAuths

\* The facilitator is asked to move money at most once for an operation and for
\* an authorization, and only for the proof the operation's row stores.
THEOREM MoneyAskedOnce == Spec => []SettleOnce
BY InitOnce, StepOnce, OnceSettlesOnce, PTL DEF Spec

---------------------------------------------------------------------------
(* How rows change.  A transaction is stored at most once and only its     *)
(* verdict follows.                                                        *)

Unspent ==
  \A o \in Ops :
    /\ ~Exists(o) => attempt[o] = NoRow
    /\ attempt[o].status = "settling" => attempt[o].tx = None
    /\ attempt[o].status = "needs_review" => attempt[o].review # "none"

Owned == Typed /\ Unspent /\ OneOwner

\* The steps that write a row or an owner.
Writes(r) == InsertAttempt(r) \/ HoldForReview(r) \/ RecordSettlement(r)
             \/ RecordFinality(r)

LEMMA WriteStep ==
  ASSUME [Next]_vars,
         ~\E r \in Requests : Writes(r),
         ~\E t \in Txs : RivalClaims(t)
  PROVE  attempt' = attempt /\ uses' = uses
<1>1. CASE UNCHANGED vars
  BY <1>1 DEF vars
<1>2. ASSUME NEW r \in Requests, Arrive(r) \/ Abandon(r)
      PROVE  attempt' = attempt /\ uses' = uses
  BY <1>2 DEF Arrive, Start, Abandon
<1>3. ASSUME NEW r \in Requests, Bind(r)
      PROVE  attempt' = attempt /\ uses' = uses
  BY <1>3 DEF Bind, Writes, ReadSaved, ReadCustody, ReadHead, Verify,
              BeginRead, RacedRead
<1>4. ASSUME NEW r \in Requests, Settle(r)
      PROVE  attempt' = attempt /\ uses' = uses
  BY <1>4 DEF Settle, Writes, CallSettle, SettleAnswers, SettleInconclusive,
              HoldReread
<1>5. ASSUME NEW r \in Requests, Confirm(r)
      PROVE  attempt' = attempt /\ uses' = uses
  BY <1>5 DEF Confirm, Writes, ReadChain, ReadStored, FinalityReread
<1>6. CASE Chain
  BY <1>6 DEF Chain, Mine, Reorg, NewBlock, FinalizeBlock
<1> QED
  BY <1>1, <1>2, <1>3, <1>4, <1>5, <1>6 DEF Next

\* What each write does to the row of its operation.
Inserted(a, b) == a.status = "none" /\ b.status = "settling" /\ b.tx = None
Held(a, b) == /\ a.status = "settling"
              /\ b = [a EXCEPT !.status = "needs_review", !.review = "uncertain"]
Stored(a, b, t) == /\ a.status \in {"settling", "needs_review"} /\ a.tx = None
                   /\ \/ b = Claimed(a, t)
                      \/ b = Taken(a, t) /\ a.review = "none"
Decided(a, b, f) == a.status = "settled" /\ b = Finalized(a, f)

LEMMA WriteCases ==
  ASSUME Typed, NEW r \in Requests, Writes(r)
  PROVE  \/ attempt' = attempt /\ uses' = uses
         \/ \E b \in Row :
              LET o == req[r].op IN
              /\ o \in Ops
              /\ attempt' = [attempt EXCEPT ![o] = b]
              /\ \/ InsertAttempt(r) /\ Inserted(attempt[o], b) /\ uses' = uses
                 \/ HoldForReview(r) /\ Held(attempt[o], b) /\ uses' = uses
                 \/ /\ RecordSettlement(r) /\ Stored(attempt[o], b, req[r].tx)
                    /\ req[r].tx \in Txs
                    /\ \/ /\ b.status = "settled" /\ uses[req[r].tx] = None
                          /\ uses' = [uses EXCEPT ![req[r].tx] = o]
                       \/ b.status = "needs_review" /\ uses' = uses
                 \/ /\ RecordFinality(r) /\ uses' = uses
                    /\ Decided(attempt[o], b, req[r].facts)
<1> DEFINE o == req[r].op
           t == req[r].tx
<1> SUFFICES ASSUME ~(attempt' = attempt /\ uses' = uses)
             PROVE \E b \in Row :
                     /\ o \in Ops
                     /\ attempt' = [attempt EXCEPT ![o] = b]
                     /\ \/ InsertAttempt(r) /\ Inserted(attempt[o], b) /\ uses' = uses
                        \/ HoldForReview(r) /\ Held(attempt[o], b) /\ uses' = uses
                        \/ /\ RecordSettlement(r) /\ Stored(attempt[o], b, t)
                           /\ t \in Txs
                           /\ \/ /\ b.status = "settled" /\ uses[t] = None
                                 /\ uses' = [uses EXCEPT ![t] = o]
                              \/ b.status = "needs_review" /\ uses' = uses
                        \/ /\ RecordFinality(r) /\ uses' = uses
                           /\ Decided(attempt[o], b, req[r].facts)
  OBVIOUS
<1>1. o \in Ops /\ attempt[o] \in Row /\ req[r] \in Req
  BY DEF Writes, InsertAttempt, HoldForReview, RecordSettlement,
         RecordFinality, Typed, RequestOK, TypeOK
<1>2. CASE InsertAttempt(r)
  <2>1. Owners(o, req[r].proof) = {} /\ attempt' = [attempt EXCEPT ![o] = NewRow(r)]
        /\ uses' = uses
    BY <1>2 DEF InsertAttempt
  <2>2. attempt[o].status = "none"
    BY <1>1, <2>1 DEF Owners, Exists
  <2>3. NewRow(r) \in Row /\ NewRow(r).status = "settling" /\ NewRow(r).tx = None
    BY <1>1, NoRowTyped DEF NewRow, NoRow, Row, Req
  <2> HIDE DEF o
  <2> QED
    BY <1>1, <1>2, <2>1, <2>2, <2>3 DEF Inserted, o
<1>3. CASE HoldForReview(r)
  <2> DEFINE b == [attempt[o] EXCEPT !.status = "needs_review",
                                     !.review = "uncertain"]
  <2>1. b \in Row
    BY <1>1 DEF Row
  <2>2. attempt[o].status = "settling" /\ uses' = uses
        /\ attempt' = [attempt EXCEPT ![o] = b]
    BY <1>1, <1>3 DEF HoldForReview, Typed, TypeOK
  <2>3. Held(attempt[o], b)
    BY <2>2 DEF Held
  <2> HIDE DEF b
  <2> QED
    BY <1>1, <1>3, <2>1, <2>2, <2>3
<1>4. CASE RecordSettlement(r)
  <2> DEFINE a == Claimed(attempt[o], t)
             b == Taken(attempt[o], t)
  <2>1. t \in Txs
    BY <1>4 DEF RecordSettlement, Typed, RequestOK
  <2>2. /\ a \in Row /\ a.status = "settled"
        /\ b \in Row /\ b.status = "needs_review"
    BY <1>1, <2>1 DEF Claimed, Taken, Row
  <2>3. /\ attempt[o].status \in {"settling", "needs_review"}
        /\ attempt[o].tx = None
        /\ \/ /\ uses[t] = None /\ attempt' = [attempt EXCEPT ![o] = a]
              /\ uses' = [uses EXCEPT ![t] = o]
           \/ /\ attempt' = [attempt EXCEPT ![o] = b] /\ uses' = uses
              /\ attempt[o].review = "none"
    BY <1>4 DEF RecordSettlement
  <2>4. /\ Stored(attempt[o], a, t)
        /\ attempt[o].review = "none" => Stored(attempt[o], b, t)
    BY <2>3 DEF Stored
  <2> HIDE DEF a, b
  <2> QED
    BY <1>1, <1>4, <2>1, <2>2, <2>3, <2>4
<1>5. CASE RecordFinality(r)
  <2> DEFINE b == Finalized(attempt[o], req[r].facts)
  <2>1. b \in Row
    BY <1>1 DEF Finalized, Row, Req, Facts
  <2>2. attempt[o].status = "settled" /\ uses' = uses
        /\ attempt' = [attempt EXCEPT ![o] = b]
    BY <1>1, <1>5 DEF RecordFinality, Typed, TypeOK
  <2>3. Decided(attempt[o], b, req[r].facts)
    BY <2>2 DEF Decided
  <2> HIDE DEF b
  <2> QED
    BY <1>1, <1>5, <2>1, <2>2, <2>3
<1> QED
  BY <1>2, <1>3, <1>4, <1>5 DEF Writes

---------------------------------------------------------------------------
(* One transaction, one paid action.                                       *)

LEMMA InitOwned == Init => Owned
BY InitTyped, CustodyAssumption
   DEF Init, Owned, Unspent, OneOwner, Exists, NoRow

\* The states a write can leave a row in, each way of writing by itself.
LEMMA WrittenRow ==
  ASSUME NEW a \in Row, NEW b \in Row, NEW f \in Facts, NEW t,
         Inserted(a, b) \/ Held(a, b) \/ Stored(a, b, t) \/ Decided(a, b, f)
  PROVE  /\ b.status # "none" /\ (b.status = "settling" => b.tx = None)
         /\ b.status = "needs_review" => b.review # "none"
<1>1. CASE Inserted(a, b)
  BY <1>1 DEF Inserted
<1>2. CASE Held(a, b)
  <2>1. b.status = "needs_review" /\ b.review = "uncertain"
    BY <1>2 DEF Held, Row
  <2> QED
    BY <2>1
<1>3. CASE Stored(a, b, t)
  <2>1. \/ b.status = "settled"
        \/ b.status = "needs_review" /\ b.review = "taken"
    BY <1>3 DEF Stored, Claimed, Taken, Row
  <2> QED
    BY <2>1
<1>4. CASE Decided(a, b, f)
  <2>1. /\ b.status = f.outcome
        /\ f.outcome # "verified" => b.review = "contradicted"
    BY <1>4 DEF Decided, Finalized, Row
  <2>2. f.outcome \in {"verified", "needs_review"}
    BY DEF Facts
  <2> QED
    BY <2>1, <2>2
<1> QED
  BY <1>1, <1>2, <1>3, <1>4

LEMMA StepOwned == Owned /\ [Next]_vars => Owned'
<1> SUFFICES ASSUME Owned, [Next]_vars PROVE Unspent' /\ OneOwner'
  BY StepTyped DEF Owned
<1> USE CustodyAssumption
<1>1. ASSUME attempt' = attempt, uses' = uses
      PROVE  Unspent' /\ OneOwner'
  BY <1>1 DEF Owned, Unspent, OneOwner, Exists
<1>2. ASSUME NEW t \in Txs, RivalClaims(t)
      PROVE  Unspent' /\ OneOwner'
  <2>1. /\ attempt' = attempt /\ uses[t] = None /\ uses'[t] = Rival
        /\ \A s \in Txs : s # t => uses'[s] = uses[s]
    BY <1>2 DEF RivalClaims, Owned, Typed, TypeOK
  <2>2. Unspent'
    BY <2>1 DEF Owned, Unspent, Exists
  <2>3. OneOwner'
    BY <2>1 DEF Owned, OneOwner, Typed, TypeOK, Row
  <2> QED
    BY <2>2, <2>3
<1>3. ASSUME NEW r \in Requests, Writes(r), ~(attempt' = attempt /\ uses' = uses)
      PROVE  Unspent' /\ OneOwner'
  <2> DEFINE o == req[r].op
             t == req[r].tx
  <2>1. PICK b \in Row :
          /\ o \in Ops
          /\ attempt' = [attempt EXCEPT ![o] = b]
          /\ \/ Inserted(attempt[o], b) /\ uses' = uses
             \/ Held(attempt[o], b) /\ uses' = uses
             \/ /\ Stored(attempt[o], b, t) /\ t \in Txs
                /\ \/ /\ b.status = "settled" /\ uses[t] = None
                      /\ uses' = [uses EXCEPT ![t] = o]
                   \/ b.status = "needs_review" /\ uses' = uses
             \/ Decided(attempt[o], b, req[r].facts) /\ uses' = uses
    BY <1>3, WriteCases DEF Owned
  <2>2. /\ attempt'[o] = b /\ attempt[o] \in Row
        /\ \A x \in Ops : x # o => attempt'[x] = attempt[x]
    BY <2>1 DEF Owned, Typed, TypeOK
  <2>3. req[r].facts \in Facts
    BY DEF Owned, Typed, TypeOK, Req
  <2>4. /\ b.status # "none" /\ (b.status = "settling" => b.tx = None)
        /\ b.status = "needs_review" => b.review # "none"
    <3>1. \/ Inserted(attempt[o], b) \/ Held(attempt[o], b)
          \/ Stored(attempt[o], b, t) \/ Decided(attempt[o], b, req[r].facts)
      BY <2>1
    <3> QED
      BY <2>2, <2>3, <3>1, WrittenRow
  <2>5. Unspent'
    BY <2>1, <2>2, <2>4 DEF Owned, Unspent, Exists
  <2>6. CASE /\ Stored(attempt[o], b, t) /\ t \in Txs
             /\ \/ /\ b.status = "settled" /\ uses[t] = None
                   /\ uses' = [uses EXCEPT ![t] = o]
                \/ b.status = "needs_review" /\ uses' = uses
    <3>1. \A s \in Txs : uses[s] # o
      BY <2>1, <2>6 DEF Stored, Owned, OneOwner
    <3>2. b.tx = t
      BY <2>2, <2>6 DEF Stored, Claimed, Taken, Row
    <3>3. CASE b.status = "settled" /\ uses[t] = None /\ uses' = [uses EXCEPT ![t] = o]
      <4>1. uses'[t] = o /\ \A s \in Txs : s # t => uses'[s] = uses[s]
        BY <2>6, <3>3 DEF Owned, Typed, TypeOK
      <4>2. \A x \in Ops : attempt[x].status \in {"settled", "verified"} => attempt[x].tx \in Txs
        BY DEF Owned, OneOwner, Typed, TypeOK, Row
      <4> QED
        BY <2>1, <2>2, <2>5, <2>6, <3>1, <3>2, <3>3, <4>1, <4>2 DEF Owned, OneOwner
    <3>4. CASE b.status = "needs_review" /\ uses' = uses
      BY <2>1, <2>2, <2>5, <3>1, <3>4 DEF Owned, OneOwner
    <3> QED
      BY <2>6, <3>3, <3>4
  <2>7. CASE Inserted(attempt[o], b) /\ uses' = uses
    <3>1. attempt[o].tx = None
      BY <2>1, <2>7 DEF Inserted, Owned, Unspent, Exists, NoRow
    <3> QED
      BY <2>1, <2>2, <2>5, <2>7, <3>1 DEF Inserted, Owned, OneOwner
  <2>8. CASE (Held(attempt[o], b) \/ Decided(attempt[o], b, req[r].facts)) /\ uses' = uses
    <3>1. b.tx = attempt[o].tx
      BY <2>2, <2>8 DEF Held, Decided, Finalized, Row
    <3>2. b.status \in {"settled", "verified"} => attempt[o].status = "settled"
      BY <2>2, <2>8 DEF Held, Decided, Row
    <3> QED
      BY <2>1, <2>2, <2>5, <2>8, <3>1, <3>2 DEF Owned, OneOwner
  <2> QED
    BY <2>1, <2>6, <2>7, <2>8
<1> QED
  BY <1>1, <1>2, <1>3, WriteStep

\* A settled or verified operation owns its transaction in payment_uses, and
\* payment_uses names no operation that does not store that transaction.
THEOREM OneTransactionOneAction == Spec => []OneOwner
<1>1. Owned => OneOwner
  BY DEF Owned
<1> QED
  BY <1>1, InitOwned, StepOwned, PTL DEF Spec

---------------------------------------------------------------------------
(* The answer of /settle has one reader.                                   *)

Answering == Once /\ Owned /\ AnswersOwnRow

\* A step leaves the row of a waiting request without a transaction, except the
\* step by which that request stores it.
LEMMA StepAnswers ==
  ASSUME Answering, Once', Owned', [Next]_vars
  PROVE  AnswersOwnRow'
<1> SUFFICES ASSUME NEW r \in Requests, req'[r].pc \in Awaiting
             PROVE  LET o == req'[r].op IN
                    /\ attempt'[o].status \in {"settling", "needs_review"}
                    /\ attempt'[o].proof = req'[r].proof /\ attempt'[o].tx = None
                    /\ \A q \in Requests :
                         req'[q].pc \in Awaiting /\ req'[q].op = o => q = r
  BY DEF AnswersOwnRow
<1> DEFINE o == req'[r].op
<1>1. /\ attempt'[o].status # "none" /\ attempt'[o].proof = req'[r].proof
      /\ o \in Ops
      /\ \A q \in Requests : req'[q].pc \in Awaiting /\ req'[q].op = o => q = r
  BY DEF Once, HoldsRow, Exists, Typed, RequestOK, Awaiting
<1>2. ASSUME attempt'[o].status \in {"settling", "needs_review"},
             attempt'[o].tx = None
      PROVE  LET x == req'[r].op IN
             /\ attempt'[x].status \in {"settling", "needs_review"}
             /\ attempt'[x].proof = req'[r].proof /\ attempt'[x].tx = None
             /\ \A q \in Requests :
                  req'[q].pc \in Awaiting /\ req'[q].op = x => q = r
  BY <1>1, <1>2
<1>3. ASSUME NEW q \in Requests, InsertAttempt(q)
      PROVE  /\ attempt'[o].status \in {"settling", "needs_review"}
             /\ attempt'[o].tx = None
  <2>1. CASE q = r
    <3>1. req'[r].pc = "settle" /\ req'[r].op = req[r].op
          /\ attempt' = [attempt EXCEPT ![req[r].op] = NewRow(r)]
      BY <1>3, <2>1 DEF InsertAttempt, Goto, Awaiting, Answering, Owned, Typed, TypeOK, Req
    <3> QED
      BY <1>1, <3>1 DEF NewRow, NoRow, Answering, Owned, Typed, TypeOK
  <2>2. CASE q # r
    <3>1. req'[r] = req[r]
      BY <1>3, <2>2 DEF InsertAttempt, Goto, Answering, Owned, Typed, TypeOK
    <3>2. /\ req[q].op # o => attempt'[o] = attempt[o]
          /\ req[q].op = o => attempt[o].status = "none" \/ attempt'[o] = attempt[o]
      BY <1>1, <1>3 DEF InsertAttempt, Owners, Exists, Answering, Owned, Typed, TypeOK
    <3> QED
      BY <1>1, <3>1, <3>2 DEF Answering, AnswersOwnRow
  <2> QED
    BY <2>1, <2>2
<1>4. ASSUME ~\E q \in Requests : InsertAttempt(q)
      PROVE  /\ attempt'[o].status \in {"settling", "needs_review"}
             /\ attempt'[o].tx = None
  <2>1. /\ req[r].pc \in Awaiting /\ req[r].op = o
        /\ ~RecordSettlement(r)
    <3>1. CASE \E q \in Requests : CallSettle(q)
      <4>1. PICK q \in Requests : CallSettle(q)
        BY <3>1
      <4> QED
        BY <4>1 DEF CallSettle, RecordSettlement, Goto, Awaiting, Answering, Owned, Typed, TypeOK, Req
    <3>2. CASE ~\E q \in Requests : CallSettle(q)
      <4>1. Calm
        BY <1>4, <3>2, QuietStep DEF Quiet, Answering, Owned
      <4>2. ~RecordSettlement(r)
        <5>1. ASSUME RecordSettlement(r) PROVE req'[r].pc \notin Awaiting
          <6>1. ASSUME NEW x, Reply(r, x) PROVE req'[r].pc = "idle"
            BY <6>1 DEF Reply, IdleReq, Answering, Owned, Typed, TypeOK
          <6>2. ASSUME NEW a, Classify(r, a) PROVE req'[r].pc \in {"idle", "chain"}
            BY <6>1, <6>2 DEF Classify, ReplyStored, Answering, Owned, Typed,
               TypeOK, Req
          <6> QED
            BY <5>1, <6>1, <6>2 DEF RecordSettlement, Awaiting
        <5> QED
          BY <5>1
      <4> QED
        BY <4>1, <4>2 DEF Calm
    <3> QED
      BY <3>1, <3>2
  <2>2. attempt[o].status \in {"settling", "needs_review"} /\ attempt[o].tx = None
    BY <2>1 DEF Answering, AnswersOwnRow
  <2>3. ASSUME attempt'[o] # attempt[o]
        PROVE  /\ attempt[o].status = "settling"
               /\ attempt'[o].status = "needs_review" /\ attempt'[o].tx = attempt[o].tx
    <3>1. PICK q \in Requests : Writes(q)
      BY <2>3, WriteStep DEF RivalClaims
    <3>2. PICK b \in Row :
            /\ attempt' = [attempt EXCEPT ![req[q].op] = b]
            /\ \/ HoldForReview(q) /\ Held(attempt[req[q].op], b)
               \/ RecordSettlement(q)
               \/ Decided(attempt[req[q].op], b, req[q].facts)
      BY <1>4, <2>3, <3>1, WriteCases DEF Answering, Owned
    <3>3. req[q].op = o /\ attempt'[o] = b /\ attempt[o] \in Row
      BY <1>1, <2>3, <3>2 DEF Answering, Owned, Typed, TypeOK
    <3>4. ~RecordSettlement(q)
      BY <2>1, <3>3 DEF RecordSettlement, Awaiting, Answering, AnswersOwnRow
    <3>5. Held(attempt[o], b)
      BY <2>2, <3>2, <3>3, <3>4 DEF Decided
    <3> QED
      BY <3>3, <3>5 DEF Held, Row
  <2> QED
    BY <2>2, <2>3
<1> QED
  BY <1>2, <1>3, <1>4

\* Only the request that bound the row waits for the facilitator's answer and it
\* finds the row without a transaction: recordX402Settlement never re-reads.
THEOREM OneReaderOfTheAnswer == Spec => []AnswersOwnRow
<1>1. Init => AnswersOwnRow
  BY DEF Init, AnswersOwnRow, IdleReq, Awaiting
<1>2. Once /\ Owned /\ Once' /\ Owned' /\ AnswersOwnRow /\ [Next]_vars => AnswersOwnRow'
  BY StepAnswers DEF Answering
<1> QED
  BY <1>1, <1>2, InitOnce, StepOnce, InitOwned, StepOwned, PTL DEF Spec

---------------------------------------------------------------------------
(* Goods are unlocked by finalized transfers.  A request reads the chain   *)
(* and stores what it read later, while other requests write the same row  *)
(* and the chain moves on: the inductive invariant says what a request     *)
(* between the two steps still knows.                                      *)

Reading == {"chain", "stored", "finalize", "refinalize"}

\* The row it read is still the row's transaction and proof.
ReadsRow ==
  \A r \in Requests : req[r].pc \in Reading =>
    LET a == attempt[req[r].op] IN
    /\ req[r].row.tx \in Txs /\ a.tx = req[r].row.tx
    /\ a.proof = req[r].row.proof
    /\ a.status \notin {"none", "settling"}

\* What it read on the chain is still true, because it was final.
FactsTrue ==
  \A r \in Requests : req[r].pc \in Reading \ {"chain"} =>
    LET t == req[r].row.tx
        f == req[r].facts
    IN
    /\ mined[t] # 0 /\ mined[t] <= fin /\ f.block = mined[t]
    /\ f.outcome = "verified" => Pays[t] = AuthOf[req[r].row.proof]
    /\ f.outcome = "verified" /\ req[r].pc # "stored"
         => attempt[req[r].op].block <= f.block

Sound == Owned /\ ReadsRow /\ FactsTrue /\ PaidIsFinal

LEMMA WritesProgress ==
  ASSUME NEW a \in Row, NEW b \in Row, NEW f \in Facts
  PROVE  /\ Inserted(a, b) => Progress(a, b)
         /\ Held(a, b) => Progress(a, b)
         /\ \A t \in Txs : Stored(a, b, t) => Progress(a, b)
         /\ Decided(a, b, f) /\ f.block # 0 => Progress(a, b)
<1>1. Inserted(a, b) => Progress(a, b)
  BY DEF Inserted, Progress
<1>2. ASSUME Held(a, b) PROVE Progress(a, b)
  <2>1. /\ b.proof = a.proof /\ b.start = a.start /\ b.block = a.block
        /\ a.status = "settling" /\ b.status = "needs_review"
    BY <1>2 DEF Held, Row
  <2> QED
    BY <2>1 DEF Progress
<1>3. ASSUME NEW t \in Txs, Stored(a, b, t) PROVE Progress(a, b)
  <2>1. /\ b.proof = a.proof /\ b.start = a.start /\ b.block = a.block
        /\ a.status \in {"settling", "needs_review"} /\ a.tx = None
        /\ b.status \in {"settled", "needs_review"} /\ b.tx = t
    BY <1>3 DEF Stored, Claimed, Taken, Row
  <2> QED
    BY <2>1, CustodyAssumption DEF Progress
<1>4. ASSUME Decided(a, b, f), f.block # 0 PROVE Progress(a, b)
  <2>1. /\ b.proof = a.proof /\ b.start = a.start /\ b.block = a.block
        /\ a.status = "settled" /\ b.tx = a.tx
        /\ b.status = f.outcome /\ b.final = f.block
    BY <1>4 DEF Decided, Finalized, Row
  <2> QED
    BY <1>4, <2>1 DEF Progress, Facts
<1> QED
  BY <1>1, <1>2, <1>3, <1>4

LEMMA HistoryStep ==
  ASSUME Owned, FactsTrue, [Next]_vars
  PROVE  \A o \in Ops : Progress(attempt[o], attempt'[o])
<1>1. ASSUME attempt' = attempt
      PROVE  \A o \in Ops : Progress(attempt[o], attempt'[o])
  BY <1>1 DEF Progress
<1>2. ASSUME NEW r \in Requests, Writes(r), ~(attempt' = attempt /\ uses' = uses)
      PROVE  \A o \in Ops : Progress(attempt[o], attempt'[o])
  <2> DEFINE o == req[r].op
             t == req[r].tx
  <2>1. PICK b \in Row :
          /\ o \in Ops
          /\ attempt' = [attempt EXCEPT ![o] = b]
          /\ \/ Inserted(attempt[o], b)
             \/ Held(attempt[o], b)
             \/ Stored(attempt[o], b, t) /\ t \in Txs
             \/ RecordFinality(r) /\ Decided(attempt[o], b, req[r].facts)
    BY <1>2, WriteCases DEF Owned
  <2>2. /\ attempt'[o] = b /\ attempt[o] \in Row
        /\ \A x \in Ops : x # o => attempt'[x] = attempt[x]
    BY <2>1 DEF Owned, Typed, TypeOK
  <2>3. req[r].facts \in Facts
    BY DEF Owned, Typed, TypeOK, Req
  <2>4. Progress(attempt[o], b)
    <3>1. CASE Inserted(attempt[o], b) \/ Held(attempt[o], b)
      BY <2>2, <2>3, <3>1, WritesProgress
    <3>2. CASE Stored(attempt[o], b, t) /\ t \in Txs
      BY <2>2, <2>3, <3>2, WritesProgress
    <3>3. CASE RecordFinality(r) /\ Decided(attempt[o], b, req[r].facts)
      <4>1. req[r].facts.block # 0
        BY <3>3 DEF RecordFinality, FactsTrue, Reading
      <4> QED
        BY <2>2, <2>3, <3>3, <4>1, WritesProgress
    <3> QED
      BY <2>1, <3>1, <3>2, <3>3
  <2> QED
    BY <2>1, <2>2, <2>4 DEF Progress
<1>3. CASE \E t \in Txs : RivalClaims(t)
  BY <1>1, <1>3 DEF RivalClaims
<1> QED
  BY <1>1, <1>2, <1>3, WriteStep

\* Where a request can land when its step reads neither chain nor verdict: out
\* of the finality steps, at their start with a settled row, or with an answer
\* that says verified only of a verified row.
Landed(r) ==
  /\ \A q \in Requests : q # r => req'[q] = req[q]
  /\ req'[r].pc \in Reading =>
       /\ req'[r].pc = "chain" /\ req'[r].op = req[r].op /\ req[r].op \in Ops
       /\ req'[r].row = attempt'[req[r].op] /\ req'[r].row.tx \in Txs
       /\ req'[r].row.status = "settled"
  /\ req'[r].answer = "verified" =>
       /\ req'[r].op = req[r].op /\ attempt'[req[r].op].status = "verified"

\* The three steps that carry finality from one await to the next.
Advances(r) ==
  \/ ReadChain(r) /\ req'[r].pc = "stored"
  \/ ReadStored(r) /\ req'[r].pc = "finalize"
  \/ RecordFinality(r) /\ req'[r].pc = "refinalize"

LEMMA LandStep ==
  ASSUME Typed, Typed', [Next]_vars, req' # req
  PROVE  \E r \in Requests : Landed(r) \/ Advances(r)
<1>1. ASSUME NEW r \in Requests, NEW y, req' = [req EXCEPT ![r] = y],
             y.pc \notin Reading, y.answer # "verified"
      PROVE  Landed(r)
  BY <1>1 DEF Landed, Typed, TypeOK
<1>2. ASSUME NEW r \in Requests, NEW x, x # "verified", Reply(r, x)
      PROVE  Landed(r)
  <2> DEFINE y == [IdleReq EXCEPT !.op = req[r].op, !.answer = x]
  <2>1. y.pc = "idle" /\ y.answer = x /\ req' = [req EXCEPT ![r] = y]
    BY <1>2 DEF Reply, IdleReq
  <2> HIDE DEF y
  <2> QED
    BY <1>1, <1>2, <2>1 DEF Reading
<1>3. ASSUME NEW r \in Requests, NEW x, ReplyStored(r, x),
             x = "verified" => attempt'[req[r].op].status = "verified"
      PROVE  Landed(r)
  <2>1. CASE Reply(r, "conflict")
    BY <1>2, <2>1
  <2>2. CASE Reply(r, x) /\ x # "verified"
    BY <1>2, <2>2
  <2>3. CASE Reply(r, x) /\ x = "verified"
    BY <1>3, <2>3 DEF Reply, Landed, IdleReq, Reading, Typed, TypeOK
  <2> QED
    BY <1>3, <2>1, <2>2, <2>3 DEF ReplyStored
<1>4. ASSUME NEW r \in Requests, Classify(r, attempt'[req[r].op]),
             req[r].pc # "idle"
      PROVE  Landed(r)
  <2> DEFINE a == attempt'[req[r].op]
  <2>1. req[r].op \in Ops /\ a \in Row /\ req[r].answer = "none"
    BY <1>4 DEF Typed, RequestOK, TypeOK
  <2>2. CASE a.tx # None /\ a.status = "settled"
    <3>1. /\ \A q \in Requests : q # r => req'[q] = req[q]
          /\ req'[r].pc = "chain" /\ req'[r].row = a
          /\ req'[r].op = req[r].op /\ req'[r].answer = req[r].answer
      BY <1>4, <2>2 DEF Classify, Typed, TypeOK, Req
    <3>2. a.tx \in Txs
      BY <2>1, <2>2 DEF Row
    <3> QED
      BY <2>1, <2>2, <3>1, <3>2 DEF Landed
  <2>3. CASE ~(a.tx # None /\ a.status = "settled")
    BY <1>3, <1>4, <2>3 DEF Classify
  <2> QED
    BY <2>2, <2>3
<1>5. ASSUME NEW r \in Requests, NEW l, l \notin Reading, Goto(r, l),
             req[r].pc # "idle"
      PROVE  Landed(r)
  <2>1. req[r].answer = "none"
    BY <1>5 DEF Typed, RequestOK
  <2> QED
    BY <1>5, <2>1 DEF Goto, Landed, Typed, TypeOK, Req
<1>6. ASSUME NEW r \in Requests, Resume(r, attempt[req[r].op]),
             req[r].pc # "idle", attempt' = attempt
      PROVE  Landed(r)
  <2> DEFINE a == attempt[req[r].op]
  <2>1. CASE a.tx = None /\ a.status = "settling"
    <3>1. req[r].answer = "none"
      BY <1>6 DEF Typed, RequestOK
    <3>2. /\ \A q \in Requests : q # r => req'[q] = req[q]
          /\ req'[r].pc = "hold" /\ req'[r].answer = "none"
      BY <1>6, <2>1, <3>1 DEF Resume, Typed, TypeOK, Req
    <3> QED
      BY <3>2 DEF Landed, Reading
  <2>2. CASE ~(a.tx = None /\ a.status = "settling")
    BY <1>4, <1>6, <2>2 DEF Resume
  <2> QED
    BY <2>1, <2>2
<1>7. ASSUME NEW r \in Requests, UseExisting(r), req[r].pc # "idle",
             attempt' = attempt
      PROVE  Landed(r)
  BY <1>2, <1>6, <1>7 DEF UseExisting, MatchesTerms
<1>10. ASSUME NEW r \in Requests, Arrive(r) PROVE Landed(r)
  BY <1>10 DEF Arrive, Start, IdleReq, Landed, Reading, Typed, TypeOK
<1>11. ASSUME NEW r \in Requests, Bind(r) PROVE Landed(r)
  <2>1. req[r].pc # "idle"
    BY <1>11 DEF Bind, ReadSaved, ReadCustody, ReadHead, Verify, BeginRead,
                 InsertAttempt, RacedRead
  <2>2. CASE ReadSaved(r)
    BY <1>2, <1>5, <1>6, <2>1, <2>2 DEF ReadSaved, Reading
  <2>3. CASE ReadCustody(r)
    BY <1>2, <1>5, <1>6, <2>1, <2>3 DEF ReadCustody, Reading
  <2>4. CASE ReadHead(r)
    <3>1. req[r].answer = "none"
      BY <2>1 DEF Typed, RequestOK
    <3> QED
      BY <2>4, <3>1 DEF ReadHead, Landed, Reading, Typed, TypeOK, Req
  <2>5. CASE Verify(r)
    BY <1>2, <1>5, <2>1, <2>5 DEF Verify, Reading
  <2>6. CASE BeginRead(r)
    BY <1>5, <1>7, <2>1, <2>6 DEF BeginRead, Reading
  <2>7. CASE InsertAttempt(r)
    <3>1. CASE req' = [req EXCEPT ![r].pc = "settle", ![r].row = NewRow(r)]
      <4>1. req[r].answer = "none"
        BY <2>1 DEF Typed, RequestOK
      <4> QED
        BY <3>1, <4>1 DEF Landed, Reading, Typed, TypeOK, Req
    <3> QED
      BY <1>5, <2>1, <2>7, <3>1 DEF InsertAttempt, Reading
  <2>8. CASE RacedRead(r)
    BY <1>7, <2>1, <2>8 DEF RacedRead
  <2> QED
    BY <1>11, <2>2, <2>3, <2>4, <2>5, <2>6, <2>7, <2>8 DEF Bind
<1>12. ASSUME NEW r \in Requests, Settle(r) PROVE Landed(r)
  <2> DEFINE o == req[r].op
             a == attempt[o]
  <2>1. req[r].pc # "idle" /\ o \in Ops /\ req[r].answer = "none"
    BY <1>12 DEF Settle, CallSettle, SettleAnswers, SettleInconclusive,
       HoldForReview, HoldReread, RecordSettlement, Typed, RequestOK
  <2>2. CASE CallSettle(r) \/ SettleInconclusive(r)
    BY <1>5, <2>1, <2>2 DEF CallSettle, SettleInconclusive, Reading
  <2>3. ASSUME NEW t \in Txs, SettleAnswers(r, t) PROVE Landed(r)
    BY <2>1, <2>3 DEF SettleAnswers, Landed, Reading, Typed, TypeOK, Req
  <2>4. CASE HoldForReview(r)
    BY <1>3, <1>5, <2>1, <2>4 DEF HoldForReview, Reading
  <2>5. CASE HoldReread(r)
    BY <1>3, <1>4, <2>1, <2>5 DEF HoldReread
  <2>6. CASE RecordSettlement(r)
    <3>1. ASSUME NEW b, attempt' = [attempt EXCEPT ![o] = b], Classify(r, b)
          PROVE  Landed(r)
      BY <1>4, <2>1, <3>1 DEF Typed, TypeOK
    <3> QED
      BY <1>2, <1>5, <2>1, <2>6, <3>1 DEF RecordSettlement, Reading
  <2> QED
    BY <1>12, <2>2, <2>3, <2>4, <2>5, <2>6 DEF Settle
<1>13. ASSUME NEW r \in Requests, Confirm(r) PROVE Landed(r) \/ Advances(r)
  <2> DEFINE o == req[r].op
  <2>1. req[r].pc # "idle" /\ o \in Ops
    BY <1>13 DEF Confirm, ReadChain, ReadStored, RecordFinality,
       FinalityReread, Typed, RequestOK
  <2>2. CASE ReadChain(r)
    BY <1>3, <2>2 DEF ReadChain, Advances, Typed, TypeOK, Req
  <2>3. CASE ReadStored(r)
    BY <1>3, <1>4, <2>1, <2>3 DEF ReadStored, Advances, Typed, TypeOK, Req
  <2>4. CASE RecordFinality(r)
    <3>1. ASSUME NEW b, attempt' = [attempt EXCEPT ![o] = b], Classify(r, b)
          PROVE  Landed(r)
      BY <1>4, <2>1, <3>1 DEF Typed, TypeOK
    <3>2. CASE Goto(r, "refinalize")
      BY <2>4, <3>2 DEF Goto, Advances, Typed, TypeOK, Req
    <3> QED
      BY <2>4, <3>1, <3>2 DEF RecordFinality
  <2>5. CASE FinalityReread(r)
    BY <1>3, <1>4, <2>1, <2>5 DEF FinalityReread
  <2> QED
    BY <1>13, <2>2, <2>3, <2>4, <2>5 DEF Confirm
<1>14. ASSUME NEW r \in Requests, Abandon(r) PROVE Landed(r)
  BY <1>14 DEF Abandon, IdleReq, Landed, Reading, Typed, TypeOK
<1>15. ~Chain /\ ~(\E t \in Txs : RivalClaims(t)) /\ ~UNCHANGED vars
  BY DEF Chain, Mine, Reorg, NewBlock, FinalizeBlock, RivalClaims, vars
<1> QED
  BY <1>10, <1>11, <1>12, <1>13, <1>14, <1>15 DEF Next

\* An advancing request keeps its operation and its row.
LEMMA AdvanceStep ==
  ASSUME Typed, NEW r \in Requests, Advances(r)
  PROVE  /\ req[r].op \in Ops /\ req[r] \in Req /\ req[r].pc \in Reading
         /\ \A q \in Requests : q # r => req'[q] = req[q]
         /\ req'[r].op = req[r].op /\ req'[r].row = req[r].row
         /\ req'[r].answer = "none" /\ UNCHANGED <<mined, fin, attempt>>
         /\ \/ LET t == req[r].row.tx IN
               /\ ReadChain(r) /\ req'[r].pc = "stored"
               /\ mined[t] # 0 /\ mined[t] <= fin
               /\ req'[r].facts =
                    [outcome |-> IF Pays[t] = AuthOf[req[r].row.proof]
                                 THEN "verified" ELSE "needs_review",
                     block |-> mined[t], at |-> now]
            \/ /\ ReadStored(r) /\ req'[r].pc = "finalize"
               /\ req'[r].facts = Anchored(attempt[req[r].op], req[r].facts)
            \/ /\ RecordFinality(r) /\ req'[r].pc = "refinalize"
               /\ req'[r].facts = req[r].facts
<1>1. /\ req[r].op \in Ops /\ req[r] \in Req /\ req[r].pc \in Reading
      /\ req[r].answer = "none"
  BY DEF Advances, ReadChain, ReadStored, RecordFinality, Reading, Typed,
         RequestOK, TypeOK
<1>2. ASSUME NEW x, ReplyStored(r, x) PROVE req'[r].pc = "idle"
  BY <1>2 DEF ReplyStored, Reply, IdleReq, Typed, TypeOK
<1>3. ASSUME NEW a, Classify(r, a) PROVE req'[r].pc \in {"idle", "chain"}
  BY <1>1, <1>2, <1>3 DEF Classify, Typed, TypeOK, Req
<1>4. CASE ReadChain(r) /\ req'[r].pc = "stored"
  <2> DEFINE t == req[r].row.tx
             f == [outcome |-> IF Pays[t] = AuthOf[req[r].row.proof]
                               THEN "verified" ELSE "needs_review",
                   block |-> mined[t], at |-> now]
  <2>1. /\ UNCHANGED <<mined, fin, attempt>> /\ mined[t] # 0 /\ mined[t] <= fin
        /\ req' = [req EXCEPT ![r].pc = "stored", ![r].facts = f]
    BY <1>2, <1>4 DEF ReadChain
  <2> QED
    BY <1>1, <1>4, <2>1 DEF Typed, TypeOK, Req
<1>5. CASE ReadStored(r) /\ req'[r].pc = "finalize"
  <2> DEFINE f == Anchored(attempt[req[r].op], req[r].facts)
  <2>1. /\ UNCHANGED <<mined, fin, attempt>>
        /\ req' = [req EXCEPT ![r].pc = "finalize", ![r].facts = f]
    BY <1>2, <1>3, <1>5 DEF ReadStored
  <2> HIDE DEF f
  <2>2. /\ \A q \in Requests : q # r => req'[q] = req[q]
        /\ req'[r].op = req[r].op /\ req'[r].row = req[r].row
        /\ req'[r].answer = "none" /\ req'[r].facts = f
    BY <1>1, <2>1 DEF Typed, TypeOK, Req
  <2> QED
    BY <1>1, <1>5, <2>1, <2>2 DEF f
<1>6. CASE RecordFinality(r) /\ req'[r].pc = "refinalize"
  <2>1. Goto(r, "refinalize") /\ UNCHANGED <<mined, fin, attempt>>
    BY <1>3, <1>6 DEF RecordFinality
  <2> QED
    BY <1>1, <1>6, <2>1 DEF Goto, Typed, TypeOK, Req
<1> QED
  BY <1>4, <1>5, <1>6 DEF Advances

\* What progress leaves alone.
LEMMA ProgressKeeps ==
  ASSUME NEW a, NEW b, Progress(a, b)
  PROVE  /\ a.status # "none" => b.proof = a.proof /\ b.block = a.block
         /\ a.tx \in Txs /\ a.status \notin {"none", "settling"}
              => b.tx = a.tx /\ b.status \notin {"none", "settling"}
         /\ a.status = "verified" => b = a
BY CustodyAssumption DEF Progress

\* A finalized block is never reorganized away.
LEMMA FinalKept ==
  ASSUME Typed, [Next]_vars, NEW t \in Txs, mined[t] # 0, mined[t] <= fin
  PROVE  mined'[t] = mined[t] /\ mined'[t] <= fin'
<1>1. mined[t] \in Int /\ fin \in Int
  BY DEF Typed, TypeOK, Time
<1>2. CASE Chain
  BY <1>1, <1>2
     DEF Chain, Mine, Reorg, NewBlock, FinalizeBlock, Typed, TypeOK
<1>3. CASE mined' = mined /\ fin' = fin
  BY <1>3
<1>4. ASSUME NEW r \in Requests,
             Arrive(r) \/ Bind(r) \/ Settle(r) \/ Confirm(r) \/ Abandon(r)
      PROVE  mined' = mined /\ fin' = fin
  BY <1>4 DEF Arrive, Start, Bind, ReadSaved, ReadCustody, ReadHead, Verify,
     BeginRead, InsertAttempt, RacedRead, Settle, CallSettle, SettleAnswers,
     SettleInconclusive, HoldForReview, HoldReread, RecordSettlement,
     Confirm, ReadChain, ReadStored, RecordFinality,
     FinalityReread, Abandon
<1> QED
  BY <1>2, <1>3, <1>4 DEF Next, RivalClaims, vars

LEMMA StepReadsRow ==
  ASSUME Sound, Typed', [Next]_vars
  PROVE  ReadsRow'
<1>1. \A o \in Ops : Progress(attempt[o], attempt'[o])
  BY HistoryStep DEF Sound
<1>2. SUFFICES ASSUME NEW q \in Requests, req'[q].pc \in Reading
      PROVE  /\ req'[q].row.tx \in Txs
             /\ attempt'[req'[q].op].tx = req'[q].row.tx
             /\ attempt'[req'[q].op].proof = req'[q].row.proof
             /\ attempt'[req'[q].op].status \notin {"none", "settling"}
  BY DEF ReadsRow
<1>3. CASE req[q].pc \in Reading /\ req'[q].op = req[q].op /\ req'[q].row = req[q].row
  <2> DEFINE a == attempt[req[q].op]
             b == attempt'[req[q].op]
  <2>1. /\ req[q].op \in Ops /\ req[q].row.tx \in Txs
        /\ a.tx = req[q].row.tx /\ a.proof = req[q].row.proof
        /\ a.status \notin {"none", "settling"}
    BY <1>3 DEF Sound, Owned, Typed, RequestOK, ReadsRow, Reading
  <2>2. Progress(a, b)
    BY <1>1, <2>1
  <2> HIDE DEF a, b
  <2>3. b.tx = a.tx /\ b.proof = a.proof /\ b.status \notin {"none", "settling"}
    BY <2>1, <2>2, ProgressKeeps
  <2> QED
    BY <1>3, <2>1, <2>3 DEF a, b
<1>4. ASSUME NEW r \in Requests, Landed(r), req'[q] # req[q]
      PROVE  /\ req'[q].row.tx \in Txs
             /\ attempt'[req'[q].op].tx = req'[q].row.tx
             /\ attempt'[req'[q].op].proof = req'[q].row.proof
             /\ attempt'[req'[q].op].status \notin {"none", "settling"}
  <2>1. q = r
    BY <1>4 DEF Landed
  <2>2. /\ req'[q].op = req[q].op
        /\ req'[q].row = attempt'[req[q].op] /\ req'[q].row.tx \in Txs
        /\ req'[q].row.status = "settled"
    BY <1>2, <1>4, <2>1 DEF Landed
  <2> QED
    BY <2>2
<1>5. ASSUME NEW r \in Requests, Advances(r)
      PROVE  req[q].pc \in Reading /\ req'[q].op = req[q].op /\ req'[q].row = req[q].row
  BY <1>2, <1>5, AdvanceStep DEF Sound, Owned
<1> QED
  BY <1>2, <1>3, <1>4, <1>5, LandStep DEF Sound, Owned

LEMMA StepFactsTrue ==
  ASSUME Sound, Typed', [Next]_vars
  PROVE  FactsTrue'
<1>1. \A o \in Ops : Progress(attempt[o], attempt'[o])
  BY HistoryStep DEF Sound
<1> DEFINE True(q) ==
      LET t == req'[q].row.tx
          f == req'[q].facts
      IN
      /\ mined'[t] # 0 /\ mined'[t] <= fin' /\ f.block = mined'[t]
      /\ f.outcome = "verified" => Pays[t] = AuthOf[req'[q].row.proof]
      /\ f.outcome = "verified" /\ req'[q].pc # "stored"
           => attempt'[req'[q].op].block <= f.block
<1>2. SUFFICES ASSUME NEW q \in Requests, req'[q].pc \in Reading \ {"chain"}
               PROVE  True(q)
  BY DEF FactsTrue
<1>3. CASE req'[q] = req[q]
  <2> DEFINE a == attempt[req[q].op]
             b == attempt'[req[q].op]
             t == req[q].row.tx
             f == req[q].facts
  <2>1. /\ req[q].op \in Ops /\ t \in Txs /\ a.status # "none"
        /\ mined[t] # 0 /\ mined[t] <= fin /\ f.block = mined[t]
        /\ f.outcome = "verified" => Pays[t] = AuthOf[req[q].row.proof]
        /\ f.outcome = "verified" /\ req[q].pc # "stored" => a.block <= f.block
    BY <1>2, <1>3
       DEF Sound, Owned, Typed, RequestOK, ReadsRow, FactsTrue, Reading
  <2>2. mined'[t] = mined[t] /\ mined'[t] <= fin'
    BY <2>1, FinalKept DEF Sound, Owned
  <2>3. Progress(a, b)
    BY <1>1, <2>1
  <2> HIDE DEF a, b
  <2>4. b.block = a.block
    BY <2>1, <2>3, ProgressKeeps
  <2> QED
    BY <1>3, <2>1, <2>2, <2>4 DEF a, b
<1>4. ASSUME NEW r \in Requests, Landed(r), req'[q] # req[q]
      PROVE  FALSE
  BY <1>2, <1>4 DEF Landed
<1>5. ASSUME NEW r \in Requests, Advances(r), req'[q] # req[q]
      PROVE  True(q)
  <2> DEFINE t == req[r].row.tx
             a == attempt[req[r].op]
             f == req[r].facts
  <2>1. /\ q = r /\ req[r].op \in Ops /\ req[r] \in Req
        /\ req'[r].op = req[r].op /\ req'[r].row = req[r].row
        /\ UNCHANGED <<mined, fin, attempt>>
    BY <1>5, AdvanceStep DEF Sound, Owned
  <2>2. CASE /\ mined[t] # 0 /\ mined[t] <= fin /\ req'[r].pc = "stored"
             /\ req'[r].facts =
                  [outcome |-> IF Pays[t] = AuthOf[req[r].row.proof]
                               THEN "verified" ELSE "needs_review",
                   block |-> mined[t], at |-> now]
    BY <2>1, <2>2
  <2>3. CASE ReadStored(r) /\ req'[r].facts = Anchored(a, f)
    <3>1. /\ mined[t] # 0 /\ mined[t] <= fin /\ f.block = mined[t]
          /\ f.outcome = "verified" => Pays[t] = AuthOf[req[r].row.proof]
      BY <2>3 DEF ReadStored, Sound, FactsTrue, Reading
    <3>2. /\ Anchored(a, f).block = f.block
          /\ Anchored(a, f).outcome = "verified" =>
               f.outcome = "verified" /\ ~(f.block < a.block)
      BY <2>1 DEF Anchored, Req, Facts
    <3>3. f.block \in Int /\ a.block \in Int
      BY <2>1 DEF Req, Facts, Sound, Owned, Typed, TypeOK, Row, Time
    <3> QED
      BY <2>1, <2>3, <3>1, <3>2, <3>3
  <2>4. CASE RecordFinality(r) /\ req'[r].facts = f
    BY <2>1, <2>4 DEF RecordFinality, Sound, FactsTrue, Reading
  <2> QED
    BY <1>5, <2>2, <2>3, <2>4, AdvanceStep DEF Sound, Owned
<1> QED
  BY <1>2, <1>3, <1>4, <1>5, LandStep DEF Sound, Owned

LEMMA StepPaidIsFinal ==
  ASSUME Sound, Typed', [Next]_vars
  PROVE  PaidIsFinal'
<1>1. \A o \in Ops : Progress(attempt[o], attempt'[o])
  BY HistoryStep DEF Sound
<1>2. ASSUME NEW o \in Ops, attempt'[o].status = "verified"
      PROVE  LET a == attempt'[o] IN
             /\ mined'[a.tx] # 0 /\ mined'[a.tx] <= fin'
             /\ Pays[a.tx] = AuthOf[a.proof]
             /\ a.block <= mined'[a.tx] /\ a.final = mined'[a.tx]
  <2>1. CASE attempt[o].status = "verified"
    <3>1. attempt'[o] = attempt[o]
      BY <1>1, <2>1, ProgressKeeps
    <3>2. attempt[o].tx \in Txs
      BY <2>1 DEF Sound, Owned, OneOwner, Typed, TypeOK, Row
    <3> QED
      BY <2>1, <3>1, <3>2, FinalKept DEF Sound, Owned, PaidIsFinal
  <2>2. CASE attempt[o].status # "verified"
    <3>1. attempt' # attempt
      BY <1>2, <2>2
    <3>2. PICK r \in Requests : Writes(r)
      BY <3>1, WriteStep DEF RivalClaims
    <3>3. PICK b \in Row :
            /\ attempt' = [attempt EXCEPT ![req[r].op] = b]
            /\ \/ Inserted(attempt[req[r].op], b)
               \/ Held(attempt[req[r].op], b)
               \/ Stored(attempt[req[r].op], b, req[r].tx)
               \/ RecordFinality(r) /\ Decided(attempt[req[r].op], b, req[r].facts)
      BY <3>1, <3>2, WriteCases DEF Sound, Owned
    <3>4. o = req[r].op /\ attempt'[o] = b
      BY <1>2, <2>2, <3>3 DEF Sound, Owned, Typed, TypeOK
    <3>5. attempt[o] \in Row
      BY DEF Sound, Owned, Typed, TypeOK
    <3>6. ~Inserted(attempt[o], b) /\ ~Held(attempt[o], b)
          /\ ~Stored(attempt[o], b, req[r].tx)
      BY <1>2, <3>4, <3>5 DEF Inserted, Held, Stored, Claimed, Taken, Row
    <3>7. /\ RecordFinality(r) /\ attempt[o] \in Row /\ req[r].facts \in Facts
          /\ b = Finalized(attempt[o], req[r].facts)
      BY <3>3, <3>4, <3>5, <3>6 DEF Decided, Sound, Owned, Typed, TypeOK, Req
    <3>8. /\ b.tx = attempt[o].tx /\ b.proof = attempt[o].proof
          /\ b.block = attempt[o].block /\ b.final = req[r].facts.block
          /\ b.status = req[r].facts.outcome
      BY <3>7 DEF Finalized, Row
    <3>9. /\ req[r].row.tx = b.tx /\ req[r].row.proof = b.proof
          /\ mined[b.tx] # 0 /\ mined[b.tx] <= fin /\ b.final = mined[b.tx]
          /\ Pays[b.tx] = AuthOf[b.proof] /\ b.block <= b.final
      BY <1>2, <3>4, <3>7, <3>8
         DEF RecordFinality, Sound, ReadsRow, FactsTrue, Reading
    <3>10. mined' = mined /\ fin' = fin
      BY <3>7 DEF RecordFinality
    <3> QED
      BY <3>4, <3>9, <3>10
  <2> QED
    BY <2>1, <2>2
<1>3. ASSUME NEW q \in Requests, req'[q].answer = "verified"
      PROVE  attempt'[req'[q].op].status = "verified"
  <2>1. CASE req'[q] = req[q]
    <3>1. req[q].op \in Ops /\ attempt[req[q].op].status = "verified"
      BY <1>3, <2>1 DEF Sound, Owned, Typed, RequestOK, PaidIsFinal
    <3>2. attempt'[req[q].op] = attempt[req[q].op]
      BY <1>1, <3>1, ProgressKeeps
    <3> QED
      BY <2>1, <3>1, <3>2
  <2>2. CASE req'[q] # req[q]
    <3>1. PICK r \in Requests : Landed(r) \/ Advances(r)
      BY <2>2, LandStep DEF Sound, Owned
    <3>2. CASE Landed(r)
      BY <1>3, <2>2, <3>2 DEF Landed
    <3>3. CASE Advances(r)
      BY <1>3, <2>2, <3>3, AdvanceStep DEF Sound, Owned
    <3> QED
      BY <3>1, <3>2, <3>3
  <2> QED
    BY <2>1, <2>2
<1> QED
  BY <1>2, <1>3 DEF PaidIsFinal

LEMMA InitSound == Init => Sound
BY InitOwned
   DEF Init, Sound, ReadsRow, FactsTrue, PaidIsFinal, Reading, NoRow, IdleReq

LEMMA StepSound == Sound /\ [Next]_vars => Sound'
<1> SUFFICES ASSUME Sound, [Next]_vars PROVE Sound'
  OBVIOUS
<1>1. Owned' /\ Typed'
  BY StepOwned DEF Sound, Owned
<1> QED
  BY <1>1, StepReadsRow, StepFactsTrue, StepPaidIsFinal DEF Sound

\* Goods are unlocked only by a finalized transfer that spends the bound
\* authorization and is no older than the operation, whatever the facilitator
\* reported and whenever the chain was read.
THEOREM PaidMeansFinal == Spec => []PaidIsFinal
<1>1. Sound => PaidIsFinal
  BY DEF Sound
<1> QED
  BY <1>1, InitSound, StepSound, PTL DEF Spec

\* No step ever rewrites a stored payment's terms, its transaction or its
\* verdict.
THEOREM HistoryIsKept == Spec => HistoryKept
<1>1. Sound /\ [Next]_vars => [\A o \in Ops : Progress(attempt[o], attempt'[o])]_attempt
  BY HistoryStep DEF Sound
<1> QED
  BY <1>1, InitSound, StepSound, PTL DEF Spec, HistoryKept

---------------------------------------------------------------------------
(* Nobody with a stored payment is invited to pay again.  A request that   *)
(* found its operation stored never reaches a step of a new payment.       *)

HadRow ==
  \A r \in Requests : req[r].had =>
    /\ Exists(req[r].op) /\ req[r].op \in Ops
    /\ req[r].pc \notin Paying /\ req[r].answer = "none"

Invites == {"challenge", "invalid"}

HadKept(r) ==
  /\ \A q \in Requests : q # r => req'[q] = req[q]
  /\ req'[r].had => /\ req'[r].answer = "none" /\ req'[r].pc \notin Paying
                    /\ req'[r].op \in Ops /\ attempt'[req'[r].op].status # "none"
  /\ req[r].had => req'[r].answer \notin Invites

LEMMA HadStep ==
  ASSUME Typed, HadRow, [Next]_vars, req' # req,
         \A o \in Ops : Progress(attempt[o], attempt'[o])
  PROVE  \E r \in Requests : HadKept(r)
<1>1. \A o \in Ops : Exists(o) => attempt'[o].status # "none"
  BY DEF Exists, Progress
<1>2. ASSUME NEW r \in Requests, NEW x, Reply(r, x), x \notin Invites \/ ~req[r].had
      PROVE  HadKept(r)
  BY <1>2 DEF Reply, IdleReq, HadKept, Typed, TypeOK
<1>3. ASSUME NEW r \in Requests, NEW x, ReplyStored(r, x), x \notin Invites
      PROVE  HadKept(r)
  BY <1>2, <1>3 DEF ReplyStored, Invites
<1>4. ASSUME NEW r \in Requests, req[r].pc # "idle",
             \A q \in Requests : q # r => req'[q] = req[q],
             req'[r].op = req[r].op, req'[r].had = req[r].had,
             req'[r].answer = "none", req[r].had => req'[r].pc \notin Paying
      PROVE  HadKept(r)
  BY <1>1, <1>4 DEF HadKept, HadRow, Invites
<1>5. ASSUME NEW r \in Requests, NEW a, Classify(r, a), req[r].pc # "idle"
      PROVE  HadKept(r)
  <2>1. CASE a.tx # None /\ a.status = "settled"
    <3>1. req[r].answer = "none"
      BY <1>5 DEF Typed, RequestOK
    <3>2. /\ \A q \in Requests : q # r => req'[q] = req[q]
          /\ req'[r].op = req[r].op /\ req'[r].had = req[r].had
          /\ req'[r].answer = "none" /\ req'[r].pc = "chain"
      BY <1>5, <2>1, <3>1 DEF Classify, Typed, TypeOK, Req
    <3> QED
      BY <1>4, <1>5, <3>2 DEF Paying
  <2>2. CASE ~(a.tx # None /\ a.status = "settled")
    BY <1>3, <1>5, <2>2 DEF Classify, Invites
  <2> QED
    BY <2>1, <2>2
<1>6. ASSUME NEW r \in Requests, NEW a, Resume(r, a), req[r].pc # "idle"
      PROVE  HadKept(r)
  <2>1. CASE a.tx = None /\ a.status = "settling"
    <3>1. req[r].answer = "none"
      BY <1>6 DEF Typed, RequestOK
    <3>2. /\ \A q \in Requests : q # r => req'[q] = req[q]
          /\ req'[r].op = req[r].op /\ req'[r].had = req[r].had
          /\ req'[r].answer = "none" /\ req'[r].pc = "hold"
      BY <1>6, <2>1, <3>1 DEF Resume, Typed, TypeOK, Req
    <3> QED
      BY <1>4, <1>6, <3>2 DEF Paying
  <2>2. CASE ~(a.tx = None /\ a.status = "settling")
    BY <1>5, <1>6, <2>2 DEF Resume
  <2> QED
    BY <2>1, <2>2
<1>7. ASSUME NEW r \in Requests, NEW l, Goto(r, l), req[r].pc # "idle",
             l \notin Paying \/ ~req[r].had
      PROVE  HadKept(r)
  <2>1. /\ \A q \in Requests : q # r => req'[q] = req[q]
        /\ req'[r].op = req[r].op /\ req'[r].had = req[r].had
        /\ req'[r].answer = req[r].answer /\ req'[r].pc = l
    BY <1>7 DEF Goto, Typed, TypeOK, Req
  <2>2. req[r].answer = "none"
    BY <1>7 DEF Typed, RequestOK
  <2> QED
    BY <1>4, <1>7, <2>1, <2>2
\* A request that is paying found no stored payment.
<1>8. ASSUME NEW r \in Requests, req[r].pc \in Paying PROVE ~req[r].had
  BY <1>8 DEF HadRow
<1>10. ASSUME NEW r \in Requests, Arrive(r) PROVE HadKept(r)
  <2>1. PICK o \in Ops, p \in Proofs \cup {None} : Start(r, o, p)
    BY <1>10 DEF Arrive
  <2>2. /\ \A q \in Requests : q # r => req'[q] = req[q]
        /\ req'[r].op = o /\ req'[r].had = Exists(o)
        /\ req'[r].answer = "none" /\ req'[r].pc = "resume"
    BY <2>1 DEF Start, IdleReq, Typed, TypeOK
  <2> QED
    BY <1>1, <2>1, <2>2 DEF HadKept, Paying, Invites
<1>11. ASSUME NEW r \in Requests, Bind(r) PROVE HadKept(r)
  <2>1. req[r].pc # "idle" /\ req[r].answer = "none"
    BY <1>11 DEF Bind, ReadSaved, ReadCustody, ReadHead, Verify, BeginRead,
                 InsertAttempt, RacedRead, Typed, RequestOK
  <2>2. ASSUME UseExisting(r) PROVE HadKept(r)
    BY <1>2, <1>6, <2>1, <2>2 DEF UseExisting, Invites
  <2>3. CASE ReadSaved(r)
    BY <1>2, <1>6, <1>7, <2>1, <2>3 DEF ReadSaved, HadRow
  <2>4. CASE ReadCustody(r)
    BY <1>2, <1>6, <1>7, <1>8, <2>1, <2>4 DEF ReadCustody, Paying
  <2>5. CASE ReadHead(r)
    <3>1. /\ \A q \in Requests : q # r => req'[q] = req[q]
          /\ req'[r].op = req[r].op /\ req'[r].had = req[r].had
          /\ req'[r].answer = "none"
      BY <2>1, <2>5 DEF ReadHead, Typed, TypeOK, Req
    <3> QED
      BY <1>4, <1>8, <2>1, <2>5, <3>1 DEF ReadHead, Paying
  <2>6. CASE Verify(r)
    BY <1>2, <1>7, <1>8, <2>1, <2>6 DEF Verify, Paying
  <2>7. CASE BeginRead(r)
    BY <1>7, <1>8, <2>1, <2>2, <2>7 DEF BeginRead, Paying
  <2>8. CASE InsertAttempt(r)
    <3>1. ~req[r].had
      BY <1>8, <2>8 DEF InsertAttempt, Paying
    <3>2. CASE req' = [req EXCEPT ![r].pc = "settle", ![r].row = NewRow(r)]
      <4>1. /\ \A q \in Requests : q # r => req'[q] = req[q]
            /\ req'[r].op = req[r].op /\ req'[r].had = req[r].had
            /\ req'[r].answer = "none"
        BY <2>1, <3>2 DEF Typed, TypeOK, Req
      <4> QED
        BY <1>4, <2>1, <3>1, <4>1
    <3> QED
      BY <1>7, <2>1, <2>8, <3>1, <3>2 DEF InsertAttempt
  <2>9. CASE RacedRead(r)
    BY <2>2, <2>9 DEF RacedRead
  <2> QED
    BY <1>11, <2>3, <2>4, <2>5, <2>6, <2>7, <2>8, <2>9 DEF Bind
<1>12. ASSUME NEW r \in Requests, Settle(r) PROVE HadKept(r)
  <2>1. req[r].pc # "idle" /\ req[r].answer = "none"
    BY <1>12 DEF Settle, CallSettle, SettleAnswers, SettleInconclusive,
       HoldForReview, HoldReread, RecordSettlement, Typed, RequestOK
  <2>2. CASE CallSettle(r) \/ SettleInconclusive(r)
    BY <1>7, <1>8, <2>1, <2>2 DEF CallSettle, SettleInconclusive, Paying
  <2>3. ASSUME NEW t \in Txs, SettleAnswers(r, t) PROVE HadKept(r)
    <3>1. /\ \A q \in Requests : q # r => req'[q] = req[q]
          /\ req'[r].op = req[r].op /\ req'[r].had = req[r].had
          /\ req'[r].answer = "none" /\ ~req[r].had
      BY <1>8, <2>1, <2>3 DEF SettleAnswers, Typed, TypeOK, Req, Paying
    <3> QED
      BY <1>4, <2>1, <3>1
  <2>4. CASE HoldForReview(r)
    BY <1>3, <1>7, <2>1, <2>4 DEF HoldForReview, Invites, Paying
  <2>5. CASE HoldReread(r)
    BY <1>3, <1>5, <2>1, <2>5 DEF HoldReread, Invites
  <2>6. CASE RecordSettlement(r)
    BY <1>2, <1>5, <1>7, <1>8, <2>1, <2>6 DEF RecordSettlement, Invites, Paying
  <2> QED
    BY <1>12, <2>2, <2>3, <2>4, <2>5, <2>6 DEF Settle
<1>13. ASSUME NEW r \in Requests, Confirm(r) PROVE HadKept(r)
  <2>1. req[r].pc # "idle" /\ req[r].answer = "none"
    BY <1>13 DEF Confirm, ReadChain, ReadStored, RecordFinality,
       FinalityReread, Typed, RequestOK
  <2>2. ASSUME NEW l, NEW f, l \notin Paying,
               req' = [req EXCEPT ![r].pc = l, ![r].facts = f]
        PROVE  HadKept(r)
    <3>1. /\ \A q \in Requests : q # r => req'[q] = req[q]
          /\ req'[r].op = req[r].op /\ req'[r].had = req[r].had
          /\ req'[r].answer = "none" /\ req'[r].pc = l
      BY <2>1, <2>2 DEF Typed, TypeOK, Req
    <3> QED
      BY <1>4, <2>1, <2>2, <3>1
  <2>3. CASE ReadChain(r)
    BY <1>3, <2>2, <2>3 DEF ReadChain, Invites, Paying
  <2>4. CASE ReadStored(r)
    BY <1>3, <1>5, <2>1, <2>2, <2>4 DEF ReadStored, Invites, Paying
  <2>5. CASE RecordFinality(r)
    BY <1>5, <1>7, <2>1, <2>5 DEF RecordFinality, Paying
  <2>6. CASE FinalityReread(r)
    BY <1>3, <1>5, <2>1, <2>6 DEF FinalityReread, Invites
  <2> QED
    BY <1>13, <2>3, <2>4, <2>5, <2>6 DEF Confirm
<1>14. ASSUME NEW r \in Requests, Abandon(r) PROVE HadKept(r)
  BY <1>14 DEF Abandon, IdleReq, HadKept, Invites, Typed, TypeOK
<1>15. ~Chain /\ ~(\E t \in Txs : RivalClaims(t)) /\ ~UNCHANGED vars
  BY DEF Chain, Mine, Reorg, NewBlock, FinalizeBlock, RivalClaims, vars
<1> QED
  BY <1>10, <1>11, <1>12, <1>13, <1>14, <1>15 DEF Next

\* A request that arrives after its operation has a stored payment is answered
\* from it: it is never challenged to pay and its proof is never rejected.
THEOREM NoInvitationTwice == Spec => NoSecondInvitation
<1> DEFINE Answered == \A r \in Requests : req[r].had => req'[r].answer \notin {"challenge", "invalid"}
<1>1. Init => HadRow
  BY DEF Init, HadRow, IdleReq
<1>2. ASSUME Sound, HadRow, [Next]_vars PROVE HadRow' /\ [Answered]_req
  <2>1. \A o \in Ops : Progress(attempt[o], attempt'[o])
    BY <1>2, HistoryStep DEF Sound
  <2>2. \A o \in Ops : Exists(o) => attempt'[o].status # "none"
    BY <2>1 DEF Exists, Progress
  <2>3. CASE req' = req
    BY <1>2, <2>2, <2>3 DEF HadRow, Exists
  <2>4. CASE req' # req
    <3>1. PICK r \in Requests : HadKept(r)
      BY <1>2, <2>1, <2>4, HadStep DEF Sound, Owned
    <3>2. HadRow'
      BY <1>2, <2>2, <3>1 DEF HadKept, HadRow, Exists
    <3>3. Answered
      BY <1>2, <3>1 DEF HadKept, HadRow, Invites
    <3> QED
      BY <3>2, <3>3
  <2> QED
    BY <2>3, <2>4
<1> QED
  BY <1>1, <1>2, InitSound, StepSound, PTL DEF Spec, NoSecondInvitation

---------------------------------------------------------------------------
(* Custody implements the ledger of paid actions.                          *)

LEMMA InitLedger == Init => Ledger!Init
<1> SUFFICES ASSUME Init PROVE Ledger!Init
  OBVIOUS
<1>1. \A o \in Ops : Standing(attempt[o]) = "open"
  BY DEF Init, Standing, NoRow
<1>2. {t \in Txs : mined[t] # 0 /\ mined[t] <= fin} = {}
  BY DEF Init
<1> QED
  BY <1>1, <1>2 DEF Init, Ledger!Init

LEMMA StepLedger ==
  ASSUME Sound, Sound', [Next]_vars
  PROVE  [Ledger!Next]_(Ledger!vars)
<1> DEFINE final    == {t \in Txs : mined[t] # 0 /\ mined[t] <= fin}
           standing == [o \in Ops |-> Standing(attempt[o])]
<1>1. final' \in SUBSET Txs /\ final \subseteq final'
  BY FinalKept DEF Sound, Owned
<1>2. CASE attempt' = attempt /\ uses' = uses
  <2>1. standing' = standing
    BY <1>2
  <2>2. Ledger!Finalize
    BY <1>1, <1>2, <2>1 DEF Ledger!Finalize
  <2> QED
    BY <2>2 DEF Ledger!Next
<1>3. ASSUME NEW t \in Txs, RivalClaims(t) PROVE Ledger!RivalClaim(t)
  <2>1. attempt' = attempt /\ mined' = mined /\ fin' = fin
    BY <1>3 DEF RivalClaims
  <2>2. standing' = standing /\ final' = final
    BY <2>1 DEF Standing
  <2> QED
    BY <1>3, <2>2 DEF RivalClaims, Ledger!RivalClaim
<1>4. ASSUME NEW r \in Requests, Writes(r), ~(attempt' = attempt /\ uses' = uses)
      PROVE  Ledger!Next \/ UNCHANGED Ledger!vars
  <2> DEFINE o == req[r].op
             t == req[r].tx
             a == attempt[o]
  <2>1. mined' = mined /\ fin' = fin
    BY <1>4 DEF Writes, InsertAttempt, HoldForReview, RecordSettlement, RecordFinality
  <2>2. final' = final
    BY <2>1
  <2>3. PICK b \in Row :
          /\ o \in Ops
          /\ attempt' = [attempt EXCEPT ![o] = b]
          /\ \/ Inserted(a, b) /\ uses' = uses
             \/ Held(a, b) /\ uses' = uses
             \/ /\ Stored(a, b, t) /\ t \in Txs
                /\ \/ /\ b.status = "settled" /\ uses[t] = None
                      /\ uses' = [uses EXCEPT ![t] = o]
                   \/ b.status = "needs_review" /\ uses' = uses
             \/ RecordFinality(r) /\ Decided(a, b, req[r].facts) /\ uses' = uses
    BY <1>4, WriteCases DEF Sound, Owned
  <2>4. a \in Row /\ attempt'[o] = b /\ \A x \in Ops : x # o => attempt'[x] = attempt[x]
    BY <2>3 DEF Sound, Owned, Typed, TypeOK
  <2> DEFINE after == Standing(b)
  <2>5. standing' = [standing EXCEPT ![o] = after]
    <3>1. \A x \in Ops : Standing(attempt'[x]) =
                          IF x = o THEN after ELSE Standing(attempt[x])
      BY <2>4
    <3>2. standing' = [x \in Ops |-> Standing(attempt'[x])]
      OBVIOUS
    <3> HIDE DEF after, o
    <3> QED
      BY <3>1, <3>2
  <2>6. /\ standing[o] = Standing(a)
        /\ b.status \in {"none", "settling"} => after = "open"
        /\ b.status = "settled" => after = "pending"
        /\ b.status = "verified" => after = "paid"
        /\ b.status = "needs_review"
             => after = IF b.tx = None THEN "held" ELSE "refused"
    BY <2>3 DEF Standing
  <2>7. CASE Inserted(a, b) /\ uses' = uses
    <3>1. Standing(a) = "open" /\ after = "open"
      BY <2>6, <2>7 DEF Inserted, Standing
    <3>2. standing' = standing
      BY <2>3, <2>5, <2>6, <3>1
    <3> QED
      BY <2>2, <2>7, <3>2 DEF Ledger!vars
  <2>8. CASE Held(a, b) /\ uses' = uses
    <3>1. a.tx = None /\ Standing(a) = "open"
      BY <2>3, <2>8 DEF Held, Standing, Sound, Owned, Unspent
    <3>2. b.tx = None /\ b.status = "needs_review"
      BY <2>4, <2>8, <3>1 DEF Held, Row
    <3>3. Ledger!Hold(o)
      BY <2>2, <2>5, <2>6, <2>8, <3>1, <3>2 DEF Ledger!Hold
    <3> QED
      BY <2>3, <3>3 DEF Ledger!Next
  <2>9. CASE /\ Stored(a, b, t) /\ t \in Txs /\ b.status = "settled"
             /\ uses[t] = None /\ uses' = [uses EXCEPT ![t] = o]
    <3>1. Standing(a) \in {"open", "held"}
      BY <2>9 DEF Stored, Standing
    <3>2. Ledger!Claim(o, t)
      BY <2>2, <2>5, <2>6, <2>9, <3>1 DEF Ledger!Claim
    <3> QED
      BY <2>3, <2>9, <3>2 DEF Ledger!Next
  <2>10. CASE /\ Stored(a, b, t) /\ t \in Txs /\ b.status = "needs_review"
              /\ uses' = uses
    <3>1. b = Taken(a, t) /\ a.review = "none"
      BY <2>4, <2>10 DEF Stored, Claimed, Row
    <3>2. a.status = "settling" /\ b.tx = t
      BY <2>3, <2>4, <2>10, <3>1 DEF Stored, Taken, Row, Sound, Owned, Unspent
    <3>3. Standing(a) = "open" /\ after = "refused"
      BY <2>6, <2>10, <3>2, CustodyAssumption DEF Standing
    <3>4. Ledger!Refuse(o)
      BY <2>2, <2>5, <2>6, <2>10, <3>3 DEF Ledger!Refuse
    <3> QED
      BY <2>3, <3>4 DEF Ledger!Next
  <2>11. CASE RecordFinality(r) /\ Decided(a, b, req[r].facts) /\ uses' = uses
    <3>1. /\ b.status = req[r].facts.outcome /\ b.tx = a.tx
          /\ req[r].facts.outcome \in {"verified", "needs_review"}
          /\ Standing(a) = "pending"
      BY <2>4, <2>11
         DEF Decided, Finalized, Row, Standing, Sound, Owned, Typed, TypeOK, Req, Facts
    <3>2. a.tx \in Txs /\ uses[a.tx] = o
      BY <2>3, <2>4, <2>11, CustodyAssumption
         DEF Decided, Row, Sound, Owned, OneOwner
    <3>3. CASE b.status = "verified"
      <4>1. a.tx \in final
        BY <2>11, <3>2 DEF RecordFinality, Sound, ReadsRow, FactsTrue, Reading
      <4>2. Ledger!Owns(o, a.tx)
        BY <3>2 DEF Ledger!Owns
      <4>3. Ledger!Pay(o)
        BY <2>2, <2>5, <2>6, <2>11, <3>1, <3>3, <4>1, <4>2 DEF Ledger!Pay
      <4> QED
        BY <2>3, <4>3 DEF Ledger!Next
    <3>4. CASE b.status = "needs_review"
      <4>1. after = "refused"
        BY <2>6, <3>1, <3>2, <3>4, CustodyAssumption
      <4>2. Ledger!Refuse(o)
        BY <2>2, <2>5, <2>6, <2>11, <3>1, <4>1 DEF Ledger!Refuse
      <4> QED
        BY <2>3, <4>2 DEF Ledger!Next
    <3> QED
      BY <3>1, <3>3, <3>4
  <2> QED
    BY <2>3, <2>7, <2>8, <2>9, <2>10, <2>11
<1> QED
  BY <1>2, <1>3, <1>4, WriteStep DEF Ledger!Next

\* x402 custody is one of the market's payment channels: every step of its
\* requests is a step of the abstract ledger or changes nothing there.
THEOREM CustodyImplementsLedger == Spec => LedgerSpec
<1>1. Sound /\ Sound' /\ [Next]_vars => [Ledger!Next]_(Ledger!vars)
  BY StepLedger
<1> QED
  BY <1>1, InitLedger, InitSound, StepSound, PTL DEF Spec, LedgerSpec, Ledger!Spec

---------------------------------------------------------------------------
(* The ledger itself, for any channel: its actions, its view of            *)
(* payment_uses and how far each action is are parameters of their own.    *)

CONSTANT Payments

VARIABLES payer, stage, landed

Channel == INSTANCE PaymentLedger WITH
  Actions  <- Payments,
  owner    <- payer,
  standing <- stage,
  final    <- landed

ChannelInv == Channel!TypeOK /\ Channel!OneTransaction

LEMMA InitChannel == Channel!LedgerAssumption /\ Channel!Init => ChannelInv
BY DEF Channel!LedgerAssumption, Channel!Init, ChannelInv, Channel!TypeOK,
   Channel!OneTransaction, Channel!Standings, Channel!Owns

LEMMA StepChannel ==
  ASSUME Channel!LedgerAssumption, ChannelInv, [Channel!Next]_(Channel!vars)
  PROVE  ChannelInv'
<1> USE DEF Channel!LedgerAssumption, ChannelInv, Channel!TypeOK,
            Channel!OneTransaction, Channel!Standings, Channel!Owns
<1>1. ASSUME NEW a \in Payments, NEW t \in Txs, Channel!Claim(a, t) PROVE ChannelInv'
  <2>1. Channel!TypeOK'
    BY <1>1 DEF Channel!Claim
  <2>2. /\ payer'[t] = a /\ \A s \in Txs : s # t => payer'[s] = payer[s]
        /\ stage'[a] = "pending" /\ landed' = landed
        /\ \A b \in Payments : b # a => stage'[b] = stage[b]
        /\ \A s \in Txs : payer[s] # a
        /\ payer[t] = None
    BY <1>1 DEF Channel!Claim
  <2>3. ASSUME NEW b \in Payments
        PROVE  /\ stage'[b] \in {"pending", "paid"} =>
                    \E s \in Txs : payer'[s] = b /\ \A u \in Txs : payer'[u] = b => u = s
               /\ stage'[b] \in {"open", "held"} => \A s \in Txs : payer'[s] # b
               /\ stage'[b] = "paid" => \E s \in landed' : payer'[s] = b
    <3>1. CASE b = a
      BY <2>2, <3>1
    <3>2. CASE b # a
      <4>1. \A s \in Txs : payer'[s] = b <=> payer[s] = b
        BY <2>2, <3>2
      <4> QED
        BY <2>2, <3>2, <4>1
    <3> QED
      BY <3>1, <3>2
  <2> QED
    BY <2>1, <2>3
<1>2. ASSUME NEW a \in Payments, Channel!Pay(a) \/ Channel!Hold(a) \/ Channel!Refuse(a)
      PROVE  ChannelInv'
  BY <1>2 DEF Channel!Pay, Channel!Hold, Channel!Refuse
<1>3. ASSUME NEW t \in Txs, Channel!RivalClaim(t) PROVE ChannelInv'
  <2>1. Channel!TypeOK'
    BY <1>3 DEF Channel!RivalClaim
  <2>2. \A b \in Payments, s \in Txs : payer'[s] = b <=> payer[s] = b
    BY <1>3 DEF Channel!RivalClaim
  <2>3. stage' = stage /\ landed' = landed
    BY <1>3 DEF Channel!RivalClaim
  <2> QED
    BY <2>1, <2>2, <2>3
<1>4. CASE Channel!Finalize \/ UNCHANGED Channel!vars
  BY <1>4 DEF Channel!Finalize, Channel!vars
<1> QED
  BY <1>1, <1>2, <1>3, <1>4 DEF Channel!Next

\* In every channel that implements the ledger, an action that is pending or paid
\* owns exactly one transaction, a paid one a final one, and an open or held one
\* owns none (payment_uses).
THEOREM LedgerKeepsOne ==
  ASSUME Channel!LedgerAssumption
  PROVE  Channel!Spec => []Channel!OneTransaction
<1>1. Channel!Init => ChannelInv
  BY InitChannel
<1>2. ChannelInv /\ [Channel!Next]_(Channel!vars) => ChannelInv'
  BY StepChannel
<1>3. ChannelInv => Channel!OneTransaction
  BY DEF ChannelInv
<1> QED
  BY <1>1, <1>2, <1>3, PTL DEF Channel!Spec
=============================================================================
