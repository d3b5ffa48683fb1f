---------------------------- MODULE X402Custody ----------------------------
(***************************************************************************)
(* Custody of an x402 payment: src/pay.ts and src/x402-payment-attempts.ts *)
(* with the database triggers of db/schema.sql they rely on.               *)
(*                                                                         *)
(* A paid request (buying a good, creating a listing) belongs to one paid  *)
(* operation.  It must bind the buyer's signed proof to the operation in   *)
(* x402_payment_attempts before it asks the facilitator to move money, may *)
(* ask only once, and may unlock the goods only when Base has finalized    *)
(* the transfer that proof authorizes.  Requests run on separate           *)
(* serverless instances: each await below is a step of its own, two        *)
(* requests of one operation interleave freely, and a request may die      *)
(* between any two steps.                                                  *)
(***************************************************************************)
EXTENDS Integers

CONSTANTS
  Ops,        \* paid operations (operation_key)
  Proofs,     \* X-PAYMENT proofs (proof_digest)
  Auths,      \* EIP-3009 authorizations (payer wallet and nonce)
  AuthOf,     \* the authorization each proof carries
  Txs,        \* Base transactions
  Pays,       \* what each transaction settles: an authorization or nothing
  Requests,   \* concurrently running requests
  MaxTime,    \* bound: last block of the chain, which is also the clock
  None,       \* absent proof, transaction, owner or operation
  Rival       \* any other payment channel owning a transaction

ASSUME CustodyAssumption ==
  /\ AuthOf \in [Proofs -> Auths]
  /\ Pays \in [Txs -> Auths \cup {None}]
  /\ \A s, t \in Txs : Pays[s] = Pays[t] /\ Pays[s] # None => s = t
  /\ None \notin Ops \cup Proofs \cup Auths \cup Txs \cup {Rival}
  /\ Rival \notin Ops
  /\ MaxTime \in Nat \ {0}

VARIABLES
  now,        \* latest Base block
  fin,        \* finalized Base block
  mined,      \* the block holding each transaction, 0 outside the chain
  attempt,    \* table x402_payment_attempts, a row per operation
  uses,       \* table payment_uses, the owner of each transaction
  req,        \* the state of each running request
  sent        \* history: /settle calls made for an operation with a proof

vars == <<now, fin, mined, attempt, uses, req, sent>>

---------------------------------------------------------------------------
(* The stored row and the memory of a request.                             *)

Time == 0..MaxTime

Row == [status : {"none", "settling", "settled", "verified", "needs_review"},
        proof  : Proofs \cup {None},
        start  : Time,                    \* operation_started_at
        block  : Time,                    \* start_block
        tx     : Txs \cup {None},
        review : {"none", "uncertain", "taken", "contradicted"},
        final  : Time,                    \* finalized_block_number, 0 if NULL
        at     : Time]                    \* finalized_at

NoRow == [status |-> "none", proof |-> None, start |-> 0, block |-> 0,
          tx |-> None, review |-> "none", final |-> 0, at |-> 0]

Labels == {"idle", "resume", "custody", "anchor", "verify", "begin", "insert",
           "raced", "settle", "await", "record", "hold", "rehold", "chain",
           "stored", "finalize", "refinalize"}

Answers == {"none", "challenge", "invalid", "conflict",
            "unavailable", "needs_review", "verified"}

Facts == [outcome : {"verified", "needs_review"}, block : Time, at : Time]

NoFacts == [outcome |-> "needs_review", block |-> 0, at |-> 0]

Req == [pc     : Labels,
        op     : Ops \cup {None},
        proof  : Proofs \cup {None},      \* None: no X-PAYMENT header
        start  : Time,
        block  : Time,
        row    : Row,                     \* last attempt row read
        tx     : Txs \cup {None},         \* the facilitator's transaction
        facts  : Facts,                   \* finality read from Base
        had    : BOOLEAN,                 \* history: a row existed at start
        answer : Answers]

IdleReq == [pc |-> "idle", op |-> None, proof |-> None, start |-> 0,
            block |-> 0, row |-> NoRow, tx |-> None, facts |-> NoFacts,
            had |-> FALSE, answer |-> "none"]

Init ==
  /\ now = 1
  /\ fin = 0
  /\ mined = [t \in Txs |-> 0]
  /\ attempt = [o \in Ops |-> NoRow]
  /\ uses = [t \in Txs |-> None]
  /\ req = [r \in Requests |-> IdleReq]
  /\ sent = [x \in Ops \X Proofs |-> 0]

---------------------------------------------------------------------------
(* How a request moves on.                                                 *)

Exists(o) == attempt[o].status # "none"

Goto(r, label) == req' = [req EXCEPT ![r].pc = label]

Reply(r, x) ==
  req' = [req EXCEPT ![r] =
            [IdleReq EXCEPT !.op = req[r].op, !.answer = x]]

\* The route lets a stored result out only to its original proof or to a
\* request without one.
ReplyStored(r, x) ==
  Reply(r, IF req[r].proof \in {None, attempt[req[r].op].proof}
           THEN x ELSE "conflict")

\* classifyStoredX402Payment up to its chain read.
Classify(r, a) ==
  IF a.tx # None /\ a.status = "settled"
  THEN req' = [req EXCEPT ![r].pc = "chain", ![r].row = a]
  ELSE ReplyStored(r, IF a.status = "verified" THEN "verified"
                                               ELSE "needs_review")

\* Mutant of Resume: an attempt left settling is reported and left alone.
ForgetUnsettled(r, a) ==
  IF a.tx = None /\ a.status = "settling"
  THEN ReplyStored(r, "unavailable") ELSE Classify(r, a)

\* resumeStoredX402Payment: an attempt still settling was left by a request
\* whose outcome is unknown, so it is held for review.
Resume(r, a) ==
  IF a.tx = None /\ a.status = "settling"
  THEN req' = [req EXCEPT ![r].pc = "hold", ![r].row = a]
  ELSE Classify(r, a)

---------------------------------------------------------------------------
(* A request arrives and looks for a saved payment.                        *)

Start(r, o, p) ==
  /\ req[r].pc = "idle"
  /\ req' = [req EXCEPT ![r] = [IdleReq EXCEPT !.pc = "resume", !.op = o,
               !.proof = p, !.start = now, !.had = Exists(o)]]
  /\ UNCHANGED <<now, fin, mined, attempt, uses, sent>>

\* Mutant of ReadSaved: the 402 challenge comes before the saved payment.
ChallengeFirst(r) ==
  LET o == req[r].op IN
  /\ req[r].pc = "resume"
  /\ \/ req[r].proof = None /\ Reply(r, "challenge")
     \/ req[r].proof # None /\ Exists(o) /\ Resume(r, attempt[o])
     \/ req[r].proof # None /\ ~Exists(o) /\ Goto(r, "custody")
  /\ UNCHANGED <<now, fin, mined, attempt, uses, sent>>

\* resumeX402PaymentForTerms; without a saved payment and without a header the
\* route answers with the 402 challenge.
ReadSaved(r) ==
  LET o == req[r].op IN
  /\ req[r].pc = "resume"
  /\ \/ Exists(o) /\ Resume(r, attempt[o])
     \/ ~Exists(o) /\ req[r].proof # None /\ Goto(r, "custody")
     \/ ~Exists(o) /\ req[r].proof = None /\ Reply(r, "challenge")
  /\ UNCHANGED <<now, fin, mined, attempt, uses, sent>>

\* settleX402WithCustody checks the signed terms locally, then reads again: a
\* row that appeared since is resumed only by the request whose proof and
\* start it stores.
ReadCustody(r) ==
  LET o == req[r].op IN
  /\ req[r].pc = "custody"
  /\ \/ Reply(r, "invalid")
     \/ ~Exists(o) /\ Goto(r, "anchor")
     \/ Exists(o) /\ (IF attempt[o].proof = req[r].proof
                          /\ attempt[o].start = req[r].start
                       THEN Resume(r, attempt[o]) ELSE Reply(r, "conflict"))
  /\ UNCHANGED <<now, fin, mined, attempt, uses, sent>>

\* Mutant of ReadHead: the anchor is the block being built.
AnchorAhead(r) ==
  /\ req[r].pc = "anchor"
  /\ req' = [req EXCEPT ![r].pc = "verify", ![r].block = now + 1]
  /\ UNCHANGED <<now, fin, mined, attempt, uses, sent>>

ReadHead(r) ==
  /\ req[r].pc = "anchor"
  /\ req' = [req EXCEPT ![r].pc = "verify", ![r].block = now]
  /\ UNCHANGED <<now, fin, mined, attempt, uses, sent>>

\* The facilitator's /verify: its approval binds nothing.
Verify(r) ==
  /\ req[r].pc = "verify"
  /\ \/ Goto(r, "begin")
     \/ Reply(r, "invalid")
     \/ Reply(r, "unavailable")
  /\ UNCHANGED <<now, fin, mined, attempt, uses, sent>>

---------------------------------------------------------------------------
(* beginX402Settlement: bind the proof, its authorization and the          *)
(* operation to each other before any money moves.                         *)

\* The row readAttempt returns: the operation's own, else the one that holds
\* this proof or this authorization.
Owners(o, p) ==
  IF Exists(o) THEN {o}
  ELSE {x \in Ops : Exists(x) /\ AuthOf[attempt[x].proof] = AuthOf[p]}

MatchesTerms(r, o) ==
  /\ o = req[r].op
  /\ attempt[o].proof = req[r].proof
  /\ attempt[o].start = req[r].start
  /\ attempt[o].block = req[r].block

UseExisting(r) ==
  \E o \in Owners(req[r].op, req[r].proof) :
    IF MatchesTerms(r, o) THEN Resume(r, attempt[o]) ELSE Reply(r, "conflict")

BeginRead(r) ==
  /\ req[r].pc = "begin"
  /\ \/ UseExisting(r)
     \/ Owners(req[r].op, req[r].proof) = {} /\ Goto(r, "insert")
  /\ UNCHANGED <<now, fin, mined, attempt, uses, sent>>

NewRow(r) == [NoRow EXCEPT !.status = "settling", !.proof = req[r].proof,
                           !.start = req[r].start, !.block = req[r].block]

\* Mutant of InsertAttempt: ON CONFLICT (operation_key) DO UPDATE.
UpsertAttempt(r) ==
  LET o == req[r].op IN
  /\ req[r].pc = "insert"
  /\ attempt' = [attempt EXCEPT ![o] = NewRow(r)]
  /\ req' = [req EXCEPT ![r].pc = "settle", ![r].row = NewRow(r)]
  /\ UNCHANGED <<now, fin, mined, uses, sent>>

\* INSERT ... ON CONFLICT DO NOTHING against the unique operation key, proof
\* digest and authorization.
InsertAttempt(r) ==
  LET o == req[r].op IN
  /\ req[r].pc = "insert"
  /\ IF Owners(o, req[r].proof) = {}
     THEN /\ attempt' = [attempt EXCEPT ![o] = NewRow(r)]
          /\ req' = [req EXCEPT ![r].pc = "settle", ![r].row = NewRow(r)]
     ELSE Goto(r, "raced") /\ UNCHANGED attempt
  /\ UNCHANGED <<now, fin, mined, uses, sent>>

RacedRead(r) ==
  /\ req[r].pc = "raced"
  /\ UseExisting(r)
  /\ UNCHANGED <<now, fin, mined, attempt, uses, sent>>

---------------------------------------------------------------------------
(* /settle, called once, and what the request does with its answer.        *)

CallSettle(r) ==
  /\ req[r].pc = "settle"
  /\ sent' = [sent EXCEPT ![<<req[r].op, req[r].proof>>] = @ + 1]
  /\ Goto(r, "await")
  /\ UNCHANGED <<now, fin, mined, attempt, uses>>

\* The facilitator reports a transaction, truthfully or not.
SettleAnswers(r, t) ==
  /\ req[r].pc = "await"
  /\ req' = [req EXCEPT ![r].pc = "record", ![r].tx = t]
  /\ UNCHANGED <<now, fin, mined, attempt, uses, sent>>

\* A refusal, a timeout or an unreadable answer: the money may have moved.
SettleInconclusive(r) ==
  /\ req[r].pc = "await"
  /\ Goto(r, "hold")
  /\ UNCHANGED <<now, fin, mined, attempt, uses, sent>>

\* Mutant of HoldForReview: the update forgets "AND status = 'settling'".
HoldAlways(r) ==
  LET o == req[r].op IN
  /\ req[r].pc = "hold"
  /\ attempt' = [attempt EXCEPT ![o].status = "needs_review",
                                ![o].review = "uncertain"]
  /\ ReplyStored(r, "needs_review")
  /\ UNCHANGED <<now, fin, mined, uses, sent>>

\* markX402SettlementNeedsReview.
HoldForReview(r) ==
  LET o == req[r].op IN
  /\ req[r].pc = "hold"
  /\ IF attempt[o].status = "settling"
     THEN /\ attempt' = [attempt EXCEPT ![o].status = "needs_review",
                                        ![o].review = "uncertain"]
          /\ ReplyStored(r, "needs_review")
     ELSE Goto(r, "rehold") /\ UNCHANGED attempt
  /\ UNCHANGED <<now, fin, mined, uses, sent>>

HoldReread(r) ==
  LET a == attempt[req[r].op] IN
  /\ req[r].pc = "rehold"
  /\ IF a.tx # None THEN Classify(r, a)
     ELSE ReplyStored(r, IF a.status = "needs_review" THEN "needs_review"
                                                      ELSE "unavailable")
  /\ UNCHANGED <<now, fin, mined, attempt, uses, sent>>

\* The row recordX402Settlement writes once reserve_x402_payment_attempt_use
\* has tried to claim the transaction in payment_uses.
Claimed(a, t) == [a EXCEPT !.status = "settled", !.tx = t, !.review = "none"]

\* Mutant of Taken: a lost claim is not noticed.
TakenUnnoticed(a, t) == Claimed(a, t)

Taken(a, t) == [a EXCEPT !.status = "needs_review", !.tx = t,
                         !.review = "taken"]

\* recordX402Settlement, in one database transaction with its triggers.  A
\* second row with the same transaction violates tx_hash UNIQUE, and
\* protect_x402_payment_attempt_history refuses to replace a review reason by
\* another one: both roll the whole statement back.  The re-read that follows
\* an update of no row is left out: AnswersOwnRow says no request reaches it.
RecordSettlement(r) ==
  LET o == req[r].op
      t == req[r].tx
      a == attempt[o]
      writable == a.status \in {"settling", "needs_review"} /\ a.tx = None
      doubled  == \E x \in Ops : attempt[x].tx = t
  IN
  /\ req[r].pc = "record" /\ writable
  /\ \/ /\ uses[t] = None
        /\ attempt' = [attempt EXCEPT ![o] = Claimed(a, t)]
        /\ uses' = [uses EXCEPT ![t] = o]
        /\ Classify(r, Claimed(a, t))
     \/ /\ uses[t] # None /\ ~doubled /\ a.review = "none"
        /\ attempt' = [attempt EXCEPT ![o] = Taken(a, t)]
        /\ Classify(r, Taken(a, t))
        /\ UNCHANGED uses
     \/ /\ uses[t] # None /\ (doubled \/ a.review # "none")
        /\ Reply(r, "unavailable")
        /\ UNCHANGED <<attempt, uses>>
  /\ UNCHANGED <<now, fin, mined, sent>>

---------------------------------------------------------------------------
(* Finality: read the chain, then store what it says.                      *)

\* classifyUsdcTransfer with the stored authorization: conclusive only for a
\* transaction at or below the finalized head.
ReadChain(r) ==
  LET t == req[r].row.tx IN
  /\ req[r].pc = "chain"
  /\ \/ /\ mined[t] # 0 /\ mined[t] <= fin
        /\ req' = [req EXCEPT ![r].pc = "stored",
             ![r].facts = [outcome |-> IF Pays[t] = AuthOf[req[r].row.proof]
                                       THEN "verified" ELSE "needs_review",
                           block |-> mined[t], at |-> now]]
     \/ ~(mined[t] # 0 /\ mined[t] <= fin) /\ ReplyStored(r, "unavailable")
  /\ UNCHANGED <<now, fin, mined, attempt, uses, sent>>

\* Mutant of Anchored: any finalized transfer is evidence.
Unanchored(a, f) == f

\* anchorFinality: a transfer older than the operation is no evidence for it.
Anchored(a, f) ==
  IF f.outcome = "verified" /\ f.block < a.block
  THEN [f EXCEPT !.outcome = "needs_review"] ELSE f

MatchesFinality(a, f) ==
  a.status = f.outcome /\ a.final = f.block /\ a.at = f.at

\* recordX402Finality, its first read.
ReadStored(r) ==
  LET a == attempt[req[r].op]
      f == Anchored(a, req[r].facts)
  IN
  /\ req[r].pc = "stored"
  /\ IF a.status = "settled"
     THEN req' = [req EXCEPT ![r].pc = "finalize", ![r].facts = f]
     ELSE IF MatchesFinality(a, f) THEN Classify(r, a)
          ELSE ReplyStored(r, "unavailable")
  /\ UNCHANGED <<now, fin, mined, attempt, uses, sent>>

Finalized(a, f) ==
  [a EXCEPT !.status = f.outcome, !.final = f.block, !.at = f.at,
            !.review = IF f.outcome = "verified" THEN "none"
                                                 ELSE "contradicted"]

RecordFinality(r) ==
  LET o == req[r].op
      a == Finalized(attempt[o], req[r].facts)
  IN
  /\ req[r].pc = "finalize"
  /\ IF attempt[o].status = "settled"
     THEN attempt' = [attempt EXCEPT ![o] = a] /\ Classify(r, a)
     ELSE Goto(r, "refinalize") /\ UNCHANGED attempt
  /\ UNCHANGED <<now, fin, mined, uses, sent>>

FinalityReread(r) ==
  LET a == attempt[req[r].op] IN
  /\ req[r].pc = "refinalize"
  /\ IF MatchesFinality(a, req[r].facts) THEN Classify(r, a)
     ELSE ReplyStored(r, "unavailable")
  /\ UNCHANGED <<now, fin, mined, attempt, uses, sent>>

---------------------------------------------------------------------------
(* The request's world.                                                    *)

\* The function is killed, or a database or Base call fails.
Abandon(r) ==
  /\ req[r].pc # "idle"
  /\ req' = [req EXCEPT ![r] = IdleReq]
  /\ UNCHANGED <<now, fin, mined, attempt, uses, sent>>

\* Another channel (a direct claim, a direct fee, a world receipt) claims a
\* transaction in payment_uses first.
RivalClaims(t) ==
  /\ uses[t] = None
  /\ uses' = [uses EXCEPT ![t] = Rival]
  /\ UNCHANGED <<now, fin, mined, attempt, req, sent>>

\* Anyone holding a signed authorization may submit it, at any time.
Mine(t) ==
  /\ mined[t] = 0 /\ fin < now
  /\ mined' = [mined EXCEPT ![t] = now]
  /\ UNCHANGED <<now, fin, attempt, uses, req, sent>>

Reorg(t) ==
  /\ mined[t] > fin
  /\ mined' = [mined EXCEPT ![t] = 0]
  /\ UNCHANGED <<now, fin, attempt, uses, req, sent>>

NewBlock ==
  /\ now < MaxTime
  /\ now' = now + 1
  /\ UNCHANGED <<fin, mined, attempt, uses, req, sent>>

FinalizeBlock ==
  /\ fin < now
  /\ fin' = fin + 1
  /\ UNCHANGED <<now, mined, attempt, uses, req, sent>>

---------------------------------------------------------------------------

Arrive(r) == \E o \in Ops, p \in Proofs \cup {None} : Start(r, o, p)

Bind(r) == ReadSaved(r) \/ ReadCustody(r) \/ ReadHead(r) \/ Verify(r)
           \/ BeginRead(r) \/ InsertAttempt(r) \/ RacedRead(r)

Settle(r) == CallSettle(r) \/ (\E t \in Txs : SettleAnswers(r, t))
             \/ SettleInconclusive(r) \/ HoldForReview(r) \/ HoldReread(r)
             \/ RecordSettlement(r)

Confirm(r) == ReadChain(r) \/ ReadStored(r) \/ RecordFinality(r)
              \/ FinalityReread(r)

Chain == (\E t \in Txs : Mine(t) \/ Reorg(t)) \/ NewBlock \/ FinalizeBlock

Next ==
  \/ \E r \in Requests :
       Arrive(r) \/ Bind(r) \/ Settle(r) \/ Confirm(r) \/ Abandon(r)
  \/ \E t \in Txs : RivalClaims(t)
  \/ Chain

Spec == Init /\ [][Next]_vars

(***************************************************************************)
(* Nothing in the code revisits a stored attempt by itself: only the       *)
(* request the buyer sends again does.  Fairness therefore assumes a buyer *)
(* who keeps retrying without paying again, as every answer tells him to,  *)
(* a platform that ends every request in the end, crashes that do not hit  *)
(* every request at the same point for ever, and a Base that keeps         *)
(* finalizing.                                                             *)
(***************************************************************************)
Retry(o) == \E r \in Requests : Start(r, o, None)

FairSpec ==
  /\ Spec
  /\ WF_vars(FinalizeBlock)
  /\ \A r \in Requests :
       WF_vars(Bind(r) \/ Settle(r) \/ Confirm(r) \/ Abandon(r))
  /\ \A o \in Ops :
       LET OneFor(Step(_)) == \E r \in Requests : req[r].op = o /\ Step(r) IN
       /\ SF_vars(Retry(o))
       /\ SF_vars(OneFor(ReadSaved)) /\ SF_vars(OneFor(HoldForReview))
       /\ SF_vars(OneFor(ReadChain)) /\ SF_vars(OneFor(ReadStored))
       /\ SF_vars(OneFor(RecordFinality))

---------------------------------------------------------------------------
(* What custody promises.                                                  *)

TypeOK ==
  /\ now \in Time /\ fin \in Time
  /\ mined \in [Txs -> Time]
  /\ attempt \in [Ops -> Row]
  /\ uses \in [Txs -> Ops \cup {None, Rival}]
  /\ req \in [Requests -> Req]
  /\ sent \in [Ops \X Proofs -> Nat]

\* Money is asked for once.  However many requests run, die and come back, the
\* facilitator is called at most once for an operation and at most once for an
\* authorization, and only for the proof the operation's row already stores
\* (the contract of beginX402Settlement).
SettleOnce ==
  \A o1, o2 \in Ops, p1, p2 \in Proofs :
    /\ sent[<<o1, p1>>] <= 1
    /\ sent[<<o1, p1>>] > 0 => attempt[o1].proof = p1
    /\ (sent[<<o1, p1>>] > 0 /\ sent[<<o2, p2>>] > 0
        /\ (o1 = o2 \/ AuthOf[p1] = AuthOf[p2])) => o1 = o2 /\ p1 = p2

\* The answer of /settle has one reader.  The request that waits for it or is
\* about to store it is the only one of its operation, holds the row's proof and
\* finds the row still without a transaction, so the update of
\* recordX402Settlement never misses and its re-read is never needed.
Awaiting == {"settle", "await", "record"}

AnswersOwnRow ==
  \A r \in Requests : req[r].pc \in Awaiting =>
    LET o == req[r].op IN
    /\ attempt[o].status \in {"settling", "needs_review"}
    /\ attempt[o].proof = req[r].proof /\ attempt[o].tx = None
    /\ \A q \in Requests : req[q].pc \in Awaiting /\ req[q].op = o => q = r

\* One transaction, one paid action.  A settled or verified operation is the
\* owner of its transaction in payment_uses, and nothing x402 owns there is
\* missing from the operation's row (validate_x402_payment_attempt_use).
OneOwner ==
  /\ \A o \in Ops : attempt[o].status \in {"settled", "verified"}
                      => attempt[o].tx # None /\ uses[attempt[o].tx] = o
  /\ \A t \in Txs : uses[t] \in Ops => attempt[uses[t]].tx = t

\* Nothing is unlocked by a report.  A verified operation, and with it every
\* request told so, rests on a finalized transfer that spends exactly the
\* bound authorization and is no older than the operation.
PaidIsFinal ==
  /\ \A o \in Ops : attempt[o].status = "verified" =>
       LET a == attempt[o] IN
       /\ mined[a.tx] # 0 /\ mined[a.tx] <= fin
       /\ Pays[a.tx] = AuthOf[a.proof]
       /\ a.block <= mined[a.tx] /\ a.final = mined[a.tx]
  /\ \A r \in Requests : req[r].answer = "verified"
                           => attempt[req[r].op].status = "verified"

\* A request that arrives after its operation has a stored payment is never
\* invited to pay: it gets neither the 402 challenge nor a rejection of its
\* proof (the header of x402_payment_attempts: retry without X-PAYMENT).
NoSecondInvitation ==
  [][\A r \in Requests : req[r].had
        => req'[r].answer \notin {"challenge", "invalid"}]_req

\* A row keeps its history: terms never change, a transaction once stored
\* stays, a terminal row stays as it is, and the only way out of a review is
\* the late arrival of the transaction.
Progress(a, b) ==
  \/ a = b
  \/ a.status = "none" /\ b.status = "settling"
  \/ /\ b.proof = a.proof /\ b.start = a.start /\ b.block = a.block
     /\ \/ a.status = "settling" /\ b.status = "needs_review"
        \/ a.tx = None /\ b.tx # None /\ b.status \in {"settled", "needs_review"}
           /\ a.status \in {"settling", "needs_review"}
        \/ a.status = "settled" /\ b.tx = a.tx
           /\ b.status \in {"verified", "needs_review"} /\ b.final # 0

HistoryKept == [][\A o \in Ops : Progress(attempt[o], attempt'[o])]_attempt

OnChain(o) == \E t \in Txs : attempt[o].tx = t /\ mined[t] # 0

\* The comment on the reservation trigger (db/schema.sql:2340) and the test
\* named for it: when another market payment already owns the transaction the
\* facilitator reported, that transaction is preserved as a terminal review.
ConflictPreserved ==
  [][\A r \in Requests :
       RecordSettlement(r) /\ uses[req[r].tx] = Rival
         => /\ attempt'[req[r].op].tx = req[r].tx
            /\ attempt'[req[r].op].status = "needs_review"]_vars

\* Every payment is decided.  A row left settling by a request that died around
\* /settle, and a settled row whose transaction Base keeps, reach a verdict
\* (verified or a review) by retries alone, whatever the other requests do.
Undecided(o) == \/ attempt[o].status = "settling"
                \/ attempt[o].status = "settled" /\ OnChain(o)

EventuallyDecided == \A o \in Ops : Undecided(o) ~> ~Undecided(o)

---------------------------------------------------------------------------
(* Custody implements the market's ledger of paid actions.  An operation   *)
(* is open until its transaction is stored, held while its settlement is   *)
(* in doubt, and refused once a transaction is reviewed.                   *)

Standing(a) ==
  IF a.status \in {"none", "settling"} THEN "open"
  ELSE IF a.status = "settled" THEN "pending"
  ELSE IF a.status = "verified" THEN "paid"
  ELSE IF a.tx = None THEN "held" ELSE "refused"

Ledger == INSTANCE PaymentLedger WITH
  Actions  <- Ops,
  owner    <- uses,
  standing <- [o \in Ops |-> Standing(attempt[o])],
  final    <- {t \in Txs : mined[t] # 0 /\ mined[t] <= fin}

LedgerSpec == Ledger!Spec
=============================================================================
