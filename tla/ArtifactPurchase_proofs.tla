---------------------- MODULE ArtifactPurchase_proofs ----------------------
(***************************************************************************)
(* Proofs about ArtifactPurchase, for every set of orders, listings,       *)
(* wallets, transactions and requests: what was delivered was paid for, a  *)
(* claimed transaction stays with its claim, nothing is sold after the     *)
(* listing left, nobody is invited to pay twice, and direct claims         *)
(* implement PaymentLedger.                                                *)
(***************************************************************************)
EXTENDS ArtifactPurchase, TLAPS

---------------------------------------------------------------------------
(* What the memory of a request says at each label.                        *)

IntentLabels == {"look", "upsert", "existing"}

\* A claim that has read its intent and checked the signature over it.
Signed == {"transfer", "reserve", "reread", "record"}

ClaimLabels == {"listing", "row", "sign", "review"} \cup Signed

\* A transfer read from Base, and its verdict kept.
Verified(m) ==
  \/ m.pc = "record"
  \/ m.pc \in {"reserve", "reread"} /\ m.facts = "verified"

MemoryOK(m) ==
  /\ m.pc = "idle" => ~m.had
  /\ m.pc # "idle" => m.order \in Orders /\ m.started # 0 /\ m.answer = "none"
  /\ m.pc \in IntentLabels => m.payer \in Wallets
  /\ m.pc \in ClaimLabels => m.tx \in Txs

Remembers == \A r \in Requests : MemoryOK(req[r])

Typed == TypeOK /\ now # 0 /\ Remembers

Final(t) == mined[t] # 0 /\ mined[t] <= fin

\* A finalized transfer out of wallet w that pays the seller of order o.
Backed(t, o, w, at) ==
  /\ Final(t) /\ at = mined[t]
  /\ From[t] = w /\ ListingOf[o] \in Covers[t]

---------------------------------------------------------------------------
(* How a request moves: it ends with an answer, starts from nothing, or    *)
(* goes on, keeping what it was asked and adding what it learned.          *)

Ended(n) == n.pc = "idle" /\ ~n.had

Started(m, n) ==
  /\ m.pc = "idle" /\ n.pc \in {"look", "listing", "shop"}
  /\ n.order \in Orders /\ n.started = now /\ n.answer = "none"
  /\ n.had = Stored(n.order)
  /\ n.pc = "look" => n.payer \in Wallets
  /\ n.pc = "listing" => n.tx \in Txs

WentOn(m, n) ==
  /\ m.pc # "idle" /\ n.pc # "idle"
  /\ n.order = m.order /\ n.started = m.started /\ n.answer = m.answer
  /\ n.payer = m.payer /\ n.tx = m.tx /\ n.had = m.had
  /\ n.pc \in IntentLabels => m.pc \in IntentLabels
  /\ n.pc \in ClaimLabels => m.pc \in ClaimLabels
  /\ n.pc \in Signed => /\ n.row = m.row
                        /\ \/ m.pc = "sign" /\ m.row.payer \in Controls[m.order]
                           \/ m.pc \in Signed
  /\ Verified(n) => /\ m.pc \in Signed
                    /\ \/ Verified(m) /\ n.paid = m.paid
                       \/ Backed(m.tx, m.order, m.row.payer, n.paid)
  /\ n.pc = "deliver" => x402[m.order].standing = "paid"

Moved(r) ==
  /\ req' \in [Requests -> Req]
  /\ \A q \in Requests \ {r} : req'[q] = req[q]
  /\ Ended(req'[r]) \/ Started(req[r], req'[r]) \/ WentOn(req[r], req'[r])

LEMMA Basics ==
  /\ 0 \in Time /\ NoIntent \in Intent /\ NoCustody \in Custody
  /\ NoPurchase \in Purchase /\ IdleReq \in Req
  /\ None \notin Txs /\ None \notin Orders /\ None \notin Wallets
<1>1. 0 \in Time /\ 0 \in 0..(MaxTime + TTL)
  BY PurchaseAssumption DEF Time
<1>2. NoIntent \in Intent
  BY <1>1 DEF NoIntent, Intent
<1>3. NoCustody \in Custody /\ NoPurchase \in Purchase
  BY <1>1 DEF NoCustody, Custody, NoPurchase, Purchase
<1>4. IdleReq \in Req
  BY <1>1, <1>2 DEF IdleReq, Req, Labels, Answers
<1> QED
  BY <1>1, <1>2, <1>3, <1>4, PurchaseAssumption

LEMMA GoneTyped == TypeOK => \A l \in Listings : Gone(l) \in Time
<1> SUFFICES ASSUME TypeOK, NEW l \in Listings PROVE Gone(l) \in Time
  OBVIOUS
<1> DEFINE a == shelf[l]["removed"]
           b == shelf[l]["withdrawn"]
           out == {shelf[l][d] : d \in Doors} \ {0}
<1>1. a \in Time /\ b \in Time /\ out = {a, b} \ {0}
  BY DEF TypeOK, Doors
<1>2. CASE out = {}
  BY <1>2, Basics DEF Gone
<1>3. CASE out # {}
  <2>1. \E x \in out : \A y \in out : x <= y
    <3>1. a \in Int /\ b \in Int
      BY <1>1 DEF Time
    <3>2. a <= b \/ b <= a
      BY <3>1
    <3> HIDE DEF a, b, out
    <3>3. CASE a = 0 \/ b = 0
      BY <1>1, <1>3, <3>1, <3>3
    <3>4. CASE a # 0 /\ b # 0
      <4>1. out = {a, b}
        BY <1>1, <3>4
      <4>2. CASE a <= b
        BY <3>1, <4>1, <4>2
      <4>3. CASE b <= a
        BY <3>1, <4>1, <4>3
      <4> QED
        BY <3>2, <4>2, <4>3
    <3> QED
      BY <3>3, <3>4
  <2>2. Gone(l) \in out
    <3> HIDE DEF out
    <3>1. Gone(l) = IF out = {} THEN 0 ELSE CHOOSE x \in out : \A y \in out : x <= y
      BY DEF Gone, out
    <3> QED
      BY <1>3, <2>1, <3>1
  <2> QED
    BY <1>1, <2>2
<1> QED
  BY <1>2, <1>3

LEMMA EndMoves ==
  ASSUME TypeOK, NEW r \in Requests, NEW x \in Answers, Reply(r, x)
  PROVE  Moved(r)
<1> DEFINE n == [IdleReq EXCEPT !.answer = x]
<1>1. n \in Req
  BY Basics DEF Req
<1>2. Ended(n)
  BY DEF Ended, IdleReq
<1> HIDE DEF n
<1>3. req' = [req EXCEPT ![r] = n]
  BY DEF Reply, n
<1> QED
  BY <1>1, <1>2, <1>3 DEF TypeOK, Moved

LEMMA GoMoves ==
  ASSUME TypeOK, NEW r \in Requests, NEW n \in Req, req' = [req EXCEPT ![r] = n],
         Started(req[r], n) \/ WentOn(req[r], n)
  PROVE  Moved(r)
BY DEF TypeOK, Moved

LEMMA GotoMoves ==
  ASSUME TypeOK, NEW r \in Requests, NEW label \in Labels, Goto(r, label),
         req[r].pc # "idle", label # "idle",
         label \in IntentLabels => req[r].pc \in IntentLabels,
         label \in ClaimLabels => req[r].pc \in ClaimLabels,
         label \in Signed => \/ req[r].pc = "sign" /\ req[r].row.payer \in Controls[req[r].order]
                             \/ req[r].pc \in Signed,
         label = "record" => Verified(req[r]),
         label \in {"reserve", "reread"} => req[r].pc \in {"reserve", "reread"},
         label = "deliver" => x402[req[r].order].standing = "paid"
  PROVE  Moved(r)
<1> DEFINE n == [req[r] EXCEPT !.pc = label]
<1>1. n \in Req /\ req[r] \in Req
  BY DEF TypeOK, Req
<1>2. /\ n.pc = label /\ n.order = req[r].order /\ n.started = req[r].started
      /\ n.answer = req[r].answer /\ n.payer = req[r].payer /\ n.tx = req[r].tx
      /\ n.had = req[r].had /\ n.row = req[r].row /\ n.facts = req[r].facts
      /\ n.paid = req[r].paid
  BY <1>1 DEF Req
<1>3. req' = [req EXCEPT ![r] = n]
  BY <1>1 DEF Goto, TypeOK
<1> HIDE DEF n
<1>4. WentOn(req[r], n)
  BY <1>2 DEF WentOn, Verified, Signed
<1> QED
  BY <1>1, <1>3, <1>4, GoMoves

---------------------------------------------------------------------------
(* Every step of a request is such a move.                                 *)

LEMMA ArriveMoves ==
  ASSUME Typed, NEW r \in Requests, Arrive(r)
  PROVE  Moved(r)
<1>1. ASSUME NEW o \in Orders, NEW m \in Req, Begin(r, o, m),
             m.pc \in {"look", "listing", "shop"}, m.answer = "none",
             m.pc = "look" => m.payer \in Wallets,
             m.pc = "listing" => m.tx \in Txs
      PROVE  Moved(r)
  <2> DEFINE n == [m EXCEPT !.order = o, !.started = now, !.had = Stored(o)]
  <2>1. n \in Req
    BY DEF Typed, TypeOK, Req, Stored
  <2>2. /\ n.pc = m.pc /\ n.order = o /\ n.started = now /\ n.answer = "none"
        /\ n.had = Stored(o) /\ n.payer = m.payer /\ n.tx = m.tx
    BY <1>1 DEF Req
  <2>3. req' = [req EXCEPT ![r] = n] /\ req[r].pc = "idle"
    BY <1>1 DEF Begin
  <2> HIDE DEF n
  <2> QED
    BY <1>1, <2>1, <2>2, <2>3, GoMoves DEF Started, Typed
<1> PICK o \in Orders :
      \/ \E w \in Wallets : AskIntent(r, o, w)
      \/ \E t \in Txs : Claim(r, o, t)
      \/ \E h \in BOOLEAN : Buy(r, o, h)
  BY DEF Arrive
<1>2. ASSUME NEW w \in Wallets, AskIntent(r, o, w) PROVE Moved(r)
  <2> DEFINE m == [IdleReq EXCEPT !.pc = "look", !.payer = w]
  <2>1. m \in Req /\ m.pc = "look" /\ m.answer = "none" /\ m.payer = w
    BY Basics DEF Req, Labels, IdleReq
  <2>2. Begin(r, o, m)
    BY <1>2 DEF AskIntent
  <2> HIDE DEF m
  <2> QED
    BY <1>1, <2>1, <2>2
<1>3. ASSUME NEW t \in Txs, Claim(r, o, t) PROVE Moved(r)
  <2> DEFINE m == [IdleReq EXCEPT !.pc = "listing", !.tx = t]
  <2>1. m \in Req /\ m.pc = "listing" /\ m.answer = "none" /\ m.tx = t
    BY Basics DEF Req, Labels, IdleReq
  <2>2. Begin(r, o, m)
    BY <1>3 DEF Claim
  <2> HIDE DEF m
  <2> QED
    BY <1>1, <2>1, <2>2
<1>4. ASSUME NEW h \in BOOLEAN, Buy(r, o, h) PROVE Moved(r)
  <2> DEFINE m == [IdleReq EXCEPT !.pc = "shop", !.header = h]
  <2>1. m \in Req /\ m.pc = "shop" /\ m.answer = "none"
    BY Basics DEF Req, Labels, IdleReq
  <2>2. Begin(r, o, m)
    BY <1>4 DEF Buy
  <2> HIDE DEF m
  <2> QED
    BY <1>1, <2>1, <2>2
<1> QED
  BY <1>2, <1>3, <1>4

LEMMA IntentMoves ==
  ASSUME Typed, NEW r \in Requests, IntentStep(r)
  PROVE  Moved(r)
<1>1. ASSUME NEW x \in Answers, Reply(r, x) PROVE Moved(r)
  BY <1>1, EndMoves DEF Typed
<1>2. ASSUME NEW l \in {"upsert", "existing"}, Goto(r, l), req[r].pc \in IntentLabels
      PROVE  Moved(r)
  BY <1>2, GotoMoves DEF Typed, Labels, IntentLabels, ClaimLabels, Signed
<1> QED
  BY <1>1, <1>2 DEF IntentStep, LookFirst, UpsertIntent, ReadExisting, Answers,
     IntentLabels

LEMMA ResolveMoves ==
  ASSUME Typed, NEW r \in Requests, NEW a \in Intent, NEW facts \in {"pending", "verified"},
         NEW paid \in Time, Resolve(r, a, facts, paid), req[r].pc \in Signed,
         facts = "verified" =>
           \/ Verified(req[r]) /\ paid = req[r].paid
           \/ Backed(req[r].tx, req[r].order, req[r].row.payer, paid)
  PROVE  Moved(r)
<1>1. ASSUME NEW x \in Answers, Reply(r, x) PROVE Moved(r)
  BY <1>1, EndMoves DEF Typed
<1>2. ASSUME NEW l \in {"record", "review"}, facts = "verified",
             req' = [[req EXCEPT ![r].facts = facts, ![r].paid = paid] EXCEPT ![r].pc = l]
      PROVE  Moved(r)
  <2> DEFINE m == req[r]
             n == [m EXCEPT !.facts = facts, !.paid = paid, !.pc = l]
  <2>1. m \in Req
    BY DEF Typed, TypeOK
  <2>2. n \in Req
    BY <2>1 DEF Req, Labels
  <2>3. /\ n.pc = l /\ n.order = m.order /\ n.started = m.started
        /\ n.answer = m.answer /\ n.payer = m.payer /\ n.tx = m.tx
        /\ n.had = m.had /\ n.row = m.row /\ n.paid = paid
    BY <2>1 DEF Req
  <2>4. req' = [req EXCEPT ![r] = n]
    BY <1>2 DEF Typed, TypeOK
  <2> HIDE DEF n
  <2>5. WentOn(m, n)
    BY <1>2, <2>3 DEF WentOn, Signed, ClaimLabels, IntentLabels, Verified
  <2> QED
    BY <2>2, <2>4, <2>5, GoMoves DEF Typed
<1>3. CASE a.tx # req[r].tx /\ Reply(r, "do_not_pay")
  BY <1>1, <1>3 DEF Answers
<1>4. CASE Reply(r, "review") \/ Reply(r, "delivered") \/ Reply(r, "pending")
  BY <1>1, <1>4 DEF Answers
<1> QED
  BY <1>2, <1>3, <1>4 DEF Resolve

LEMMA ClaimMoves ==
  ASSUME Typed, NEW r \in Requests, ClaimStep(r)
  PROVE  Moved(r)
<1> DEFINE m == req[r]
           o == m.order
<1>1. ASSUME NEW x \in Answers, Reply(r, x) PROVE Moved(r)
  BY <1>1, EndMoves DEF Typed
<1>2. /\ m \in Req /\ fin \in Int /\ now \in Time
      /\ m.pc \in ClaimLabels => o \in Orders /\ m.tx \in Txs /\ intent[o] \in Intent
                                 /\ mined[m.tx] \in Time
  BY DEF Typed, TypeOK, Remembers, MemoryOK, Time, ClaimLabels, Signed
<1>3. ASSUME NEW n \in Req, req' = [req EXCEPT ![r] = n], WentOn(m, n)
      PROVE  Moved(r)
  BY <1>3, GoMoves DEF Typed
<1>4. CASE ReadListing(r)
  <2> DEFINE n == [m EXCEPT !.pc = "row", !.gone = Gone(ListingOf[o])]
  <2>1. n \in Req
    BY <1>2, <1>4, GoneTyped, PurchaseAssumption
       DEF ReadListing, ClaimLabels, Typed, Req, Labels
  <2>2. req' = [req EXCEPT ![r] = n] /\ m.pc = "listing"
    BY <1>4 DEF ReadListing, Typed, TypeOK
  <2>3. WentOn(m, n)
    BY <1>2, <2>2 DEF WentOn, Req, ClaimLabels, IntentLabels, Signed, Verified
  <2> QED
    BY <1>3, <2>1, <2>2, <2>3
<1>5. CASE ReadIntent(r)
  <2>1. CASE req' = [req EXCEPT ![r].pc = "sign", ![r].row = intent[o]]
    <3> DEFINE n == [m EXCEPT !.pc = "sign", !.row = intent[o]]
    <3>1. m.pc = "row"
      BY <1>5 DEF ReadIntent
    <3>2. n \in Req
      BY <1>2, <3>1 DEF ClaimLabels, Req, Labels
    <3>3. req' = [req EXCEPT ![r] = n]
      BY <2>1 DEF Typed, TypeOK
    <3>4. WentOn(m, n)
      BY <1>2, <3>1 DEF WentOn, Req, ClaimLabels, IntentLabels, Signed, Verified
    <3> QED
      BY <1>3, <3>2, <3>3, <3>4
  <2> QED
    BY <1>1, <1>5, <2>1 DEF ReadIntent, Answers
<1>6. CASE SignatureVerifies(r)
  BY <1>6, GotoMoves DEF SignatureVerifies, Typed, Labels, ClaimLabels,
     IntentLabels, Signed
<1>7. CASE SignatureRefused(r)
  BY <1>1, <1>7 DEF SignatureRefused, Answers
<1>8. CASE ReadTransfer(r)
  <2> DEFINE t == m.tx
             a == m.row
             final == mined[t] # 0 /\ mined[t] <= fin
             good == /\ From[t] = a.payer /\ ListingOf[o] \in Covers[t]
                     /\ mined[t] >= a.created
  <2>1. /\ m.pc = "transfer" /\ a \in Intent /\ t \in Txs /\ o \in Orders
        /\ mined[t] \in Time /\ 0 \in Time
    BY <1>2, <1>8, Basics DEF ReadTransfer, Req, ClaimLabels, Signed
  <2>2. ASSUME NEW facts \in {"pending", "verified"}, NEW at \in Time,
               facts = "verified" => Backed(t, o, a.payer, at),
               IF Retrying(r) THEN Resolve(r, a, facts, at)
               ELSE req' = [req EXCEPT ![r].pc = "reserve", ![r].facts = facts,
                                       ![r].paid = at]
        PROVE  Moved(r)
    <3>1. CASE Retrying(r)
      BY <2>1, <2>2, <3>1, ResolveMoves DEF Signed
    <3>2. CASE ~Retrying(r)
      <4> DEFINE n == [m EXCEPT !.pc = "reserve", !.facts = facts, !.paid = at]
      <4>1. n \in Req
        BY <1>2 DEF Req, Labels
      <4>2. req' = [req EXCEPT ![r] = n]
        BY <2>2, <3>2 DEF Typed, TypeOK
      <4>3. WentOn(m, n)
        BY <1>2, <2>1, <2>2 DEF WentOn, Req, ClaimLabels, IntentLabels, Signed, Verified
      <4> QED
        BY <1>3, <4>1, <4>2, <4>3
    <3> QED
      BY <3>1, <3>2
  <2>3. ASSUME req' = [req EXCEPT ![r].pc = "review", ![r].paid = mined[t]]
        PROVE  Moved(r)
    <3> DEFINE n == [m EXCEPT !.pc = "review", !.paid = mined[t]]
    <3>1. n \in Req
      BY <1>2, <2>1 DEF Req, Labels
    <3>2. req' = [req EXCEPT ![r] = n]
      BY <2>3 DEF Typed, TypeOK
    <3>3. WentOn(m, n)
      BY <1>2, <2>1 DEF WentOn, Req, ClaimLabels, IntentLabels, Signed, Verified
    <3> QED
      BY <1>3, <3>1, <3>2, <3>3
  <2>4. \/ /\ final /\ good
           /\ IF Retrying(r) THEN Resolve(r, a, "verified", mined[t])
              ELSE req' = [req EXCEPT ![r].pc = "reserve", ![r].facts = "verified",
                                      ![r].paid = mined[t]]
        \/ Reply(r, "refused") \/ Reply(r, "do_not_pay")
        \/ req' = [req EXCEPT ![r].pc = "review", ![r].paid = mined[t]]
        \/ IF Retrying(r) THEN Resolve(r, a, "pending", 0)
           ELSE req' = [req EXCEPT ![r].pc = "reserve", ![r].facts = "pending",
                                   ![r].paid = 0]
    BY <1>8 DEF ReadTransfer
  <2>5. final /\ good => Backed(t, o, a.payer, mined[t])
    BY DEF Backed, Final
  <2> HIDE DEF final, good
  <2> QED
    BY <1>1, <2>1, <2>2, <2>3, <2>4, <2>5 DEF Answers
<1>9. CASE Reserve(r)
  <2>1. m.pc = "reserve"
    BY <1>9 DEF Reserve
  <2>2. ASSUME Resolve(r, Pending(intent[o], m.tx), m.facts, m.paid) PROVE Moved(r)
    <3>1. Pending(intent[o], m.tx) \in Intent /\ m.facts \in {"none", "pending", "verified"}
          /\ m.paid \in Time
      BY <1>2, <2>1 DEF Pending, Intent, ClaimLabels, Signed, Req
    <3>2. CASE m.facts = "none"
      BY <1>1, <2>2, <3>2 DEF Resolve, Answers
    <3>3. CASE m.facts # "none"
      BY <2>1, <2>2, <3>1, <3>3, ResolveMoves DEF Signed, Verified
    <3> QED
      BY <3>2, <3>3
  <2>3. ASSUME Goto(r, "reread") PROVE Moved(r)
    BY <2>1, <2>3, GotoMoves DEF Typed, Labels, ClaimLabels, IntentLabels, Signed
  <2> QED
    BY <1>1, <1>9, <2>2, <2>3 DEF Reserve, Answers
<1>10. CASE RereadAttempt(r)
  <2>1. /\ m.pc = "reread" /\ Resolve(r, intent[o], m.facts, m.paid)
    BY <1>10 DEF RereadAttempt
  <2>2. intent[o] \in Intent /\ m.facts \in {"none", "pending", "verified"}
        /\ m.paid \in Time
    BY <1>2, <2>1 DEF ClaimLabels, Signed, Req
  <2>3. CASE m.facts = "none"
    BY <1>1, <2>1, <2>3 DEF Resolve, Answers
  <2>4. CASE m.facts # "none"
    BY <2>1, <2>2, <2>4, ResolveMoves DEF Signed, Verified
  <2> QED
    BY <2>3, <2>4
<1>11. CASE RecordDirect(r)
  <2>1. ASSUME Goto(r, "review"), m.pc = "record" PROVE Moved(r)
    BY <2>1, GotoMoves DEF Typed, Labels, ClaimLabels, IntentLabels, Signed
  <2> QED
    BY <1>1, <1>11, <2>1 DEF RecordDirect, Answers
<1>12. CASE ReviewDirect(r)
  BY <1>1, <1>12 DEF ReviewDirect, Answers
<1> QED
  BY <1>4, <1>5, <1>6, <1>7, <1>8, <1>9, <1>10, <1>11, <1>12 DEF ClaimStep

LEMMA BuyMoves ==
  ASSUME Typed, NEW r \in Requests, BuyStep(r) \/ Abandon(r)
  PROVE  Moved(r)
<1> DEFINE m == req[r]
           o == m.order
<1>1. ASSUME NEW x \in Answers, Reply(r, x) PROVE Moved(r)
  BY <1>1, EndMoves DEF Typed
<1>2. /\ m \in Req
      /\ m.pc # "idle" => o \in Orders
  BY DEF Typed, TypeOK, Remembers, MemoryOK
<1>3. ASSUME NEW n \in Req, req' = [req EXCEPT ![r] = n], WentOn(m, n)
      PROVE  Moved(r)
  BY <1>3, GoMoves DEF Typed
<1>4. CASE ReadShop(r)
  <2> DEFINE n == [m EXCEPT !.pc = "prior", !.gone = Gone(ListingOf[o])]
  <2>1. m.pc = "shop" /\ req' = [req EXCEPT ![r] = n]
    BY <1>4 DEF ReadShop, Typed, TypeOK
  <2>2. n \in Req
    BY <1>2, <2>1, GoneTyped, PurchaseAssumption DEF Typed, Req, Labels
  <2>3. WentOn(m, n)
    BY <1>2, <2>1 DEF WentOn, Req, ClaimLabels, IntentLabels, Signed, Verified
  <2> QED
    BY <1>3, <2>1, <2>2, <2>3
<1>5. CASE ReadPrior(r)
  <2> DEFINE n == [m EXCEPT !.pc = "saved", !.bought = Bought(o)]
  <2>1. m.pc = "prior" /\ req' = [req EXCEPT ![r] = n]
    BY <1>5 DEF ReadPrior, Typed, TypeOK
  <2>2. n \in Req
    BY <1>2 DEF Req, Labels, Bought
  <2>3. WentOn(m, n)
    BY <1>2, <2>1 DEF WentOn, Req, ClaimLabels, IntentLabels, Signed, Verified
  <2> QED
    BY <1>3, <2>1, <2>2, <2>3
<1>6. ASSUME NEW l \in {"settle", "custody", "deliver"}, Goto(r, l), m.pc # "idle",
             l = "deliver" => x402[o].standing = "paid"
      PROVE  Moved(r)
  BY <1>6, GotoMoves DEF Typed, Labels, ClaimLabels, IntentLabels, Signed
<1>7. CASE ReadSaved(r)
  BY <1>1, <1>6, <1>7 DEF ReadSaved, Answers
<1>8. CASE SettleX402(r)
  BY <1>1, <1>6, <1>8 DEF SettleX402, Answers
<1>9. CASE SettleAnswers(r)
  BY <1>1, <1>6, <1>9 DEF SettleAnswers, Answers
<1>10. CASE RecordX402(r)
  BY <1>1, <1>10 DEF RecordX402, Answers
<1>11. CASE Abandon(r)
  <2>1. IdleReq \in Req /\ IdleReq.pc = "idle" /\ ~IdleReq.had
    BY Basics DEF IdleReq
  <2>2. req' = [req EXCEPT ![r] = IdleReq]
    BY <1>11 DEF Abandon
  <2> HIDE DEF IdleReq
  <2> QED
    BY <2>1, <2>2 DEF Moved, Ended, Typed, TypeOK
<1> QED
  BY <1>4, <1>5, <1>7, <1>8, <1>9, <1>10, <1>11 DEF BuyStep

\* A step of the specification is one of a request, or leaves them all alone.
RequestStep(r) ==
  Arrive(r) \/ IntentStep(r) \/ ClaimStep(r) \/ BuyStep(r) \/ Abandon(r)

LEMMA RequestMoves ==
  ASSUME Typed, NEW r \in Requests, RequestStep(r)
  PROVE  Moved(r)
BY ArriveMoves, IntentMoves, ClaimMoves, BuyMoves DEF RequestStep

LEMMA StepRequests ==
  ASSUME [Next]_vars
  PROVE  (\E r \in Requests : RequestStep(r)) \/ req' = req
<1>1. ASSUME NEW r \in Requests, RequestStep(r)
      PROVE  \E x \in Requests : RequestStep(x)
  BY <1>1
<1>2. ASSUME NEW o \in Orders, CustodyStep(o) PROVE req' = req
  BY <1>2 DEF CustodyStep, CustodyClaims, CustodyPays, CustodyRefuses
<1>3. ASSUME NEW l \in Listings, NEW d \in Exits, Leave(l, d) \/ Left(l, d)
      PROVE  req' = req
  BY <1>3 DEF Leave, Left
<1>4. CASE (\E t \in Txs : RivalClaims(t)) \/ Chain
  BY <1>4 DEF RivalClaims, Chain, Mine, Reorg, NewBlock, FinalizeBlock
<1>5. CASE UNCHANGED vars
  BY <1>5 DEF vars
<1> QED
  BY <1>1, <1>2, <1>3, <1>4, <1>5 DEF Next, RequestStep

LEMMA StepMoves ==
  ASSUME Typed, [Next]_vars
  PROVE  (\E r \in Requests : Moved(r)) \/ req' = req
BY RequestMoves, StepRequests

---------------------------------------------------------------------------
(* The tables keep their types.                                            *)

ChainOK ==
  /\ now \in Time /\ now # 0 /\ fin \in Time
  /\ mined \in [Txs -> Time]

TablesOK ==
  /\ shelf \in [Listings -> [Doors -> Time]]
  /\ leaving \in [Listings -> [Doors -> Time]]
  /\ intent \in [Orders -> Intent]
  /\ x402 \in [Orders -> Custody]
  /\ purchase \in [Orders -> Purchase]
  /\ uses \in [Txs -> Owners]

LEMMA InitTyped == Init => Typed
<1> SUFFICES ASSUME Init PROVE Typed
  OBVIOUS
<1>1. now \in Time /\ fin \in Time /\ now # 0
  BY PurchaseAssumption DEF Init, Time
<1>2. TypeOK
  BY <1>1, Basics DEF Init, TypeOK, Owners
<1>3. Remembers
  BY DEF Init, Remembers, MemoryOK, IdleReq, IntentLabels, ClaimLabels, Signed
<1> QED
  BY <1>1, <1>2, <1>3 DEF Typed

LEMMA StepRemembers == Typed /\ [Next]_vars => Remembers' /\ req' \in [Requests -> Req]
<1> SUFFICES ASSUME Typed, [Next]_vars PROVE Remembers' /\ req' \in [Requests -> Req]
  OBVIOUS
<1>1. CASE req' = req
  BY <1>1 DEF Typed, TypeOK, Remembers, MemoryOK
<1>2. ASSUME NEW r \in Requests, Moved(r)
      PROVE  Remembers' /\ req' \in [Requests -> Req]
  <2>1. MemoryOK(req[r])
    BY DEF Typed, Remembers
  <2>2. CASE Ended(req'[r])
    BY <1>2, <2>2 DEF Moved, Ended, Typed, Remembers, MemoryOK, IntentLabels,
       ClaimLabels, Signed
  <2>3. CASE Started(req[r], req'[r])
    BY <1>2, <2>3 DEF Moved, Started, Typed, Remembers, MemoryOK, IntentLabels,
       ClaimLabels, Signed
  <2>4. CASE WentOn(req[r], req'[r])
    <3>1. MemoryOK(req'[r])
      BY <2>1, <2>4 DEF WentOn, MemoryOK
    <3> QED
      BY <1>2, <3>1 DEF Moved, Typed, Remembers, MemoryOK
  <2> QED
    BY <1>2, <2>2, <2>3, <2>4 DEF Moved
<1> QED
  BY <1>1, <1>2, StepMoves

---------------------------------------------------------------------------
(* Which steps write: everything else leaves the tables, and all but the   *)
(* steps of Base leave the chain.                                          *)

Writes(r) == UpsertIntent(r) \/ Reserve(r) \/ RecordDirect(r) \/ ReviewDirect(r)
             \/ SettleX402(r) \/ RecordX402(r)

ChainKept == now' = now /\ fin' = fin /\ mined' = mined
MoneyKept == intent' = intent /\ x402' = x402 /\ purchase' = purchase /\ uses' = uses
ShelfKept == shelf' = shelf /\ leaving' = leaving

LEMMA RequestWrites ==
  ASSUME NEW r \in Requests, RequestStep(r)
  PROVE  /\ ChainKept /\ ShelfKept
         /\ MoneyKept \/ Writes(r)
<1>1. CASE Arrive(r)
  BY <1>1 DEF Arrive, AskIntent, Claim, Buy, Begin, chain, store, ChainKept,
     ShelfKept, MoneyKept
<1>2. CASE IntentStep(r)
  BY <1>2 DEF IntentStep, LookFirst, UpsertIntent, ReadExisting, chain, store,
     ChainKept, ShelfKept, MoneyKept, Writes
<1>3. CASE ReadListing(r) \/ ReadIntent(r) \/ SignatureVerifies(r)
           \/ SignatureRefused(r) \/ RereadAttempt(r) \/ ReadTransfer(r)
  BY <1>3 DEF ReadListing, ReadIntent, SignatureVerifies, SignatureRefused,
     ReadTransfer, RereadAttempt, chain, store, ChainKept, ShelfKept, MoneyKept
<1>4. CASE Reserve(r) \/ RecordDirect(r) \/ ReviewDirect(r)
  BY <1>4 DEF Reserve, RecordDirect, ReviewDirect, chain, ChainKept, ShelfKept, Writes
<1>5. CASE BuyStep(r) \/ Abandon(r)
  BY <1>5 DEF BuyStep, ReadShop, ReadPrior, ReadSaved, SettleX402, SettleAnswers,
     RecordX402, Abandon, chain, store, ChainKept, ShelfKept, MoneyKept, Writes
<1> QED
  BY <1>1, <1>2, <1>3, <1>4, <1>5 DEF RequestStep, ClaimStep

LEMMA StepWrites ==
  ASSUME [Next]_vars
  PROVE  /\ ChainKept \/ Chain
         /\ ShelfKept \/ \E l \in Listings, d \in Doors : Leave(l, d) \/ Left(l, d)
         /\ \/ MoneyKept
            \/ \E r \in Requests : Writes(r)
            \/ \E o \in Orders : CustodyStep(o)
            \/ \E t \in Txs : RivalClaims(t)
<1>1. CASE UNCHANGED vars
  BY <1>1 DEF vars, ChainKept, ShelfKept, MoneyKept
<1>2. ASSUME NEW r \in Requests, RequestStep(r)
      PROVE  ChainKept /\ ShelfKept /\ (MoneyKept \/ Writes(r))
  BY <1>2, RequestWrites
<1>3. ASSUME NEW o \in Orders, CustodyStep(o) PROVE ChainKept /\ ShelfKept
  BY <1>3 DEF CustodyStep, CustodyClaims, CustodyPays, CustodyRefuses, chain,
     ChainKept, ShelfKept
<1>4. ASSUME NEW l \in Listings, NEW d \in Exits, Leave(l, d) \/ Left(l, d)
      PROVE  ChainKept /\ MoneyKept /\ d \in Doors
  BY <1>4, PurchaseAssumption DEF Leave, Left, chain, ChainKept, MoneyKept, Doors
<1>5. ASSUME NEW t \in Txs, RivalClaims(t) PROVE ChainKept /\ ShelfKept
  BY <1>5 DEF RivalClaims, chain, ChainKept, ShelfKept
<1>6. CASE Chain
  BY <1>6 DEF Chain, Mine, Reorg, NewBlock, FinalizeBlock, store, ShelfKept, MoneyKept
<1> QED
  BY <1>1, <1>2, <1>3, <1>4, <1>5, <1>6 DEF Next, RequestStep

---------------------------------------------------------------------------
(* The tables keep their types.                                            *)

LEMMA StepChain ==
  ASSUME Typed, [Next]_vars
  PROVE  /\ now' \in Time /\ now' # 0 /\ fin' \in Time
         /\ mined' \in [Txs -> Time]
         /\ fin <= fin'
         /\ \A t \in Txs : Final(t) => mined'[t] = mined[t]
         /\ \A t \in Txs : mined'[t] # mined[t] => mined'[t] = 0 \/ mined'[t] > fin'
<1>1. /\ now \in Time /\ now # 0 /\ fin \in Time /\ mined \in [Txs -> Time]
  BY DEF Typed, TypeOK
<1>2. CASE ChainKept
  BY <1>1, <1>2 DEF ChainKept, Time
<1>3. ASSUME NEW t \in Txs, Mine(t) \/ Reorg(t)
      PROVE  /\ now' = now /\ fin' = fin /\ mined' \in [Txs -> Time]
             /\ mined'[t] = 0 \/ mined'[t] > fin
             /\ ~Final(t)
             /\ \A s \in Txs : s # t => mined'[s] = mined[s]
  <2>1. 0 \in Time
    BY Basics
  <2>2. (now > fin /\ mined[t] = 0) \/ mined[t] > fin
    BY <1>1, <1>3 DEF Mine, Reorg, Time
  <2> QED
    BY <1>1, <1>3, <2>1, <2>2 DEF Mine, Reorg, Final, Time
<1>4. CASE NewBlock \/ FinalizeBlock
  BY <1>1, <1>4, PurchaseAssumption DEF NewBlock, FinalizeBlock, Time
<1> DEFINE T == /\ now' \in Time /\ now' # 0 /\ fin' \in Time
                /\ mined' \in [Txs -> Time]
                /\ fin <= fin'
                /\ \A t \in Txs : Final(t) => mined'[t] = mined[t]
                /\ \A t \in Txs : mined'[t] # mined[t] => mined'[t] = 0 \/ mined'[t] > fin'
<1>5. ASSUME NEW t \in Txs, Mine(t) \/ Reorg(t) PROVE T
  <2>1. fin <= fin
    BY <1>1 DEF Time
  <2> QED
    BY <1>1, <1>3, <1>5, <2>1
<1> QED
  BY <1>2, <1>4, <1>5, StepWrites DEF Chain

LEMMA StepShelf ==
  ASSUME Typed, [Next]_vars
  PROVE  /\ shelf' \in [Listings -> [Doors -> Time]]
         /\ leaving' \in [Listings -> [Doors -> Time]]
<1>1. /\ shelf \in [Listings -> [Doors -> Time]]
      /\ leaving \in [Listings -> [Doors -> Time]]
      /\ now \in Time /\ 0 \in Time
  BY Basics DEF Typed, TypeOK
<1>2. ASSUME NEW l \in Listings, NEW d \in Doors, Leave(l, d)
      PROVE  shelf' = shelf /\ leaving' \in [Listings -> [Doors -> Time]]
  BY <1>1, <1>2 DEF Leave
<1>3. ASSUME NEW l \in Listings, NEW d \in Doors, Left(l, d)
      PROVE  /\ shelf' \in [Listings -> [Doors -> Time]]
             /\ leaving' \in [Listings -> [Doors -> Time]]
  BY <1>1, <1>3 DEF Left
<1> QED
  BY <1>1, <1>2, <1>3, StepWrites DEF ShelfKept

LEMMA StepTables ==
  ASSUME Typed, [Next]_vars
  PROVE  /\ intent' \in [Orders -> Intent]
         /\ x402' \in [Orders -> Custody]
         /\ purchase' \in [Orders -> Purchase]
         /\ uses' \in [Txs -> Owners]
<1> DEFINE T == /\ intent' \in [Orders -> Intent]
                /\ x402' \in [Orders -> Custody]
                /\ purchase' \in [Orders -> Purchase]
                /\ uses' \in [Txs -> Owners]
<1>1. /\ intent \in [Orders -> Intent] /\ x402 \in [Orders -> Custody]
      /\ purchase \in [Orders -> Purchase] /\ uses \in [Txs -> Owners]
  BY DEF Typed, TypeOK
<1>2. CASE MoneyKept
  BY <1>1, <1>2 DEF MoneyKept
<1>3. ASSUME NEW r \in Requests, Writes(r) PROVE T
  <2> DEFINE m == req[r]
             o == m.order
  <2>1. /\ m \in Req /\ o \in Orders /\ intent[o] \in Intent /\ x402[o] \in Custody
        /\ m.pc \in IntentLabels => m.payer \in Wallets
        /\ m.pc \in ClaimLabels => m.tx \in Txs
    BY <1>3 DEF Writes, UpsertIntent, Reserve, RecordDirect, ReviewDirect, SettleX402,
       RecordX402, Typed, TypeOK, Remembers, MemoryOK
  <2>2. CASE UpsertIntent(r)
    <3>1. m.payer \in Wallets
      BY <2>1, <2>2 DEF UpsertIntent, IntentLabels
    <3>2. NewIntent(r) \in Intent
      <4>1. m.started + TTL \in 0..(MaxTime + TTL)
        BY <2>1, PurchaseAssumption DEF Req, Time
      <4>2. NoIntent \in Intent
        BY Basics
      <4> QED
        BY <2>1, <3>1, <4>1, <4>2 DEF NewIntent, Intent, Req
    <3> QED
      BY <1>1, <2>1, <2>2, <3>2 DEF UpsertIntent
  <2>3. CASE Reserve(r)
    <3>1. m.tx \in Txs
      BY <2>1, <2>3 DEF Reserve, ClaimLabels, Signed
    <3>2. Pending(intent[o], m.tx) \in Intent /\ Direct(o) \in Owners
      BY <2>1, <3>1 DEF Pending, Intent, Owners
    <3> QED
      BY <1>1, <2>1, <2>3, <3>2 DEF Reserve
  <2>4. CASE RecordDirect(r)
    <3>1. m.tx \in Txs /\ m.paid \in Time
      BY <2>1, <2>4 DEF RecordDirect, ClaimLabels, Signed, Req
    <3>2. [via |-> "claim", tx |-> m.tx, at |-> m.paid] \in Purchase
      BY <3>1 DEF Purchase
    <3>3. [intent[o] EXCEPT !.status = "completed", !.paid = m.paid] \in Intent
      BY <2>1, <3>1 DEF Intent
    <3> QED
      BY <1>1, <2>1, <2>4, <3>2, <3>3 DEF RecordDirect
  <2>5. CASE ReviewDirect(r)
    <3> DEFINE a == [intent[o] EXCEPT !.status = "needs_review", !.paid = m.paid]
    <3>1. a \in Intent
      BY <2>1 DEF Intent, Req
    <3>2. /\ intent' = [intent EXCEPT ![o] = a] \/ intent' = intent
          /\ x402' = x402 /\ purchase' = purchase /\ uses' = uses
      BY <1>1, <2>5 DEF ReviewDirect
    <3> HIDE DEF a
    <3> QED
      BY <1>1, <2>1, <3>1, <3>2
  <2>6. CASE SettleX402(r)
    <3>1. [x402[o] EXCEPT !.start = m.started] \in Custody
      BY <2>1 DEF Custody, Req
    <3> QED
      BY <1>1, <2>1, <2>6, <3>1 DEF SettleX402
  <2>7. CASE RecordX402(r)
    <3>1. [via |-> "x402", tx |-> x402[o].tx, at |-> x402[o].start] \in Purchase
      BY <2>1 DEF Purchase, Custody
    <3> QED
      BY <1>1, <2>1, <2>7, <3>1 DEF RecordX402
  <2> QED
    BY <1>3, <2>2, <2>3, <2>4, <2>5, <2>6, <2>7 DEF Writes
<1>4. ASSUME NEW o \in Orders, CustodyStep(o) PROVE T
  <2>1. x402[o] \in Custody /\ X402(o) \in Owners
    BY <1>1 DEF Owners
  <2>2. \A s \in {"pending", "paid", "refused"}, t \in Txs \cup {None} :
          [x402[o] EXCEPT !.standing = s] \in Custody
          /\ [x402[o] EXCEPT !.standing = s, !.tx = t] \in Custody
    BY <2>1 DEF Custody
  <2>3. ASSUME NEW t \in Txs, CustodyClaims(o, t) PROVE T
    <3> DEFINE x == [x402[o] EXCEPT !.standing = "pending", !.tx = t]
    <3>1. x \in Custody
      BY <2>2
    <3>2. x402' = [x402 EXCEPT ![o] = x] /\ uses' = [uses EXCEPT ![t] = X402(o)]
          /\ intent' = intent /\ purchase' = purchase
      BY <1>1, <2>3 DEF CustodyClaims
    <3> HIDE DEF x
    <3> QED
      BY <1>1, <2>1, <3>1, <3>2
  <2>4. CASE CustodyPays(o) \/ CustodyRefuses(o)
    <3>1. PICK s \in {"paid", "refused"} :
            x402' = [x402 EXCEPT ![o] = [x402[o] EXCEPT !.standing = s]]
      BY <1>1, <2>4 DEF CustodyPays, CustodyRefuses
    <3> QED
      BY <1>1, <2>1, <2>2, <2>4, <3>1 DEF CustodyPays, CustodyRefuses
  <2> QED
    BY <1>4, <2>3, <2>4 DEF CustodyStep
<1>5. ASSUME NEW t \in Txs, RivalClaims(t) PROVE T
  BY <1>1, <1>5 DEF RivalClaims, Owners
<1> QED
  BY <1>2, <1>3, <1>4, <1>5, StepWrites

LEMMA StepTyped == Typed /\ [Next]_vars => Typed'
BY StepRemembers, StepChain, StepShelf, StepTables DEF Typed, TypeOK

\* Every variable of the purchase routes keeps its type.
THEOREM TypeCorrect == Spec => []TypeOK
<1>1. Typed => TypeOK
  BY DEF Typed
<1> QED
  BY <1>1, InitTyped, StepTyped, PTL DEF Spec

---------------------------------------------------------------------------
(* The inductive invariant.  Rows ties the two tables that store a payment *)
(* to payment_uses; Knows says that what a request learned still holds     *)
(* when it uses it.                                                        *)

Rows ==
  \A o \in Orders :
    /\ IF intent[o].status \in {"none", "unsubmitted"}
       THEN intent[o].tx = None ELSE intent[o].tx \in Txs
    /\ x402[o].standing \in {"pending", "paid"}
         => x402[o].tx \in Txs /\ uses[x402[o].tx] = X402(o)

Knowing(m) ==
  /\ m.pc \in Signed => m.row.payer \in Controls[m.order]
  /\ Verified(m) => Backed(m.tx, m.order, m.row.payer, m.paid)
  /\ m.pc = "deliver" => x402[m.order].standing = "paid"
  /\ m.had => intent[m.order].tx # None

Knows == \A r \in Requests : Knowing(req[r])

Inv == Typed /\ Rows /\ Reserved /\ PaidFor /\ Knows

\* What no step takes back.
Kept ==
  /\ \A t \in Txs : uses[t] # None => uses'[t] = uses[t]
  /\ \A o \in Orders :
       /\ intent[o].tx # None => /\ intent'[o].tx = intent[o].tx
                                 /\ intent'[o].payer = intent[o].payer
                                 /\ intent'[o].created = intent[o].created
                                 /\ intent'[o].expires = intent[o].expires
       /\ intent[o].status \in {"completed", "needs_review"} => intent'[o] = intent[o]
       /\ x402[o].standing = "paid" => /\ x402'[o].standing = "paid"
                                       /\ x402'[o].tx = x402[o].tx
       /\ Bought(o) => purchase'[o] = purchase[o]

LEMMA WriterKnown ==
  ASSUME Typed, NEW r \in Requests, Writes(r)
  PROVE  /\ req[r] \in Req /\ req[r].order \in Orders /\ req[r].started # 0
         /\ intent[req[r].order] \in Intent /\ x402[req[r].order] \in Custody
         /\ req[r].pc \in ClaimLabels => req[r].tx \in Txs
BY DEF Writes, UpsertIntent, Reserve, RecordDirect, ReviewDirect, SettleX402,
   RecordX402, Typed, TypeOK, Remembers, MemoryOK

\* What each write does to the row of its order.
LEMMA WriteCases ==
  ASSUME Typed, NEW r \in Requests, Writes(r), ~MoneyKept
  PROVE  LET o == req[r].order
             t == req[r].tx
             p == req[r].paid
         IN
         \/ /\ UpsertIntent(r) /\ Replaceable(intent[o], req[r].started)
            /\ NewIntent(r).status = "unsubmitted" /\ NewIntent(r).tx = None
            /\ intent' = [intent EXCEPT ![o] = NewIntent(r)]
            /\ x402' = x402 /\ purchase' = purchase /\ uses' = uses
         \/ /\ Reserve(r) /\ intent[o].status = "unsubmitted" /\ uses[t] = None
            /\ t \in Txs
            /\ intent' = [intent EXCEPT ![o] = Pending(intent[o], t)]
            /\ uses' = [uses EXCEPT ![t] = Direct(o)]
            /\ x402' = x402 /\ purchase' = purchase
         \/ /\ RecordDirect(r) /\ Lockable(r) /\ ~Bought(o) /\ t \in Txs
            /\ intent' = [intent EXCEPT ![o].status = "completed", ![o].paid = p]
            /\ purchase' = [purchase EXCEPT ![o] =
                              [via |-> "claim", tx |-> t, at |-> p]]
            /\ x402' = x402 /\ uses' = uses
         \/ /\ ReviewDirect(r) /\ intent[o].status = "payment_pending"
            /\ intent' = [intent EXCEPT ![o].status = "needs_review", ![o].paid = p]
            /\ x402' = x402 /\ purchase' = purchase /\ uses' = uses
         \/ /\ SettleX402(r) /\ x402[o].start = 0
            /\ x402' = [x402 EXCEPT ![o].start = req[r].started]
            /\ intent' = intent /\ purchase' = purchase /\ uses' = uses
         \/ /\ RecordX402(r) /\ StillSold(ListingOf[o], x402[o].start) /\ ~Bought(o)
            /\ purchase' = [purchase EXCEPT ![o] =
                              [via |-> "x402", tx |-> x402[o].tx, at |-> x402[o].start]]
            /\ intent' = intent /\ x402' = x402 /\ uses' = uses
<1> DEFINE o == req[r].order
           t == req[r].tx
<1>1. CASE UpsertIntent(r)
  <2>1. NewIntent(r).status = "unsubmitted" /\ NewIntent(r).tx = None
    BY DEF NewIntent, NoIntent
  <2> QED
    BY <1>1, <2>1 DEF UpsertIntent, MoneyKept
<1>2. CASE Reserve(r)
  <2>1. t \in Txs
    BY <1>2, WriterKnown DEF Reserve, ClaimLabels, Signed
  <2> QED
    BY <1>2, <2>1 DEF Reserve, Unused, MoneyKept
<1>3. CASE RecordDirect(r)
  <2>1. t \in Txs
    BY <1>3, WriterKnown DEF RecordDirect, ClaimLabels, Signed
  <2> QED
    BY <1>3, <2>1 DEF RecordDirect, MoneyKept
<1>4. CASE ReviewDirect(r)
  BY <1>4 DEF ReviewDirect, MoneyKept
<1>5. CASE SettleX402(r)
  BY <1>5 DEF SettleX402, MoneyKept
<1>6. CASE RecordX402(r)
  BY <1>6 DEF RecordX402, MoneyKept
<1> QED
  BY <1>1, <1>2, <1>3, <1>4, <1>5, <1>6 DEF Writes

LEMMA CustodyCases ==
  ASSUME Typed, NEW o \in Orders, CustodyStep(o)
  PROVE  /\ intent' = intent /\ purchase' = purchase
         /\ x402[o].standing # "paid"
         /\ \A x \in Orders : x # o => x402'[x] = x402[x]
         /\ \/ \E t \in Txs :
                 /\ uses[t] = None /\ uses' = [uses EXCEPT ![t] = X402(o)]
                 /\ x402'[o].tx = t /\ x402'[o].standing = "pending"
            \/ /\ uses' = uses /\ x402'[o].tx = x402[o].tx
               /\ \/ x402[o].standing = "pending" /\ x402'[o].standing = "paid"
                  \/ x402'[o].standing = "refused"
<1>1. x402 \in [Orders -> Custody] /\ x402[o] \in Custody
  BY DEF Typed, TypeOK
<1>2. ASSUME NEW t \in Txs, CustodyClaims(o, t)
      PROVE  /\ uses[t] = None /\ uses' = [uses EXCEPT ![t] = X402(o)]
             /\ x402'[o].tx = t /\ x402'[o].standing = "pending"
             /\ x402[o].standing = "open" /\ intent' = intent /\ purchase' = purchase
             /\ \A x \in Orders : x # o => x402'[x] = x402[x]
  <2>1. x402' = [x402 EXCEPT ![o] = [x402[o] EXCEPT !.standing = "pending", !.tx = t]]
    BY <1>1, <1>2 DEF CustodyClaims
  <2>2. /\ [x402[o] EXCEPT !.standing = "pending", !.tx = t].tx = t
        /\ [x402[o] EXCEPT !.standing = "pending", !.tx = t].standing = "pending"
    BY <1>1 DEF Custody
  <2> QED
    BY <1>1, <1>2, <2>1, <2>2 DEF CustodyClaims, Unused
<1>3. CASE CustodyPays(o)
  BY <1>1, <1>3 DEF CustodyPays, Custody
<1>4. CASE CustodyRefuses(o)
  BY <1>1, <1>4 DEF CustodyRefuses, Custody
<1> QED
  BY <1>2, <1>3, <1>4 DEF CustodyStep

LEMMA StepKept ==
  ASSUME Typed, Rows, [Next]_vars
  PROVE  Kept
<1>1. CASE MoneyKept
  BY <1>1 DEF MoneyKept, Kept, Bought
<1>2. ASSUME NEW r \in Requests, Writes(r), ~MoneyKept PROVE Kept
  <2> DEFINE o == req[r].order
             t == req[r].tx
             p == req[r].paid
  <2>1. /\ o \in Orders /\ intent[o] \in Intent /\ x402[o] \in Custody
        /\ intent \in [Orders -> Intent] /\ x402 \in [Orders -> Custody]
        /\ purchase \in [Orders -> Purchase] /\ uses \in [Txs -> Owners]
    BY <1>2, WriterKnown DEF Typed, TypeOK
  <2>2. CASE /\ Replaceable(intent[o], req[r].started)
             /\ intent' = [intent EXCEPT ![o] = NewIntent(r)]
             /\ x402' = x402 /\ purchase' = purchase /\ uses' = uses
    <3>1. intent[o].status \in {"none", "unsubmitted"} /\ intent[o].tx = None
      BY <2>1, <2>2 DEF Replaceable, Rows
    <3> QED
      BY <2>1, <2>2, <3>1 DEF Kept, Bought
  <2>3. CASE /\ intent[o].status = "unsubmitted" /\ uses[t] = None /\ t \in Txs
             /\ intent' = [intent EXCEPT ![o] = Pending(intent[o], t)]
             /\ uses' = [uses EXCEPT ![t] = Direct(o)]
             /\ x402' = x402 /\ purchase' = purchase
    <3>1. intent[o].tx = None
      BY <2>1, <2>3 DEF Rows
    <3> QED
      BY <2>1, <2>3, <3>1 DEF Kept, Bought
  <2>4. CASE /\ intent[o].status = "payment_pending"
             /\ \E s \in {"completed", "needs_review"} :
                  intent' = [intent EXCEPT ![o].status = s, ![o].paid = p]
             /\ x402' = x402 /\ uses' = uses
             /\ \A x \in Orders : Bought(x) => purchase'[x] = purchase[x]
    <3>1. PICK s \in {"completed", "needs_review"} :
            intent' = [intent EXCEPT ![o].status = s, ![o].paid = p]
      BY <2>4
    <3>2. /\ intent'[o].tx = intent[o].tx /\ intent'[o].payer = intent[o].payer
          /\ intent'[o].created = intent[o].created
          /\ intent'[o].expires = intent[o].expires
          /\ \A x \in Orders : x # o => intent'[x] = intent[x]
      BY <2>1, <3>1 DEF Intent
    <3> QED
      BY <2>4, <3>2 DEF Kept
  <2>5. CASE /\ x402' = [x402 EXCEPT ![o].start = req[r].started]
             /\ intent' = intent /\ purchase' = purchase /\ uses' = uses
    BY <2>1, <2>5 DEF Kept, Bought, Custody
  <2>6. CASE /\ ~Bought(o) /\ intent' = intent /\ x402' = x402 /\ uses' = uses
             /\ purchase' = [purchase EXCEPT ![o] =
                               [via |-> "x402", tx |-> x402[o].tx, at |-> x402[o].start]]
    BY <2>1, <2>6 DEF Kept
  <2>7. ASSUME RecordDirect(r), Lockable(r), ~Bought(o),
               intent' = [intent EXCEPT ![o].status = "completed", ![o].paid = p],
               purchase' = [purchase EXCEPT ![o] =
                              [via |-> "claim", tx |-> t, at |-> p]],
               x402' = x402, uses' = uses
        PROVE  Kept
    <3>1. intent[o].status = "payment_pending"
      BY <2>7 DEF Lockable
    <3>2. \A x \in Orders : Bought(x) => purchase'[x] = purchase[x]
      BY <2>1, <2>7
    <3> QED
      BY <2>4, <2>7, <3>1, <3>2
  <2>8. ASSUME intent[o].status = "payment_pending",
               intent' = [intent EXCEPT ![o].status = "needs_review", ![o].paid = p],
               x402' = x402, purchase' = purchase, uses' = uses
        PROVE  Kept
    BY <2>4, <2>8
  <2> QED
    BY <1>2, WriteCases, <2>2, <2>3, <2>5, <2>6, <2>7, <2>8
<1>3. ASSUME NEW o \in Orders, CustodyStep(o) PROVE Kept
  <2>1. \A t \in Txs : uses[t] # None => uses'[t] = uses[t]
    BY <1>3, CustodyCases DEF Typed, TypeOK
  <2> QED
    BY <1>3, <2>1, CustodyCases DEF Kept
<1>4. ASSUME NEW t \in Txs, RivalClaims(t) PROVE Kept
  BY <1>4 DEF RivalClaims, Kept, Typed, TypeOK
<1> QED
  BY <1>1, <1>2, <1>3, <1>4, StepWrites

\* Backed, in the state that follows, of values of this one.
StillBacked(t, o, w, at) ==
  /\ mined'[t] # 0 /\ mined'[t] <= fin' /\ at = mined'[t]
  /\ From[t] = w /\ ListingOf[o] \in Covers[t]

LEMMA BackedStays ==
  ASSUME Typed, [Next]_vars, NEW t \in Txs, NEW o, NEW w, NEW at,
         Backed(t, o, w, at)
  PROVE  StillBacked(t, o, w, at)
<1>1. mined[t] \in Time /\ fin \in Time
  BY DEF Typed, TypeOK
<1> QED
  BY <1>1, StepChain DEF Backed, StillBacked, Final, Time

LEMMA StepKnows ==
  ASSUME Inv, [Next]_vars
  PROVE  Knows'
<1> SUFFICES ASSUME NEW r \in Requests PROVE Knowing(req[r])'
  BY DEF Knows
<1> DEFINE m == req[r]
           n == req'[r]
<1>0. Typed /\ MemoryOK(m) /\ Knowing(m) /\ Kept
  BY StepKept DEF Inv, Typed, Remembers, Knows
<1>1. CASE n = m
  <2>1. m.had \/ m.pc = "deliver" => m.order \in Orders
    BY <1>0 DEF MemoryOK
  <2>2. Verified(m) => StillBacked(m.tx, m.order, m.row.payer, m.paid)
    <3>1. Verified(m) => m.tx \in Txs
      BY <1>0 DEF MemoryOK, Verified, ClaimLabels, Signed
    <3>2. Verified(m) => Backed(m.tx, m.order, m.row.payer, m.paid)
      BY <1>0 DEF Knowing
    <3> QED
      BY <1>0, <3>1, <3>2, BackedStays
  <2>3. m.had => intent'[m.order].tx # None
    BY <1>0, <2>1 DEF Kept, Knowing
  <2>4. m.pc = "deliver" => x402'[m.order].standing = "paid"
    BY <1>0, <2>1 DEF Kept, Knowing
  <2>5. m.pc \in Signed => m.row.payer \in Controls[m.order]
    BY <1>0 DEF Knowing
  <2> QED
    BY <1>1, <2>2, <2>3, <2>4, <2>5
       DEF Knowing, Verified, Backed, StillBacked, Final
<1>2. CASE Ended(n)
  BY <1>2 DEF Ended, Knowing, Signed, Verified
<1>3. CASE Started(m, n)
  <2>1. n.had => intent[n.order].tx # None
    BY <1>3 DEF Started, Stored
  <2>2. n.had => intent'[n.order].tx # None
    BY <1>0, <1>3, <2>1 DEF Started, Kept
  <2> QED
    BY <1>3, <2>2 DEF Started, Knowing, Signed, Verified
<1>4. CASE WentOn(m, n)
  <2>1. m.order \in Orders /\ n.order = m.order /\ n.tx = m.tx /\ n.had = m.had
    BY <1>0, <1>4 DEF WentOn, MemoryOK
  <2>2. n.pc \in Signed => n.row.payer \in Controls[n.order]
    BY <1>0, <1>4 DEF WentOn, Knowing
  <2>3. Verified(n) => StillBacked(n.tx, n.order, n.row.payer, n.paid)
    <3>1. Verified(n) => m.tx \in Txs /\ n.row = m.row
      BY <1>0, <1>4 DEF WentOn, MemoryOK, Verified, ClaimLabels, Signed
    <3>2. Verified(n) => Backed(m.tx, m.order, m.row.payer, n.paid)
      BY <1>0, <1>4 DEF WentOn, Knowing
    <3> QED
      BY <1>0, <2>1, <3>1, <3>2, BackedStays
  <2>4. n.pc = "deliver" => x402'[n.order].standing = "paid"
    BY <1>0, <1>4, <2>1 DEF WentOn, Kept
  <2>5. n.had => intent'[n.order].tx # None
    BY <1>0, <2>1 DEF Kept, Knowing
  <2> QED
    BY <2>2, <2>3, <2>4, <2>5
       DEF Knowing, Verified, Backed, StillBacked, Final
<1> QED
  BY <1>0, <1>1, <1>2, <1>3, <1>4, StepMoves DEF Moved

LEMMA NamesDiffer ==
  ASSUME NEW o \in Orders
  PROVE  /\ Direct(o) # None /\ Direct(o) # Rival /\ X402(o) # None /\ X402(o) # Rival
         /\ \A x \in Orders : /\ Direct(o) # X402(x)
                              /\ (Direct(o) = Direct(x) => o = x)
                              /\ (X402(o) = X402(x) => o = x)
<1>1. <<"direct", o>> \in {"direct", "x402"} \X Orders
      /\ <<"x402", o>> \in {"direct", "x402"} \X Orders
  OBVIOUS
<1> QED
  BY <1>1, PurchaseAssumption DEF Direct, X402

LEMMA StepRows ==
  ASSUME Inv, [Next]_vars
  PROVE  Rows' /\ Reserved'
<1>0. Typed /\ Rows /\ Reserved /\ None \notin Txs
      /\ intent \in [Orders -> Intent] /\ x402 \in [Orders -> Custody]
      /\ uses \in [Txs -> Owners]
  BY Basics DEF Inv, Typed, TypeOK
<1>1. CASE MoneyKept
  BY <1>0, <1>1 DEF MoneyKept, Rows, Reserved
<1>2. ASSUME NEW r \in Requests, Writes(r), ~MoneyKept PROVE Rows' /\ Reserved'
  <2> DEFINE o == req[r].order
             t == req[r].tx
             p == req[r].paid
  <2>1. o \in Orders /\ intent[o] \in Intent /\ x402[o] \in Custody
    BY <1>0, <1>2, WriterKnown
  <2>2. CASE /\ Replaceable(intent[o], req[r].started)
             /\ NewIntent(r).status = "unsubmitted" /\ NewIntent(r).tx = None
             /\ intent' = [intent EXCEPT ![o] = NewIntent(r)]
             /\ x402' = x402 /\ uses' = uses
    <3>1. intent[o].tx = None
      BY <1>0, <2>1, <2>2 DEF Rows, Replaceable
    <3> QED
      BY <1>0, <2>1, <2>2, <3>1 DEF Rows, Reserved
  <2>3. CASE /\ intent[o].status = "unsubmitted" /\ uses[t] = None /\ t \in Txs
             /\ intent' = [intent EXCEPT ![o] = Pending(intent[o], t)]
             /\ uses' = [uses EXCEPT ![t] = Direct(o)]
             /\ x402' = x402
    <3>1. intent[o].tx = None
      BY <1>0, <2>1, <2>3 DEF Rows
    <3>2. /\ intent'[o].tx = t /\ intent'[o].status = "payment_pending"
          /\ \A x \in Orders : x # o => intent'[x] = intent[x]
          /\ uses'[t] = Direct(o) /\ \A s \in Txs : s # t => uses'[s] = uses[s]
      BY <1>0, <2>1, <2>3 DEF Pending, Intent
    <3>3. Reserved'
      BY <1>0, <2>1, <2>3, <3>1, <3>2, NamesDiffer DEF Reserved
    <3>4. Rows'
      BY <1>0, <2>1, <2>3, <3>2, NamesDiffer DEF Rows
    <3> QED
      BY <3>3, <3>4
  <2>4. ASSUME NEW s \in {"completed", "needs_review"},
               intent[o].status = "payment_pending",
               intent' = [intent EXCEPT ![o].status = s, ![o].paid = p],
               x402' = x402, uses' = uses
        PROVE  Rows' /\ Reserved'
    <3>1. /\ intent'[o].tx = intent[o].tx /\ intent'[o].status = s
          /\ \A x \in Orders : x # o => intent'[x] = intent[x]
      BY <2>1, <2>4, <1>0 DEF Intent
    <3> QED
      BY <1>0, <2>1, <2>4, <3>1 DEF Rows, Reserved
  <2>5. CASE /\ x402' = [x402 EXCEPT ![o].start = req[r].started]
             /\ intent' = intent /\ uses' = uses
    BY <1>0, <2>1, <2>5 DEF Rows, Reserved, Custody
  <2>6. CASE intent' = intent /\ x402' = x402 /\ uses' = uses
    BY <1>0, <2>6 DEF Rows, Reserved
  <2>7. Lockable(r) => intent[o].status = "payment_pending"
    BY DEF Lockable
  <2> QED
    BY <1>0, <1>2, WriteCases, <2>2, <2>3, <2>4, <2>5, <2>6, <2>7
<1>3. ASSUME NEW o \in Orders, CustodyStep(o) PROVE Rows' /\ Reserved'
  <2>1. CASE \E t \in Txs :
               /\ uses[t] = None /\ uses' = [uses EXCEPT ![t] = X402(o)]
               /\ x402'[o].tx = t /\ x402'[o].standing = "pending"
    <3>1. PICK t \in Txs :
               /\ uses[t] = None /\ uses' = [uses EXCEPT ![t] = X402(o)]
               /\ x402'[o].tx = t /\ x402'[o].standing = "pending"
      BY <2>1
    <3>2. uses'[t] = X402(o) /\ \A s \in Txs : s # t => uses'[s] = uses[s]
      BY <1>0, <3>1
    <3>3. intent' = intent /\ \A x \in Orders : x # o => x402'[x] = x402[x]
      BY <1>0, <1>3, CustodyCases
    <3>4. Reserved'
      BY <1>0, <3>1, <3>2, <3>3, NamesDiffer DEF Reserved
    <3>5. Rows'
      BY <1>0, <3>1, <3>2, <3>3, NamesDiffer DEF Rows
    <3> QED
      BY <3>4, <3>5
  <2>2. CASE /\ uses' = uses /\ x402'[o].tx = x402[o].tx
             /\ \/ x402[o].standing = "pending" /\ x402'[o].standing = "paid"
                \/ x402'[o].standing = "refused"
    BY <1>0, <1>3, <2>2, CustodyCases DEF Rows, Reserved
  <2> QED
    BY <1>0, <1>3, <2>1, <2>2, CustodyCases
<1>4. ASSUME NEW t \in Txs, RivalClaims(t) PROVE Rows' /\ Reserved'
  <2>1. /\ uses[t] = None /\ uses'[t] = Rival /\ \A s \in Txs : s # t => uses'[s] = uses[s]
        /\ intent' = intent /\ x402' = x402
    BY <1>0, <1>4 DEF RivalClaims
  <2> QED
    BY <1>0, <2>1, NamesDiffer DEF Rows, Reserved
<1> QED
  BY <1>1, <1>2, <1>3, <1>4, StepWrites

\* A row is delivered by one of two statements, each on its own evidence.
LEMMA Deliveries ==
  ASSUME Typed, [Next]_vars, NEW o \in Orders,
         \/ purchase'[o] # purchase[o]
         \/ intent'[o].status = "completed" /\ intent[o].status # "completed"
  PROVE  /\ ~Bought(o) /\ uses' = uses /\ x402' = x402
         /\ \E r \in Requests :
              /\ req[r].order = o
              /\ \/ /\ req[r].pc = "record" /\ Lockable(r) /\ req[r].tx \in Txs
                    /\ purchase'[o] = [via |-> "claim", tx |-> req[r].tx, at |-> req[r].paid]
                    /\ intent'[o] = [intent[o] EXCEPT !.status = "completed",
                                                      !.paid = req[r].paid]
                 \/ /\ req[r].pc = "deliver" /\ intent' = intent
                    /\ StillSold(ListingOf[o], x402[o].start)
                    /\ purchase'[o] = [via |-> "x402", tx |-> x402[o].tx,
                                       at |-> x402[o].start]
<1>0. /\ intent \in [Orders -> Intent] /\ purchase \in [Orders -> Purchase]
  BY DEF Typed, TypeOK
<1>1. ~MoneyKept
  BY DEF MoneyKept
<1>2. ASSUME NEW r \in Requests, Writes(r),
             purchase' = purchase,
             \/ intent' = intent
             \/ \E b : b.status # "completed"
                       /\ intent' = [intent EXCEPT ![req[r].order] = b]
      PROVE  FALSE
  BY <1>0, <1>2
<1>3. PICK r \in Requests : Writes(r)
  <2>1. ASSUME NEW x \in Orders, CustodyStep(x) PROVE FALSE
    BY <2>1, CustodyCases
  <2>2. ASSUME NEW t \in Txs, RivalClaims(t) PROVE FALSE
    BY <2>2 DEF RivalClaims
  <2> QED
    BY <1>1, <2>1, <2>2, StepWrites
<1> DEFINE m == req[r]
<1>4. m.order \in Orders /\ intent[m.order] \in Intent
  BY <1>3, WriterKnown
<1>5. Pending(intent[m.order], m.tx).status = "payment_pending"
  BY <1>4 DEF Pending, Intent
<1>6. ASSUME intent' = [intent EXCEPT ![m.order].status = "needs_review",
                                      ![m.order].paid = m.paid],
             purchase' = purchase
      PROVE  FALSE
  <2>1. intent'[m.order].status = "needs_review"
        /\ \A x \in Orders : x # m.order => intent'[x] = intent[x]
    BY <1>0, <1>4, <1>6 DEF Intent
  <2> QED
    BY <1>4, <1>6, <2>1
<1>7. CASE /\ RecordDirect(r) /\ Lockable(r) /\ ~Bought(m.order) /\ m.tx \in Txs
           /\ intent' = [intent EXCEPT ![m.order].status = "completed",
                                       ![m.order].paid = m.paid]
           /\ purchase' = [purchase EXCEPT ![m.order] =
                             [via |-> "claim", tx |-> m.tx, at |-> m.paid]]
           /\ x402' = x402 /\ uses' = uses
  <2>1. m.order = o
    BY <1>0, <1>7
  <2> QED
    BY <1>0, <1>7, <2>1 DEF RecordDirect
<1>8. CASE /\ RecordX402(r) /\ StillSold(ListingOf[m.order], x402[m.order].start)
           /\ ~Bought(m.order)
           /\ purchase' = [purchase EXCEPT ![m.order] =
                 [via |-> "x402", tx |-> x402[m.order].tx, at |-> x402[m.order].start]]
           /\ intent' = intent /\ x402' = x402 /\ uses' = uses
  <2>1. m.order = o
    BY <1>0, <1>8
  <2> QED
    BY <1>0, <1>8, <2>1 DEF RecordX402
<1> QED
  BY <1>1, <1>2, <1>3, <1>5, <1>6, <1>7, <1>8, WriteCases

LEMMA StepPaid ==
  ASSUME Inv, [Next]_vars
  PROVE  PaidFor'
<1> SUFFICES ASSUME NEW o \in Orders
             PROVE  LET p == purchase'[o]
                        a == intent'[o]
                    IN
                    /\ p.via = "claim" =>
                         /\ a.status = "completed" /\ a.tx = p.tx
                         /\ uses'[p.tx] = Direct(o)
                         /\ mined'[p.tx] # 0 /\ mined'[p.tx] <= fin'
                         /\ p.at = mined'[p.tx]
                         /\ a.created <= p.at /\ p.at <= a.expires
                         /\ From[p.tx] = a.payer /\ a.payer \in Controls[o]
                         /\ ListingOf[o] \in Covers[p.tx]
                    /\ p.via = "x402" =>
                         /\ x402'[o].standing = "paid" /\ x402'[o].tx = p.tx
                         /\ uses'[p.tx] = X402(o)
                    /\ a.status = "completed" <=> p.via = "claim"
  BY DEF PaidFor
<1> DEFINE a == intent[o]
           p == purchase[o]
<1>0. /\ Typed /\ Rows /\ Reserved /\ PaidFor /\ Knows /\ Kept
      /\ a \in Intent /\ p \in Purchase /\ x402[o] \in Custody
      /\ \A t \in Txs : uses'[t] = uses[t] \/ uses[t] = None
  BY StepKept DEF Inv, Typed, TypeOK, Kept
<1>1. CASE /\ purchase'[o] = p
           /\ ~(intent'[o].status = "completed" /\ a.status # "completed")
  <2>1. CASE p.via = "claim"
    <3>1. /\ a.status = "completed" /\ a.tx = p.tx /\ p.tx \in Txs
          /\ uses[p.tx] = Direct(o) /\ intent'[o] = a
          /\ Backed(p.tx, o, a.payer, p.at)
      BY <1>0, <2>1 DEF PaidFor, Rows, Kept, Backed, Final
    <3>2. StillBacked(p.tx, o, a.payer, p.at)
      BY <1>0, <3>1, BackedStays
    <3>3. uses'[p.tx] = Direct(o)
      BY <1>0, <3>1, NamesDiffer
    <3> QED
      BY <1>0, <1>1, <2>1, <3>1, <3>2, <3>3 DEF PaidFor, StillBacked
  <2>2. CASE p.via = "x402"
    <3>1. /\ x402[o].standing = "paid" /\ x402[o].tx = p.tx /\ p.tx \in Txs
          /\ uses[p.tx] = X402(o) /\ a.status # "completed"
      BY <1>0, <2>2 DEF PaidFor, Rows
    <3>2. x402'[o].standing = "paid" /\ x402'[o].tx = p.tx
      BY <1>0, <3>1 DEF Kept
    <3>3. uses'[p.tx] = X402(o)
      BY <1>0, <3>1, NamesDiffer
    <3> QED
      BY <1>1, <2>2, <3>1, <3>2, <3>3
  <2>3. CASE p.via = "none"
    BY <1>0, <1>1, <2>3 DEF PaidFor
  <2> QED
    BY <1>0, <2>1, <2>2, <2>3 DEF Purchase
<1>2. CASE \/ purchase'[o] # p
           \/ intent'[o].status = "completed" /\ a.status # "completed"
  <2>1. ~Bought(o) /\ uses' = uses /\ x402' = x402
    BY <1>0, <1>2, Deliveries
  <2>2. PICK r \in Requests :
          /\ req[r].order = o
          /\ \/ /\ req[r].pc = "record" /\ Lockable(r) /\ req[r].tx \in Txs
                /\ purchase'[o] = [via |-> "claim", tx |-> req[r].tx, at |-> req[r].paid]
                /\ intent'[o] = [a EXCEPT !.status = "completed", !.paid = req[r].paid]
             \/ /\ req[r].pc = "deliver" /\ intent' = intent
                /\ StillSold(ListingOf[o], x402[o].start)
                /\ purchase'[o] = [via |-> "x402", tx |-> x402[o].tx,
                                   at |-> x402[o].start]
    BY <1>0, <1>2, Deliveries
  <2> DEFINE m == req[r]
  <2>3. CASE /\ m.pc = "record" /\ Lockable(r) /\ m.tx \in Txs
             /\ purchase'[o] = [via |-> "claim", tx |-> m.tx, at |-> m.paid]
             /\ intent'[o] = [a EXCEPT !.status = "completed", !.paid = m.paid]
    <3>0. Knowing(m) /\ m.order = o /\ Verified(m) /\ m.pc \in Signed
      BY <1>0, <2>2, <2>3 DEF Knows, Verified, Signed
    <3>1. Backed(m.tx, o, m.row.payer, m.paid) /\ m.row.payer \in Controls[o]
      <4> HIDE DEF m
      <4> QED
        BY <3>0 DEF Knowing
    <3>2. StillBacked(m.tx, o, m.row.payer, m.paid)
      BY <1>0, <2>3, <3>1, BackedStays
    <3>3. /\ a.tx = m.tx /\ a.payer = m.row.payer
          /\ a.created <= m.paid /\ m.paid <= a.expires
      BY <2>2, <2>3 DEF Lockable, InWindow
    <3>4. uses[m.tx] = Direct(o)
      BY <1>0, <2>3, <3>3 DEF Reserved
    <3>5. /\ intent'[o].status = "completed" /\ intent'[o].tx = a.tx
          /\ intent'[o].payer = a.payer /\ intent'[o].created = a.created
          /\ intent'[o].expires = a.expires
      BY <1>0, <2>3 DEF Intent
    <3> QED
      BY <2>1, <2>3, <3>1, <3>2, <3>3, <3>4, <3>5 DEF StillBacked
  <2>4. CASE /\ m.pc = "deliver" /\ intent' = intent
             /\ purchase'[o] = [via |-> "x402", tx |-> x402[o].tx,
                                at |-> x402[o].start]
    <3>1. x402[o].standing = "paid" /\ uses[x402[o].tx] = X402(o)
      BY <1>0, <2>2, <2>4 DEF Knows, Knowing, Rows
    <3>2. a.status # "completed"
      BY <1>0, <2>1 DEF PaidFor, Bought
    <3> QED
      BY <2>1, <2>4, <3>1, <3>2
  <2> QED
    BY <2>2, <2>3, <2>4
<1> QED
  BY <1>1, <1>2

LEMMA InitInv == Init => Inv
<1> SUFFICES ASSUME Init PROVE Rows /\ Reserved /\ PaidFor /\ Knows
  BY InitTyped DEF Inv
<1>1. Rows /\ PaidFor
  BY DEF Init, Rows, PaidFor, NoIntent, NoCustody, NoPurchase
<1>2. Reserved
  BY NamesDiffer, Basics DEF Init, Reserved, NoIntent
<1>3. Knows
  BY DEF Init, Knows, Knowing, IdleReq, Signed, Verified
<1> QED
  BY <1>1, <1>2, <1>3

LEMMA StepInv == Inv /\ [Next]_vars => Inv'
BY StepTyped, StepRows, StepPaid, StepKnows DEF Inv

LEMMA InvHolds == Spec => []Inv
BY InitInv, StepInv, PTL DEF Spec

\* What was delivered was paid for, by the channel its row names: a finalized
\* transfer of the right payer, seller and window, or custody's verified one,
\* and payment_uses says so (recordDirectPurchase, recordPurchase).
THEOREM DeliveredWasPaid == Spec => []PaidFor
<1>1. Inv => PaidFor
  BY DEF Inv
<1> QED
  BY <1>1, InvHolds, PTL

\* A transaction reserved by a claim and the intent that stores it name each
\* other for ever (reserve_direct_payment_intent_use).
THEOREM ClaimsKeepTheirs == Spec => []Reserved
<1>1. Inv => Reserved
  BY DEF Inv
<1> QED
  BY <1>1, InvHolds, PTL

---------------------------------------------------------------------------
(* Leaving is a border, and a stored payment ends the invitations.         *)

LEMMA StepBorder ==
  ASSUME Inv, [Next]_vars, NEW o \in Orders,
         ~Bought(o), Bought(o)', ~Live(ListingOf[o])
  PROVE  purchase'[o].at <= Gone(ListingOf[o])
<1>1. purchase'[o] # purchase[o]
  BY DEF Bought
<1>2. PICK r \in Requests :
        /\ req[r].order = o
        /\ \/ /\ Lockable(r)
              /\ purchase'[o] = [via |-> "claim", tx |-> req[r].tx, at |-> req[r].paid]
           \/ /\ StillSold(ListingOf[o], x402[o].start)
              /\ purchase'[o] = [via |-> "x402", tx |-> x402[o].tx,
                                 at |-> x402[o].start]
  <2>1. Typed
    BY DEF Inv
  <2> QED
    BY <1>1, <2>1, Deliveries
<1> QED
  BY <1>2 DEF Lockable, StillSold

\* Once a listing is seen to have left, only what was paid no later sells.
THEOREM LeavingIsABorder == Spec => NothingSoldAfterLeaving
<1>1. ASSUME Inv, [Next]_vars, NEW o \in Orders,
             ~Bought(o), Bought(o)', ~Live(ListingOf[o])
      PROVE  purchase'[o].at <= Gone(ListingOf[o])
  BY <1>1, StepBorder
<1>2. Inv /\ [Next]_vars =>
        [\A o \in Orders :
           LET l == ListingOf[o] IN
           ~Bought(o) /\ Bought(o)' /\ ~Live(l) => purchase'[o].at <= Gone(l)]_vars
  BY <1>1
<1> QED
  BY <1>2, InvHolds, PTL DEF Spec, NothingSoldAfterLeaving

LEMMA StepInvites ==
  ASSUME Inv, [Next]_vars, NEW r \in Requests, req[r].had
  PROVE  req'[r].answer # "intent"
<1>0. /\ Typed /\ req[r] \in Req /\ req[r].order \in Orders
      /\ intent[req[r].order].tx # None /\ req[r].answer = "none"
  BY DEF Inv, Typed, TypeOK, Remembers, MemoryOK, Knows, Knowing
<1>1. intent[req[r].order].status \notin {"none", "unsubmitted"}
  BY <1>0 DEF Inv, Rows
<1>2. ASSUME NEW x, Reply(r, x) PROVE req'[r].answer = x
  BY <1>0, <1>2 DEF Reply, IdleReq, Typed, TypeOK
<1>3. CASE req'[r] = req[r] \/ WentOn(req[r], req'[r])
  BY <1>0, <1>3 DEF WentOn
<1>4. CASE IntentStep(r)
  <2>1. ASSUME NEW l, Goto(r, l) PROVE req'[r].answer = "none"
    BY <1>0, <2>1 DEF Goto, Typed, TypeOK, Req
  <2> QED
    BY <1>1, <1>2, <1>4, <2>1 DEF IntentStep, LookFirst, UpsertIntent, ReadExisting,
       Replaceable
<1>5. CASE ClaimStep(r)
  <2>1. ASSUME NEW a, NEW f, NEW at, Resolve(r, a, f, at)
        PROVE  req'[r].answer # "intent"
    BY <1>0, <1>2, <2>1 DEF Resolve, Typed, TypeOK, Req
  <2> QED
    BY <1>0, <1>2, <1>5, <2>1
       DEF ClaimStep, ReadListing, ReadIntent, SignatureVerifies, SignatureRefused,
           ReadTransfer, Reserve, RereadAttempt, RecordDirect, ReviewDirect, Goto,
           Typed, TypeOK, Req
<1>6. CASE BuyStep(r) \/ Abandon(r)
  BY <1>0, <1>2, <1>6
     DEF BuyStep, ReadShop, ReadPrior, ReadSaved, SettleX402, SettleAnswers,
         RecordX402, Abandon, Goto, IdleReq, Typed, TypeOK, Req
<1>7. CASE Arrive(r)
  BY <1>0, <1>7 DEF Arrive, AskIntent, Claim, Buy, Begin, Inv, Remembers, MemoryOK, Typed
<1>8. ASSUME NEW q \in Requests, q # r, RequestStep(q) PROVE req'[r] = req[r]
  <2>1. req' \in [Requests -> Req] /\ Moved(q)
    BY <1>0, <1>8, RequestMoves DEF Moved
  <2> QED
    BY <1>8, <2>1 DEF Moved
<1> QED
  BY <1>3, <1>4, <1>5, <1>6, <1>7, <1>8, StepRequests DEF RequestStep

\* A buyer whose claim stored a payment is never handed an intent to pay by.
THEOREM NoIntentTwice == Spec => NoSecondIntent
<1>1. Inv /\ [Next]_vars =>
        [\A r \in Requests : req[r].had => req'[r].answer # "intent"]_req
  BY StepInvites
<1> QED
  BY <1>1, InvHolds, PTL DEF Spec, NoSecondIntent

---------------------------------------------------------------------------
(* Direct claims implement the ledger: a reservation claims, a delivery    *)
(* pays, a review refuses, and custody is a rival.                         *)

Finals == {t \in Txs : mined[t] # 0 /\ mined[t] <= fin}

Owner == [t \in Txs |-> IF uses[t] \in {X402(o) : o \in Orders} THEN Rival ELSE uses[t]]

Standings == [a \in Claims |-> Standing(intent[a[2]])]

LEMMA InitLedger == Init => Ledger!Init
<1> SUFFICES ASSUME Init PROVE Ledger!Init
  OBVIOUS
<1>1. Finals = {}
  BY DEF Init, Finals
<1>2. Owner = [t \in Txs |-> None]
  BY NamesDiffer DEF Init, Owner
<1>3. Standings = [a \in Claims |-> "open"]
  BY DEF Init, Standings, Standing, Claims, Direct, NoIntent
<1> QED
  BY <1>1, <1>2, <1>3 DEF Ledger!Init, Finals, Owner, Standings

LEMMA StepLedger ==
  ASSUME Inv, [Next]_vars
  PROVE  [Ledger!Next]_(Ledger!vars)
<1>0. /\ Typed /\ Rows /\ Reserved /\ Kept
      /\ intent \in [Orders -> Intent] /\ x402 \in [Orders -> Custody]
      /\ uses \in [Txs -> Owners] /\ mined \in [Txs -> Time] /\ fin \in Time
  BY StepKept DEF Inv, Typed, TypeOK
<1>1. Finals \subseteq Finals' /\ Finals' \in SUBSET Txs
  BY <1>0, StepChain DEF Finals, Final, Time
<1>2. ChainKept => Finals' = Finals
  BY DEF ChainKept, Finals
<1>3. intent' = intent => Standings' = Standings
  BY DEF Standings
<1>4. uses' = uses => Owner' = Owner
  BY DEF Owner
<1>5. ASSUME Owner' = Owner, Standings' = Standings PROVE [Ledger!Next]_(Ledger!vars)
  BY <1>1, <1>5 DEF Ledger!Next, Ledger!Finalize, Owner, Standings, Finals
<1>6. ASSUME Finals' = Finals, Standings' = Standings, NEW t \in Txs, uses[t] = None,
             NEW u \in {Rival} \cup {X402(o) : o \in Orders},
             uses' = [uses EXCEPT ![t] = u]
      PROVE  [Ledger!Next]_(Ledger!vars)
  <2>1. Owner[t] = None /\ Owner' = [Owner EXCEPT ![t] = Rival]
    <3>1. None \notin {X402(o) : o \in Orders}
      BY NamesDiffer DEF X402
    <3> QED
      BY <1>0, <1>6, <3>1 DEF Owner
  <2>2. Ledger!RivalClaim(t)
    BY <1>6, <2>1 DEF Ledger!RivalClaim, Owner, Standings, Finals
  <2> QED
    BY <2>2 DEF Ledger!Next
<1>7. ASSUME NEW r \in Requests, Writes(r), ~MoneyKept
      PROVE  [Ledger!Next]_(Ledger!vars)
  <2> DEFINE o == req[r].order
             t == req[r].tx
             a == intent[o]
             d == Direct(o)
  <2>0. /\ o \in Orders /\ a \in Intent /\ d \in Claims /\ Finals' = Finals
        /\ Standings[d] = Standing(a)
        /\ req[r].pc \in ClaimLabels => t \in Txs
    <3>1. ChainKept
      BY <1>7 DEF Writes, UpsertIntent, Reserve, RecordDirect, ReviewDirect,
         SettleX402, RecordX402, chain, ChainKept
    <3> QED
      BY <1>0, <1>2, <1>7, <3>1, WriterKnown DEF Claims, Standings, Direct
  <2>1. ASSUME NEW b \in Intent, intent' = [intent EXCEPT ![o] = b]
        PROVE  Standings' = [Standings EXCEPT ![d] = Standing(b)]
    <3>1. \A x \in Orders : intent'[x] = IF x = o THEN b ELSE intent[x]
      BY <1>0, <2>0, <2>1
    <3>2. \A c \in Claims : c[2] \in Orders /\ (c = d <=> c[2] = o)
      BY DEF Claims, Direct
    <3>3. \A c \in Claims : Standing(intent'[c[2]]) =
                            IF c = d THEN Standing(b) ELSE Standing(intent[c[2]])
      BY <3>1, <3>2
    <3>4. Standings' = [c \in Claims |-> Standing(intent'[c[2]])]
      BY DEF Standings
    <3> HIDE DEF d
    <3> QED
      BY <3>3, <3>4 DEF Standings
  <2>2. ASSUME intent' = intent, uses' = uses PROVE [Ledger!Next]_(Ledger!vars)
    BY <1>3, <1>4, <1>5, <2>2
  <2>3. CASE /\ Replaceable(a, req[r].started)
             /\ NewIntent(r).status = "unsubmitted"
             /\ intent' = [intent EXCEPT ![o] = NewIntent(r)] /\ uses' = uses
    <3>1. intent'[o] = NewIntent(r) /\ intent'[o] \in Intent
      <4>1. intent' \in [Orders -> Intent]
        BY StepTables DEF Inv
      <4> QED
        BY <1>0, <2>0, <2>3, <4>1
    <3>2. Standings' = [Standings EXCEPT ![d] = Standing(NewIntent(r))]
      BY <2>1, <2>3, <3>1
    <3>3. Standing(NewIntent(r)) = "open" /\ Standings[d] = "open"
      BY <2>0, <2>3 DEF Standing, Replaceable
    <3>4. Standings' = Standings
      BY <3>2, <3>3 DEF Standings
    <3> QED
      BY <1>4, <1>5, <2>3, <3>4
  <2>4. CASE /\ a.status = "unsubmitted" /\ uses[t] = None /\ t \in Txs
             /\ intent' = [intent EXCEPT ![o] = Pending(a, t)]
             /\ uses' = [uses EXCEPT ![t] = d]
    <3>1. Pending(a, t) \in Intent /\ Pending(a, t).status = "payment_pending"
      BY <2>0, <2>4 DEF Pending, Intent
    <3>2. Standings' = [Standings EXCEPT ![d] = "pending"] /\ Standings[d] = "open"
      BY <2>0, <2>1, <2>4, <3>1 DEF Standing
    <3>3. Owner[t] = None /\ Owner' = [Owner EXCEPT ![t] = d]
      <4>1. None \notin {X402(x) : x \in Orders} /\ d \notin {X402(x) : x \in Orders}
        BY NamesDiffer DEF X402, Direct
      <4> HIDE DEF d
      <4> QED
        BY <1>0, <2>4, <4>1 DEF Owner
    <3>4. PICK c \in Claims, x \in Txs : c = d /\ x = t
      BY <2>0, <2>4
    <3>5. Ledger!Claim(c, x)
      BY <2>0, <3>2, <3>3, <3>4 DEF Ledger!Claim, Owner, Standings, Finals
    <3> QED
      BY <3>5 DEF Ledger!Next
  <2>5. ASSUME RecordDirect(r), Lockable(r), t \in Txs,
               intent' = [intent EXCEPT ![o].status = "completed", ![o].paid = req[r].paid],
               uses' = uses
        PROVE  [Ledger!Next]_(Ledger!vars)
    <3> DEFINE b == [a EXCEPT !.status = "completed", !.paid = req[r].paid]
    <3>1. b \in Intent /\ b.status = "completed" /\ intent' = [intent EXCEPT ![o] = b]
      <4>1. req[r].paid \in Time
        BY <1>0, <1>7 DEF Typed, TypeOK, Req
      <4> QED
        BY <1>0, <2>0, <2>5, <4>1 DEF Intent
    <3>2. a.status = "payment_pending" /\ a.tx = t
      BY <2>5 DEF Lockable
    <3>3. Standings' = [Standings EXCEPT ![d] = "paid"] /\ Standings[d] = "pending"
      <4> HIDE DEF b
      <4> QED
        BY <2>0, <2>1, <3>1, <3>2 DEF Standing
    <3>4. t \in Finals
      BY <1>7, <2>5 DEF Inv, Knows, Knowing, Verified, RecordDirect, Backed, Final, Finals
    <3>5. Owner[t] = d
      <4>1. uses[t] = d
        BY <1>0, <2>0, <2>5, <3>2 DEF Reserved
      <4>2. d \notin {X402(x) : x \in Orders}
        BY DEF X402, Direct
      <4> HIDE DEF d
      <4> QED
        BY <2>5, <4>1, <4>2 DEF Owner
    <3>6. Owner' = Owner
      BY <1>4, <2>5
    <3>7. Ledger!Owns(d, t)
      BY <3>5 DEF Ledger!Owns, Owner
    <3>8. Ledger!Pay(d)
      BY <2>0, <3>3, <3>4, <3>6, <3>7 DEF Ledger!Pay, Owner, Standings, Finals
    <3> QED
      BY <2>0, <3>8 DEF Ledger!Next
  <2>6. CASE /\ a.status = "payment_pending" /\ uses' = uses
             /\ intent' = [intent EXCEPT ![o].status = "needs_review",
                                         ![o].paid = req[r].paid]
    <3> DEFINE b == [a EXCEPT !.status = "needs_review", !.paid = req[r].paid]
    <3>1. b \in Intent /\ b.status = "needs_review" /\ intent' = [intent EXCEPT ![o] = b]
      <4>1. req[r].paid \in Time
        BY <1>0, <1>7 DEF Typed, TypeOK, Req
      <4> QED
        BY <1>0, <2>0, <2>6, <4>1 DEF Intent
    <3>2. Standings' = [Standings EXCEPT ![d] = "refused"] /\ Standings[d] = "pending"
      <4> HIDE DEF b
      <4> QED
        BY <2>0, <2>1, <2>6, <3>1 DEF Standing
    <3>3. Owner' = Owner
      BY <1>4, <2>6
    <3>4. Ledger!Refuse(d)
      BY <2>0, <3>2, <3>3 DEF Ledger!Refuse, Owner, Standings, Finals
    <3> QED
      BY <2>0, <3>4 DEF Ledger!Next
  <2> QED
    BY <1>0, <1>7, WriteCases, <2>2, <2>3, <2>4, <2>5, <2>6
<1>8. ASSUME NEW o \in Orders, CustodyStep(o) PROVE [Ledger!Next]_(Ledger!vars)
  <2>1. intent' = intent /\ Standings' = Standings /\ Finals' = Finals
    BY <1>0, <1>2, <1>3, <1>8, CustodyCases
       DEF CustodyStep, CustodyClaims, CustodyPays, CustodyRefuses, chain, ChainKept
  <2>2. ASSUME NEW t \in Txs, uses[t] = None, uses' = [uses EXCEPT ![t] = X402(o)]
        PROVE  [Ledger!Next]_(Ledger!vars)
    BY <1>6, <2>1, <2>2
  <2> QED
    BY <1>0, <1>4, <1>5, <1>8, <2>1, <2>2, CustodyCases
<1>9. ASSUME NEW t \in Txs, RivalClaims(t) PROVE [Ledger!Next]_(Ledger!vars)
  <2>1. Standings' = Standings /\ Finals' = Finals
    BY <1>2, <1>3, <1>9 DEF RivalClaims, chain, ChainKept
  <2> QED
    BY <1>6, <1>9, <2>1 DEF RivalClaims
<1> QED
  BY <1>3, <1>4, <1>5, <1>7, <1>8, <1>9, StepWrites DEF MoneyKept

\* Direct claims are one more channel of the ledger: a reservation claims its
\* transaction, a delivery pays by a final one, a review refuses, and custody
\* is a rival.
THEOREM ClaimsImplementLedger == Spec => LedgerSpec
<1>1. Inv /\ [Next]_vars =>
        [UNCHANGED <<uses, intent, {t \in Txs : mined[t] # 0 /\ mined[t] <= fin}>>
         \/ Ledger!Next]_(Ledger!vars)
  BY StepLedger
<1> QED
  BY <1>1, InitLedger, InvHolds, PTL DEF Spec, LedgerSpec
=============================================================================
