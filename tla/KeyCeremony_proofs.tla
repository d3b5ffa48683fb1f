------------------------- MODULE KeyCeremony_proofs -------------------------
(***************************************************************************)
(* Keys, ceremonies and recovery codes for every set of sessions, codes    *)
(* and requests.  The first part proves that TypeOK, HistoryKept and       *)
(* OvertakenStaysDead hold of KeyCeremony's specification.  The second,    *)
(* that what a page said of a ceremony stays true: one reported canceled   *)
(* or invalidated never replaces the key, and one reported rotated or      *)
(* recovered has.  The last counts: a completed recovery spent one code.   *)
(***************************************************************************)
EXTENDS KeyCeremony, FiniteSetTheorems, TLAPS

---------------------------------------------------------------------------
(* Type correctness.                                                       *)

LEMMA RecordedType ==
  ASSUME TypeOK, NEW new, NEW now
  PROVE  Recorded(new, now) \in [Recoveries -> Outcomes \cup {"none"}]
BY DEF TypeOK, Recorded, Outcome, Outcomes

LEMMA UpdateType ==
  ASSUME TypeOK, NEW new \in [Codes -> Code], NEW now, Update(new, now)
  PROVE  /\ code' \in [Codes -> Code]
         /\ result' \in [Recoveries -> Outcomes \cup {"none"}]
BY RecordedType DEF Update

LEMMA ClearedType ==
  ASSUME TypeOK, NEW ss
  PROVE  Cleared(ss) \in [Codes -> Code]
BY DEF TypeOK, Cleared, Code

LEMMA InvalidatedType ==
  ASSUME TypeOK, NEW cs
  PROVE  Invalidated(cs) \in [Codes -> Code]
BY DEF TypeOK, Invalidated, Code

LEMMA EndedType ==
  ASSUME TypeOK, NEW s \in Rotations,
         NEW status \in {"confirmed", "canceled", "expired", "invalidated"}
  PROVE  Ended(rot[s], status) \in Rotation
BY DEF TypeOK, Ended, Rotation

LEMMA SweptType ==
  ASSUME TypeOK, NEW now
  PROVE  Swept(now) \in [Rotations -> Rotation]
BY EndedType DEF Swept, TypeOK

LEMMA IdleReqType == IdleReq \in Req
BY DEF IdleReq, Req, Labels

LEMMA BusyReqType ==
  ASSUME TypeOK
  PROVE  /\ \A s \in Ceremonies \cup {None} : Looking(s) \in Req
         /\ \A s \in Ceremonies, right \in BOOLEAN : Confirming(s, right) \in Req
         /\ Generating \in Req
BY DEF TypeOK, IdleReq, Looking, Confirming, Generating, Unused, Req, Labels

LEMMA TypeStep ==
  ASSUME CeremonyAssumption, TypeOK, [Next]_vars
  PROVE  TypeOK'
<1>0. /\ Rotations \subseteq Ceremonies /\ Recoveries \subseteq Ceremonies
      /\ Ceremonies \subseteq Keys
  BY DEF Ceremonies, Keys
<1>1. CASE UNCHANGED vars
  BY <1>1 DEF vars, TypeOK
<1>2. ASSUME NEW s \in Rotations, StageRotation(s)
      PROVE  TypeOK'
  <2>1. [status |-> "staged", gen |-> generation, under |-> key] \in Rotation
    BY DEF TypeOK, Rotation
  <2>2. rot' \in [Rotations -> Rotation]
    BY <1>2, <2>1, SweptType DEF StageRotation
  <2> QED
    BY <1>2, <2>2 DEF StageRotation, TypeOK, merchant
<1>3. ASSUME NEW s \in Recoveries, StageRecovery(s)
      PROVE  TypeOK'
  <2>1. PICK c \in Codes : Update([Cleared(due) EXCEPT ![c].session = s], due)
    BY <1>3 DEF StageRecovery
  <2>2. [Cleared(due) EXCEPT ![c].session = s] \in [Codes -> Code]
    BY ClearedType DEF Code
  <2>3. /\ code' \in [Codes -> Code]
        /\ result' \in [Recoveries -> Outcomes \cup {"none"}]
    BY <2>1, <2>2, UpdateType
  <2> QED
    BY <1>3, <2>3 DEF StageRecovery, TypeOK, merchant
<1>4. ASSUME NEW s \in Ceremonies, Expire(s)
      PROVE  TypeOK'
  BY <1>4 DEF Expire, TypeOK, merchant
<1>5. CASE NewDay
  BY <1>5 DEF NewDay, TypeOK, merchant, CeremonyAssumption
<1>6. ASSUME NEW r \in Requests, NEW s \in Ceremonies, NEW right \in BOOLEAN,
             Confirm(r, s, right) \/ Resume(r, s)
      PROVE  TypeOK'
  <2>1. req' \in [Requests -> Req]
    BY <1>6, IdleReqType, BusyReqType DEF Confirm, Resume, EndOrLook, TypeOK
  <2>2. rot' \in [Rotations -> Rotation]
    BY <1>6, SweptType DEF Confirm, Resume, TypeOK
  <2> QED
    BY <1>6, <2>1, <2>2 DEF Confirm, Resume, TypeOK, merchant
<1>7. ASSUME NEW r \in Requests, Lock(r) \/ GenerateStarts(r)
                                 \/ GenerateRejected(r) \/ LookRotation(r)
      PROVE  TypeOK'
  <2>1. ASSUME LookRotation(r)
        PROVE  RotationStatus(req[r].on) \in Finals \cup {"open"}
    BY <2>1 DEF RotationStatus, Finals, Outcomes, LookRotation, TypeOK, Rotation
  <2>2. CASE Lock(r) \/ LookRotation(r)
    <3>1. req' \in [Requests -> Req]
      BY <2>1, <2>2 DEF Lock, LookRotation, TypeOK, Req, Labels
    <3> QED
      BY <2>2, <3>1 DEF Lock, LookRotation, TypeOK, merchant
  <2>3. CASE GenerateStarts(r) \/ GenerateRejected(r)
    <3>1. req' \in [Requests -> Req]
      BY <2>3, IdleReqType, BusyReqType
         DEF GenerateStarts, GenerateRejected, TypeOK
    <3> QED
      BY <2>3, <3>1 DEF GenerateStarts, GenerateRejected, TypeOK, merchant
  <2> QED
    BY <1>7, <2>2, <2>3
<1>8. ASSUME NEW r \in Requests, Rotate(r)
      PROVE  TypeOK'
  <2>1. rot' \in [Rotations -> Rotation]
    BY <1>8, EndedType DEF Rotate, TypeOK
  <2>2. /\ code' \in [Codes -> Code]
        /\ result' \in [Recoveries -> Outcomes \cup {"none"}]
    BY <1>8, InvalidatedType, UpdateType DEF Rotate
  <2>3. /\ key' \in Keys /\ generation' \in 1..MaxGeneration /\ past' \subseteq Keys
        /\ overtaken' \subseteq Ceremonies
    BY <1>0, <1>8 DEF Rotate, Activate, TypeOK, OpenCeremonies, CeremonyAssumption
  <2>4. /\ req' \in [Requests -> Req] /\ told' \subseteq Ceremonies \X Finals
        /\ today' \in 0..DailyLimit
    BY <1>0, <1>8, IdleReqType
       DEF Rotate, Answer, Admitted, TypeOK, Finals, CeremonyAssumption
  <2> QED
    BY <1>8, <2>1, <2>2, <2>3, <2>4 DEF Rotate, TypeOK
<1>9. ASSUME NEW r \in Requests, Recover(r)
      PROVE  TypeOK'
  <2>1. rot' \in [Rotations -> Rotation]
    BY <1>9, EndedType DEF Recover, TypeOK
  <2>2. [c \in Codes |-> IF c \in Holding(req[r].on)
                         THEN [state |-> "used", session |-> None]
                         ELSE Invalidated(Unused)[c]] \in [Codes -> Code]
    BY InvalidatedType DEF Code
  <2>3. /\ code' \in [Codes -> Code]
        /\ result' \in [Recoveries -> Outcomes \cup {"none"}]
    BY <1>9, <2>2, UpdateType DEF Recover
  <2>4. /\ key' \in Keys /\ generation' \in 1..MaxGeneration /\ past' \subseteq Keys
        /\ overtaken' \subseteq Ceremonies
    BY <1>0, <1>9 DEF Recover, Activate, TypeOK, OpenCeremonies, CeremonyAssumption
  <2>5. /\ req' \in [Requests -> Req] /\ told' \subseteq Ceremonies \X Finals
    BY <1>0, <1>9, IdleReqType DEF Recover, Answer, TypeOK, Finals, Outcomes
  <2> QED
    BY <1>9, <2>1, <2>3, <2>4, <2>5 DEF Recover, TypeOK
<1>10. ASSUME NEW r \in Requests, LimitReached(r) \/ Refuse(r)
       PROVE  TypeOK'
  <2>0. req[r].on \in Ceremonies \cup {None}
    BY DEF TypeOK, Req
  <2>1. rot' \in [Rotations -> Rotation]
    BY <1>10, SweptType, EndedType DEF LimitReached, Refuse, TypeOK
  <2>2. req' \in [Requests -> Req]
    BY <1>10, <2>0, IdleReqType, BusyReqType
       DEF LimitReached, Refuse, EndOrLook, TypeOK
  <2> QED
    BY <1>10, <2>1, <2>2 DEF LimitReached, Refuse, TypeOK, merchant
<1>11. ASSUME NEW r \in Requests, Generate(r)
       PROVE  TypeOK'
  <2>1. rot' \in [Rotations -> Rotation]
    BY <1>11, EndedType DEF Generate, TypeOK
  <2>2. [c \in Codes |-> IF c[1] = generation + 1
                         THEN [state |-> "unused", session |-> None]
                         ELSE Invalidated(Rechecked(r))[c]] \in [Codes -> Code]
    BY InvalidatedType DEF Code
  <2>3. /\ code' \in [Codes -> Code]
        /\ result' \in [Recoveries -> Outcomes \cup {"none"}]
    BY <1>11, <2>2, UpdateType DEF Generate
  <2>4. /\ generation' \in 1..MaxGeneration /\ overtaken' \subseteq Ceremonies
    BY <1>11 DEF Generate, TypeOK, OpenCeremonies, CeremonyAssumption
  <2> QED
    BY <1>11, <2>1, <2>3, <2>4, IdleReqType DEF Generate, TypeOK
<1>12. ASSUME NEW r \in Requests, NEW s \in Ceremonies, Cancel(r, s)
       PROVE  TypeOK'
  <2>1. /\ rot' \in [Rotations -> Rotation]
        /\ code' \in [Codes -> Code]
        /\ result' \in [Recoveries -> Outcomes \cup {"none"}]
    BY <1>12, EndedType, ClearedType, UpdateType DEF Cancel, TypeOK
  <2>2. /\ req' \in [Requests -> Req] /\ told' \subseteq Ceremonies \X Finals
    BY <1>12, IdleReqType, BusyReqType DEF Cancel, Answer, TypeOK, Finals, Outcomes
  <2> QED
    BY <1>12, <2>1, <2>2 DEF Cancel, TypeOK, merchant
<1>13. ASSUME NEW r \in Requests, ReportRotation(r) \/ ReportRecovery(r)
       PROVE  TypeOK'
  <2>1. rot' \in [Rotations -> Rotation]
    BY <1>13, EndedType DEF ReportRotation, ReportRecovery, TypeOK
  <2>2. ASSUME ReportRecovery(r)
        PROVE  RecoveryStatus(req[r].on) \in Finals \cup {"open"}
    BY <2>2 DEF RecoveryStatus, Finals, Outcomes, ReportRecovery, TypeOK
  <2>3. req[r].on \in Ceremonies /\ req[r].says \in Finals \cup {"open"}
    BY <1>0, <1>13 DEF ReportRotation, ReportRecovery, TypeOK, Req
  <2>4. /\ req' \in [Requests -> Req] /\ told' \subseteq Ceremonies \X Finals
    BY <1>13, <2>2, <2>3, IdleReqType
       DEF ReportRotation, ReportRecovery, Tell, Answer, TypeOK
  <2> QED
    BY <1>13, <2>1, <2>4 DEF ReportRotation, ReportRecovery, TypeOK, merchant
<1>14. ASSUME NEW r \in Requests, LookRecovery(r)
       PROVE  TypeOK'
  <2>1. /\ code' \in [Codes -> Code]
        /\ result' \in [Recoveries -> Outcomes \cup {"none"}]
    BY <1>14, ClearedType, UpdateType DEF LookRecovery
  <2>2. req' \in [Requests -> Req]
    BY <1>14 DEF LookRecovery, TypeOK, Req, Labels
  <2> QED
    BY <1>14, <2>1, <2>2 DEF LookRecovery, TypeOK, merchant
<1>15. ASSUME NEW r \in Requests, Abandon(r)
       PROVE  TypeOK'
  BY <1>15, IdleReqType DEF Abandon, TypeOK, merchant
<1>16. CASE StageRejected
  <2>1. CASE rot' = Swept(due) /\ UNCHANGED <<code, result>>
    BY <1>16, <2>1, SweptType DEF StageRejected, TypeOK, merchant
  <2>2. ASSUME NEW s, Update(Cleared(due \ {s}), due), UNCHANGED rot
        PROVE  TypeOK'
    <3>1. /\ code' \in [Codes -> Code]
          /\ result' \in [Recoveries -> Outcomes \cup {"none"}]
      BY <2>2, ClearedType, UpdateType
    <3> QED
      BY <1>16, <2>2, <3>1 DEF StageRejected, TypeOK, merchant
  <2> QED
    BY <1>16, <2>1, <2>2 DEF StageRejected
<1> QED
  BY <1>1, <1>2, <1>3, <1>4, <1>5, <1>6, <1>7, <1>8, <1>9, <1>10, <1>11, <1>12,
     <1>13, <1>14, <1>15, <1>16 DEF Next

(* Every variable has its type: what the constraints of the tables and the *)
(* labels of the handlers say.                                             *)
THEOREM TypeCorrect == Spec => []TypeOK
<1>1. Init => TypeOK
  BY CeremonyAssumption, IdleReqType
     DEF Init, TypeOK, Keys, Codes, Rotation, Code, CeremonyAssumption
<1>2. TypeOK /\ [Next]_vars => TypeOK'
  BY TypeStep, CeremonyAssumption
<1> QED
  BY <1>1, <1>2, PTL DEF Spec

---------------------------------------------------------------------------
(* What a step may do to a ceremony.  The generation only grows; a row is  *)
(* staged under the current one, and the outcome of a ceremony is kept     *)
(* when its row forgets it.                                                *)

Over(s) == IF s \in Rotations THEN rot[s].status \notin {"none", "staged"}
                              ELSE result[s] # "none" /\ Holding(s) = {}

Stale(s) == /\ Open(s)
            /\ IF s \in Rotations THEN rot[s].gen < generation
                                  ELSE \A c \in Holding(s) : c[1] < generation

Ordered ==
  /\ \A c \in Codes : /\ code[c].state # "absent" => c[1] <= generation
                      /\ code[c].session # None => code[c].state = "unused"
  /\ \A s \in Rotations : rot[s].status = "staged" => rot[s].gen <= generation

CInv == /\ TypeOK
        /\ Ordered
        /\ key \notin past
        /\ \A s \in Activated : Over(s)
        /\ \A s \in overtaken : s \notin Activated /\ (Over(s) \/ Stale(s))

RotationsMove ==
  \A s \in Rotations :
    \/ rot'[s] = rot[s]
    \/ rot[s].status = "staged" /\ rot'[s].status \notin {"none", "staged"}
    \/ /\ rot[s].status = "none" /\ rot'[s].status = "staged"
       /\ rot'[s].gen = generation /\ rot'[s].under = key
       /\ generation' = generation /\ key' = key

CodesMove ==
  \A c \in Codes :
    /\ code[c].state \in {"used", "invalidated"} => code'[c] = code[c]
    /\ code'[c].state # "absent" => code[c].state # "absent" \/ c[1] <= generation'
    /\ code'[c].session # None =>
         /\ code'[c].state = "unused"
         /\ \/ code'[c].session = code[c].session
            \/ /\ Holding(code'[c].session) = {} /\ c[1] = generation
               /\ result[code'[c].session] = "none"
               /\ generation' = generation

ResultsMove ==
  \A s \in Recoveries :
    /\ result[s] # "none" => result'[s] = result[s]
    /\ Holding(s) # {} /\ (\A c \in Codes : code'[c].session # s)
         => result'[s] # "none"

KeyMoves ==
  \/ UNCHANGED merchant
  \/ /\ generation' = generation + 1
     /\ UNCHANGED <<key, past>>
     /\ overtaken' = overtaken \cup OpenCeremonies
  \/ \E s \in Ceremonies : Available(s) /\ Activate(s) /\ Over(s)'

Moves == RotationsMove /\ CodesMove /\ ResultsMove /\ KeyMoves

LEMMA GenerationGrows ==
  ASSUME CInv, Moves
  PROVE  generation' >= generation
BY DEF Moves, KeyMoves, merchant, Activate, CInv, TypeOK

\* What is over stays over, and what is stale ends or stays stale.
LEMMA OverStays ==
  ASSUME CeremonyAssumption, Moves, NEW s \in Ceremonies, Over(s)
  PROVE  Over(s)'
<1>1. CASE s \in Rotations
  BY <1>1 DEF Over, Moves, RotationsMove
<1>2. CASE s \in Recoveries
  BY <1>2 DEF Over, Moves, CodesMove, ResultsMove, Holding, CeremonyAssumption
<1> QED
  BY <1>1, <1>2 DEF Ceremonies

LEMMA StaleStays ==
  ASSUME CeremonyAssumption, CInv, TypeOK', Moves, NEW s \in Ceremonies, Stale(s)
  PROVE  (Over(s) \/ Stale(s))'
<1>1. CASE s \in Rotations
  BY <1>1, GenerationGrows
     DEF Over, Stale, Open, Moves, RotationsMove, CInv, TypeOK, Rotation
<1>2. CASE s \in Recoveries
  <2>1. s \notin Rotations /\ s # None
    BY <1>2 DEF CeremonyAssumption
  <2>2. Holding(s) # {} /\ \A c \in Holding(s) : c[1] < generation
    BY <2>1 DEF Stale, Open
  <2>3. \A c \in Codes : code'[c].session = s => c \in Holding(s)
    BY <2>1, <2>2 DEF Moves, CodesMove, Holding
  <2>4. CASE \A c \in Codes : code'[c].session # s
    BY <1>2, <2>1, <2>2, <2>4 DEF Over, Moves, ResultsMove, Holding
  <2>5. CASE \E c \in Codes : code'[c].session = s
    <3>1. \A c \in Holding(s)' : c[1] < generation'
      BY <2>2, <2>3, GenerationGrows DEF Holding, CInv, TypeOK, Codes
    <3> QED
      BY <2>1, <2>5, <3>1 DEF Stale, Open, Holding
  <2> QED
    BY <2>4, <2>5
<1> QED
  BY <1>1, <1>2 DEF Ceremonies

LEMMA EndedUnavailable ==
  ASSUME CInv, NEW s \in Ceremonies, Over(s) \/ Stale(s)
  PROVE  ~Available(s)
<1>1. Stale(s) => ~Available(s)
  BY DEF Stale, Available, Open, CInv, TypeOK, Rotation, Codes, Holding
<1>2. Over(s) => ~Available(s)
  BY DEF Over, Available, Open
<1> QED
  BY <1>1, <1>2

LEMMA MovesKeep ==
  ASSUME CeremonyAssumption, CInv, TypeOK', Moves
  PROVE  CInv'
<1>1. generation' >= generation
  BY GenerationGrows
<1>2. Ordered'
  <2>1. ASSUME NEW c \in Codes, code'[c].state # "absent"
        PROVE  c[1] <= generation'
    BY <1>1, <2>1 DEF Moves, CodesMove, CInv, Ordered, TypeOK, Codes
  <2>2. ASSUME NEW s \in Rotations, rot'[s].status = "staged"
        PROVE  rot'[s].gen <= generation'
    BY <1>1, <2>2 DEF Moves, RotationsMove, CInv, Ordered, TypeOK, Rotation
  <2> QED
    BY <2>1, <2>2 DEF Ordered, Moves, CodesMove
<1>3. ASSUME NEW s \in Ceremonies, Over(s)
      PROVE  Over(s)'
  BY <1>3, OverStays
<1>4. ASSUME NEW s \in Ceremonies, Stale(s)
      PROVE  (Over(s) \/ Stale(s))'
  BY <1>4, StaleStays
<1>5. overtaken \subseteq Ceremonies /\ Activated \subseteq Ceremonies
  BY DEF CInv, TypeOK, Activated, Keys
<1>6. CASE UNCHANGED merchant
  BY <1>2, <1>3, <1>4, <1>5, <1>6 DEF CInv, merchant, Activated
<1>7. ASSUME NEW s \in Ceremonies, Open(s) PROVE s \notin Activated
  BY <1>7 DEF CInv, Over, Open
<1>8. ASSUME NEW s \in Ceremonies, Open(s), generation' = generation + 1
      PROVE  (Over(s) \/ Stale(s))'
  <2>1. CASE s \in Rotations
    BY <1>8, <2>1 DEF Over, Stale, Open, Moves, RotationsMove, CInv, Ordered,
                      TypeOK, Rotation
  <2>2. CASE s \in Recoveries
    <3>1. s \notin Rotations /\ s # None
      BY <2>2 DEF CeremonyAssumption
    <3>2. Holding(s) # {} /\ \A c \in Holding(s) : c[1] < generation'
      BY <1>8, <3>1 DEF Open, Holding, CInv, Ordered, TypeOK, Codes
    <3>3. \A c \in Codes : code'[c].session = s => c \in Holding(s)
      BY <3>1, <3>2 DEF Moves, CodesMove, Holding
    <3>4. CASE \A c \in Codes : code'[c].session # s
      BY <2>2, <3>1, <3>2, <3>4 DEF Over, Moves, ResultsMove, Holding
    <3>5. CASE \E c \in Codes : code'[c].session = s
      BY <3>1, <3>2, <3>3, <3>5 DEF Stale, Open, Holding
    <3> QED
      BY <3>4, <3>5
  <2> QED
    BY <2>1, <2>2 DEF Ceremonies
<1>9. CASE /\ generation' = generation + 1
           /\ UNCHANGED <<key, past>>
           /\ overtaken' = overtaken \cup OpenCeremonies
  BY <1>2, <1>3, <1>4, <1>5, <1>7, <1>8, <1>9
     DEF CInv, Activated, OpenCeremonies
<1>10. ASSUME NEW s \in Ceremonies, Available(s), Activate(s), Over(s)'
       PROVE  CInv'
  <2>1. Activated' = Activated \cup {s}
    BY <1>10 DEF Activated, Activate, Ceremonies, CeremonyAssumption
  <2>2. s \notin overtaken
    BY <1>10, EndedUnavailable DEF CInv
  <2>3. overtaken' = overtaken \cup (OpenCeremonies \ {s})
    BY <1>10 DEF Activate
  <2>4. generation' = generation + 1
    BY <1>10 DEF Activate
  <2>5. \A x \in overtaken' : x \notin Activated' /\ (Over(x) \/ Stale(x))'
    BY <1>3, <1>4, <1>5, <1>7, <1>8, <2>1, <2>2, <2>3, <2>4
       DEF CInv, OpenCeremonies
  <2>6. \A x \in Activated' : Over(x)'
    BY <1>3, <1>5, <1>10, <2>1 DEF CInv
  <2>7. key' \notin past'
    BY <1>7, <1>10 DEF Activate, Activated, Available, Ceremonies,
                       CeremonyAssumption
  <2> QED
    BY <1>2, <2>5, <2>6, <2>7 DEF CInv
<1> QED
  BY <1>6, <1>9, <1>10 DEF Moves, KeyMoves

---------------------------------------------------------------------------
(* Every step is such a move.                                              *)

LEMMA RowsKept ==
  ASSUME CeremonyAssumption, CInv, UNCHANGED <<merchant, rot, code, result>>
  PROVE  Moves
<1>1. RotationsMove /\ KeyMoves
  BY DEF RotationsMove, KeyMoves
<1>2. CodesMove
  BY DEF CodesMove, CInv, Ordered
<1>3. ResultsMove
  BY DEF ResultsMove, Holding
<1> QED
  BY <1>1, <1>2, <1>3 DEF Moves

LEMMA UpdateResults ==
  ASSUME NEW new, NEW now, Update(new, now)
  PROVE  ResultsMove
<1> SUFFICES ASSUME NEW s \in Recoveries
             PROVE  /\ result[s] # "none" => result'[s] = result[s]
                    /\ Holding(s) # {} /\ (\A c \in Codes : code'[c].session # s)
                         => result'[s] # "none"
  BY DEF ResultsMove
<1>1. code' = new /\ result' = Recorded(new, now)
  BY DEF Update
<1>2. \A row : Outcome(s, row, now) # "none"
  BY DEF Outcome
<1>3. Holding(s) \subseteq Codes
  BY DEF Holding
<1> QED
  BY <1>1, <1>2, <1>3 DEF Recorded

LEMMA UpdateCodes ==
  ASSUME NEW ss, CInv, Update(Cleared(ss), due) \/ UNCHANGED code
  PROVE  CodesMove
BY DEF CodesMove, Update, Cleared, CInv, Ordered, TypeOK, Code

LEMMA InvalidatedCodes ==
  ASSUME CInv, NEW c \in Codes
  PROVE  LET new == Invalidated(Unused)[c]
         IN /\ code[c].state \in {"used", "invalidated"} => new = code[c]
            /\ new.state # "absent" => code[c].state # "absent"
            /\ new.session = None
BY DEF Invalidated, Unused, CInv, Ordered, TypeOK, Code

LEMMA SweptMove ==
  ASSUME TypeOK, NEW now, NEW s \in Rotations
  PROVE  \/ Swept(now)[s] = rot[s]
         \/ rot[s].status = "staged" /\ Swept(now)[s].status = "expired"
BY DEF Swept, Ended, TypeOK, Rotation

LEMMA SweptMoves ==
  ASSUME TypeOK, NEW now, UNCHANGED rot \/ rot' = Swept(now)
  PROVE  RotationsMove
<1>1. ASSUME NEW x \in Rotations
      PROVE  \/ rot'[x] = rot[x]
             \/ rot[x].status = "staged" /\ rot'[x].status \notin {"none", "staged"}
  BY SweptMove
<1> QED
  BY <1>1 DEF RotationsMove

LEMMA EndedMove ==
  ASSUME TypeOK, NEW s \in Rotations, NEW status
  PROVE  Ended(rot[s], status).status = status
BY DEF Ended, TypeOK, Rotation

LEMMA StepMoves ==
  ASSUME CeremonyAssumption, CInv, [Next]_vars
  PROVE  Moves
<1>0. TypeOK
  BY DEF CInv
<1>1. CASE UNCHANGED vars
  BY <1>1, RowsKept DEF vars, merchant
<1>2. ASSUME NEW s \in Rotations, StageRotation(s)
      PROVE  Moves
  <2>1. \A x \in Rotations \ {s} : rot'[x] = Swept(due)[x]
    BY <1>2, <1>0, SweptType DEF StageRotation
  <2>2. rot'[s] = [status |-> "staged", gen |-> generation, under |-> key]
    BY <1>2, <1>0, SweptType DEF StageRotation
  <2>3. RotationsMove
    BY <1>0, <1>2, <2>1, <2>2, SweptMove DEF RotationsMove, StageRotation, merchant
  <2>4. KeyMoves /\ CodesMove /\ ResultsMove
    BY <1>2, UpdateCodes DEF StageRotation, KeyMoves, ResultsMove, Holding
  <2> QED
    BY <2>3, <2>4 DEF Moves
<1>3. ASSUME NEW s \in Recoveries, StageRecovery(s)
      PROVE  Moves
  <2>1. PICK d \in Codes :
          /\ Eligible(d, s)
          /\ Update([Cleared(due) EXCEPT ![d].session = s], due)
    BY <1>3 DEF StageRecovery
  <2>2. ASSUME NEW c \in Codes
        PROVE  /\ c # d => code'[c] = Cleared(due)[c]
               /\ c = d => code'[c].state = "unused" /\ code'[c].session = s
    BY <1>0, <2>1, ClearedType DEF Update, Eligible, Cleared, Code, TypeOK
  <2>3. CodesMove
    BY <1>0, <1>3, <2>1, <2>2
       DEF CodesMove, Eligible, Cleared, CInv, Ordered, Code, TypeOK,
           StageRecovery, merchant
  <2>4. RotationsMove /\ KeyMoves
    BY <1>3 DEF StageRecovery, RotationsMove, KeyMoves
  <2> QED
    BY <2>1, <2>3, <2>4, UpdateResults DEF Moves
<1>4. ASSUME NEW s \in Ceremonies, Expire(s)
      PROVE  Moves
  BY <1>4, RowsKept DEF Expire
<1>5. CASE NewDay
  BY <1>5, RowsKept DEF NewDay
<1>6. ASSUME NEW r \in Requests, NEW s \in Ceremonies, NEW right \in BOOLEAN,
             Confirm(r, s, right) \/ Resume(r, s)
      PROVE  Moves
  <2>1. UNCHANGED rot \/ rot' = Swept(due)
    BY <1>6 DEF Confirm, Resume
  <2>2. RotationsMove
    BY <1>0, <2>1, SweptMoves
  <2> QED
    BY <1>6, <2>2, UpdateCodes
       DEF Confirm, Resume, Moves, KeyMoves, ResultsMove, Holding
<1>7. ASSUME NEW r \in Requests,
             \/ Lock(r) \/ GenerateStarts(r) \/ GenerateRejected(r)
             \/ LookRotation(r) \/ ReportRecovery(r) \/ Abandon(r)
      PROVE  Moves
  BY <1>7, RowsKept DEF Lock, GenerateStarts, GenerateRejected, LookRotation,
                        ReportRecovery, Abandon
<1>8. ASSUME NEW r \in Requests, Rotate(r)
      PROVE  Moves
  <2> DEFINE s == req[r].on
  <2>1. s \in Rotations /\ Available(s) /\ Activate(s)
    BY <1>8 DEF Rotate
  <2>2. ASSUME NEW x \in Rotations
        PROVE  IF rot[x].status # "staged" THEN rot'[x] = rot[x]
               ELSE rot'[x].status \notin {"none", "staged"}
    BY <1>0, <1>8, EndedMove DEF Rotate
  <2>3. RotationsMove
    BY <2>2 DEF RotationsMove
  <2>4. Update(Invalidated(Unused), req[r].now)
    BY <1>8 DEF Rotate
  <2>5. CodesMove
    BY <2>4, InvalidatedCodes DEF CodesMove, Update
  <2>6. KeyMoves
    <3>1. rot[s].status = "staged"
      BY <2>1 DEF Available, Open
    <3> QED
      BY <2>1, <2>2, <3>1 DEF KeyMoves, Over, Ceremonies
  <2> QED
    BY <2>3, <2>4, <2>5, <2>6, UpdateResults DEF Moves
<1>9. ASSUME NEW r \in Requests, Recover(r)
      PROVE  Moves
  <2>0. PICK s \in Recoveries : s = req[r].on
    BY <1>9 DEF Recover
  <2>1. s \in Recoveries /\ Available(s) /\ Activate(s)
    BY <1>9, <2>0 DEF Recover
  <2>2. Update([c \in Codes |->
                 IF c \in Holding(s) THEN [state |-> "used", session |-> None]
                                     ELSE Invalidated(Unused)[c]], req[r].now)
    BY <1>9, <2>0 DEF Recover
  <2>3. s # None /\ s \notin Rotations
    BY <2>1 DEF CeremonyAssumption
  <2>4. \A c \in Holding(s) : code[c].state = "unused"
    BY <2>3 DEF Holding, CInv, Ordered
  <2>5. \A c \in Codes :
          code'[c] = IF c \in Holding(s) THEN [state |-> "used", session |-> None]
                                         ELSE Invalidated(Unused)[c]
    BY <2>2 DEF Update
  <2>6. CodesMove
    BY <2>4, <2>5, InvalidatedCodes DEF CodesMove
  <2>7. ResultsMove
    BY <2>2, UpdateResults
  <2>8. RotationsMove
    BY <1>0, <1>9, EndedMove DEF Recover, RotationsMove
  <2>9. Over(s)'
    <3>1. Holding(s) # {}
      BY <2>1, <2>3 DEF Available, Open
    <3>2. \A c \in Codes : code'[c].session = None
      BY <2>5, InvalidatedCodes
    <3>3. result'[s] # "none"
      BY <2>1, <2>3, <2>7, <3>1, <3>2 DEF ResultsMove
    <3>4. {c \in Codes : code'[c].session = s} = {}
      BY <2>3, <3>2
    <3> QED
      BY <2>1, <2>3, <3>3, <3>4 DEF Over, Holding
  <2>10. KeyMoves
    BY <2>1, <2>9 DEF KeyMoves, Ceremonies
  <2> QED
    BY <2>6, <2>7, <2>8, <2>10 DEF Moves
<1>10. ASSUME NEW r \in Requests, LimitReached(r) \/ Refuse(r)
       PROVE  Moves
  <2>0. \A x \in Rotations :
          \/ Swept(req[r].now)[x] = rot[x]
          \/ rot[x].status = "staged" /\ Swept(req[r].now)[x].status = "expired"
    BY <1>0, SweptMove
  <2>1. ASSUME LimitReached(r)
        PROVE  RotationsMove
    <3>1. PICK s \in Rotations : s = req[r].on
      BY <2>1 DEF LimitReached
    <3>2. /\ rot[s].status = "staged"
          /\ rot' = [Swept(req[r].now) EXCEPT ![s] = Ended(rot[s], "canceled")]
      BY <2>1, <3>1 DEF LimitReached, Available, Open
    <3>3. ASSUME NEW x \in Rotations
          PROVE  IF x = s THEN rot'[x].status = "canceled"
                          ELSE rot'[x] = Swept(req[r].now)[x]
      BY <1>0, <3>1, <3>2, EndedMove, SweptType
    <3>4. ASSUME NEW x \in Rotations
          PROVE  \/ rot'[x] = rot[x]
                 \/ rot[x].status = "staged" /\ rot'[x].status \notin {"none", "staged"}
      <4>1. CASE x = s
        BY <3>2, <3>3, <4>1
      <4>2. CASE x # s
        BY <2>0, <3>3, <4>2
      <4> QED
        BY <4>1, <4>2
    <3> QED
      BY <3>4 DEF RotationsMove
  <2>2. ASSUME Refuse(r)
        PROVE  RotationsMove
    BY <1>0, <2>2, SweptMoves DEF Refuse
  <2>3. KeyMoves /\ CodesMove /\ ResultsMove
    BY <1>10, UpdateCodes DEF LimitReached, Refuse, KeyMoves, ResultsMove, Holding
  <2> QED
    BY <1>10, <2>1, <2>2, <2>3 DEF Moves
<1>11. ASSUME NEW r \in Requests, Generate(r)
       PROVE  Moves
  <2>1. /\ \A x \in Rotations : x \in Rechecked(r) => rot[x].status = "staged"
        /\ \A c \in Codes : c \in Rechecked(r) => code[c].state = "unused"
    <3>1. Ceremonies \cap Codes = {}
      BY DEF Ceremonies, Codes, CeremonyAssumption
    <3>2. ASSUME NEW x \in Rechecked(r) PROVE x \in Unused \/ x \in OpenCeremonies
      BY DEF Rechecked
    <3>3. Unused \subseteq Codes /\ OpenCeremonies \subseteq Ceremonies
      BY DEF Unused, OpenCeremonies
    <3>4. ASSUME NEW x \in Rotations, x \in Rechecked(r)
          PROVE  rot[x].status = "staged"
      BY <3>1, <3>2, <3>3, <3>4 DEF OpenCeremonies, Open, Ceremonies
    <3>5. ASSUME NEW c \in Codes, c \in Rechecked(r)
          PROVE  code[c].state = "unused"
      BY <3>1, <3>2, <3>3, <3>5 DEF Unused
    <3> QED
      BY <3>4, <3>5
  <2>2. RotationsMove
    <3>1. ASSUME NEW x \in Rotations
          PROVE  rot'[x] = IF x \in Rechecked(r) THEN Ended(rot[x], "invalidated")
                                                 ELSE rot[x]
      BY <1>11 DEF Generate
    <3>2. ASSUME NEW x \in Rotations
          PROVE  \/ rot'[x] = rot[x]
                 \/ rot[x].status = "staged" /\ rot'[x].status \notin {"none", "staged"}
      BY <1>0, <2>1, <3>1, EndedMove
    <3> QED
      BY <3>2 DEF RotationsMove
  <2>3. Update([c \in Codes |-> IF c[1] = generation + 1
                                THEN [state |-> "unused", session |-> None]
                                ELSE Invalidated(Rechecked(r))[c]], req[r].now)
    BY <1>11 DEF Generate
  <2>4. \A c \in Codes :
          code'[c] = IF c[1] = generation + 1
                     THEN [state |-> "unused", session |-> None]
                     ELSE IF c \in Rechecked(r)
                     THEN [state |-> "invalidated", session |-> None]
                     ELSE code[c]
    BY <2>3 DEF Update, Invalidated
  <2>5. generation' = generation + 1
    BY <1>11 DEF Generate
  <2>6. \A c \in Codes : code[c].state # "absent" => c[1] # generation + 1
    BY DEF CInv, Ordered, TypeOK, Codes
  <2>7. CodesMove
    BY <1>0, <2>1, <2>4, <2>5, <2>6 DEF CodesMove, CInv, Ordered, TypeOK
  <2>8. KeyMoves
    BY <1>11 DEF Generate, KeyMoves
  <2> QED
    BY <2>2, <2>3, <2>7, <2>8, UpdateResults DEF Moves
<1>12. ASSUME NEW r \in Requests, NEW s \in Ceremonies, Cancel(r, s)
       PROVE  Moves
  <2>1. CASE s \in Rotations
    <3>1. rot' = [rot EXCEPT ![s] = Ended(rot[s], "canceled")]
          /\ rot[s].status = "staged" /\ UNCHANGED <<code, result>>
      BY <1>12, <2>1 DEF Cancel, Open
    <3>2. RotationsMove
      BY <1>0, <2>1, <3>1, EndedMove DEF RotationsMove, TypeOK
    <3> QED
      BY <1>12, <3>1, <3>2, UpdateCodes
         DEF Cancel, Moves, KeyMoves, ResultsMove, Holding
  <2>2. CASE s \notin Rotations
    BY <1>12, <2>2, UpdateCodes, UpdateResults
       DEF Cancel, Moves, RotationsMove, KeyMoves
  <2> QED
    BY <2>1, <2>2
<1>13. ASSUME NEW r \in Requests, ReportRotation(r)
       PROVE  Moves
  <2>1. RotationsMove
    BY <1>0, <1>13, EndedMove DEF ReportRotation, RotationsMove, TypeOK
  <2> QED
    BY <1>13, <2>1, UpdateCodes DEF ReportRotation, Moves, KeyMoves, ResultsMove, Holding
<1>14. ASSUME NEW r \in Requests, LookRecovery(r)
       PROVE  Moves
  BY <1>14, UpdateCodes, UpdateResults
     DEF LookRecovery, Moves, RotationsMove, KeyMoves
<1>15. CASE StageRejected
  <2>1. CASE rot' = Swept(due) /\ UNCHANGED <<code, result>>
    BY <1>0, <1>15, <2>1, SweptMoves, UpdateCodes
       DEF StageRejected, Moves, KeyMoves, ResultsMove, Holding
  <2>2. ASSUME NEW s, Update(Cleared(due \ {s}), due), UNCHANGED rot
        PROVE  Moves
    BY <1>15, <2>2, UpdateCodes, UpdateResults
       DEF StageRejected, Moves, RotationsMove, KeyMoves
  <2> QED
    BY <1>15, <2>1, <2>2 DEF StageRejected
<1> QED
  BY <1>1, <1>2, <1>3, <1>4, <1>5, <1>6, <1>7, <1>8, <1>9, <1>10, <1>11, <1>12,
     <1>13, <1>14, <1>15 DEF Next

LEMMA CInvInvariant == Spec => []CInv
<1>1. Init => CInv
  <2>1. ASSUME Init
        PROVE  TypeOK
    BY <2>1, CeremonyAssumption, IdleReqType
       DEF Init, TypeOK, Keys, Codes, Rotation, Code, CeremonyAssumption
  <2> QED
    BY <2>1 DEF Init, CInv, Ordered, Activated, Codes
<1>2. CInv /\ [Next]_vars => CInv'
  <2> SUFFICES ASSUME CInv, [Next]_vars
               PROVE  CInv'
    OBVIOUS
  <2>1. TypeOK'
    BY TypeStep, CeremonyAssumption DEF CInv
  <2> QED
    BY <2>1, StepMoves, MovesKeep, CeremonyAssumption
<1> QED
  BY <1>1, <1>2, PTL DEF Spec

(* A ceremony that was open when the key changed, or when new codes were   *)
(* issued, never brings its replacement key to power.                      *)
THEOREM OvertakenDead == Spec => []OvertakenStaysDead
<1>1. CInv => OvertakenStaysDead
  BY DEF CInv, OvertakenStaysDead
<1> QED
  BY <1>1, CInvInvariant, PTL

(* Spent and replaced codes, the outcome of a ceremony and a replaced key  *)
(* do not come back.                                                       *)
THEOREM KeyHistoryKept == Spec => HistoryKept
<1> DEFINE Kept ==
      /\ \A c \in Codes : code[c].state \in {"used", "invalidated"}
                            => code'[c] = code[c]
      /\ \A s \in Rotations : rot[s].status \notin {"none", "staged"}
                                => rot'[s] = rot[s]
      /\ \A s \in Recoveries : result[s] # "none" => result'[s] = result[s]
      /\ key' \notin past
<1>1. CInv /\ CInv' /\ [Next]_vars => [Kept]_vars
  <2> SUFFICES ASSUME CInv, CInv', [Next]_vars
               PROVE  Kept
    OBVIOUS
  <2>1. Moves
    BY StepMoves, CeremonyAssumption
  <2>2. key' \notin past
    <3>1. past \subseteq past'
      BY <2>1 DEF Moves, KeyMoves, merchant, Activate
    <3> QED
      BY <3>1 DEF CInv
  <2> QED
    BY <2>1, <2>2 DEF Moves, CodesMove, RotationsMove, ResultsMove
<1> QED
  BY <1>1, CInvInvariant, PTL DEF Spec, HistoryKept

---------------------------------------------------------------------------
(* What a page said of a ceremony stays true.                              *)

\* A ceremony that can no longer replace the key.
Dead(s) == s \notin Activated /\ (Over(s) \/ Stale(s))

Right(s, status) ==
  /\ status \in {"canceled", "invalidated"} => Dead(s)
  /\ status \in {"rotated", "recovered"} => s \in Activated

\* The outcome a row keeps is what the key says.
Decided ==
  /\ \A s \in Rotations : rot[s].status = "confirmed" <=> s \in Activated
  /\ \A s \in Recoveries : result[s] = "recovered" <=> s \in Activated

\* A rotation of the current generation was staged under the current key.
Staged ==
  \A s \in Rotations :
    rot[s].status = "staged" /\ rot[s].gen = generation => rot[s].under = key

\* A session is served by one code, and has no result while it is.
Serving ==
  \A c \in Codes : code[c].session # None =>
    /\ \A d \in Codes : code[d].session = code[c].session => c = d
    /\ result[code[c].session] = "none"

Reporting ==
  \A r \in Requests :
    req[r].pc = "report" /\ req[r].on \in Rotations => Right(req[r].on, req[r].says)

Told == \A x \in told : Right(x[1], x[2])

AInv == CInv /\ Decided /\ Staged /\ Serving /\ Reporting /\ Told

---------------------------------------------------------------------------
(* What stays, whatever move is made.                                      *)

LEMMA ActivatedGrows ==
  ASSUME CeremonyAssumption, Moves
  PROVE  Activated \subseteq Activated'
BY DEF Moves, KeyMoves, merchant, Activate, Activated

\* Only a ceremony that was available is activated.
LEMMA NewlyActivated ==
  ASSUME CeremonyAssumption, Moves, NEW s \in Activated', s \notin Activated
  PROVE  Available(s) /\ key' = s
BY DEF Moves, KeyMoves, merchant, Activate, Activated

LEMMA RightStays ==
  ASSUME CeremonyAssumption, CInv, TypeOK', Moves,
         NEW s \in Ceremonies, NEW status, Right(s, status)
  PROVE  Right(s, status)'
<1>1. ASSUME Dead(s) PROVE Dead(s)'
  <2>1. ~Available(s)
    BY <1>1, EndedUnavailable DEF Dead
  <2>2. s \notin Activated'
    BY <1>1, <2>1, NewlyActivated DEF Dead
  <2> QED
    BY <1>1, <2>2, OverStays, StaleStays DEF Dead
<1> QED
  BY <1>1, ActivatedGrows DEF Right

LEMMA StagedStays ==
  ASSUME CeremonyAssumption, CInv, Moves, Staged
  PROVE  Staged'
<1> SUFFICES ASSUME NEW s \in Rotations,
                    rot'[s].status = "staged", rot'[s].gen = generation'
             PROVE  rot'[s].under = key'
  BY DEF Staged
<1>1. CASE rot'[s] = rot[s]
  <2>1. rot[s].gen <= generation /\ generation \in Nat /\ rot[s].gen \in Nat
    BY <1>1 DEF CInv, Ordered, TypeOK, Rotation
  <2>2. generation' = generation /\ key' = key
    BY <1>1, <2>1 DEF Moves, KeyMoves, merchant, Activate
  <2> QED
    BY <1>1, <2>2 DEF Staged
<1>2. CASE rot'[s] # rot[s]
  BY <1>2 DEF Moves, RotationsMove
<1> QED
  BY <1>1, <1>2

---------------------------------------------------------------------------
(* The sessions of the codes.                                              *)

\* A step gives a code to one session at most, and a result only to a session
\* that loses its code.
SessionsMove ==
  /\ \A c, d \in Codes :
       code'[c].session # None /\ code'[c].session = code'[d].session =>
         c = d \/ (code[c].session = code'[c].session /\ code[d].session = code'[d].session)
  /\ \A s \in Recoveries :
       result'[s] # result[s] => \E c \in Holding(s) : code'[c].session # s

LEMMA ServingStays ==
  ASSUME CeremonyAssumption, CInv, TypeOK', Moves, SessionsMove, Serving
  PROVE  Serving'
<1> SUFFICES ASSUME NEW c \in Codes, code'[c].session # None
             PROVE  /\ \A d \in Codes : code'[d].session = code'[c].session => c = d
                    /\ result'[code'[c].session] = "none"
  BY DEF Serving
<1> DEFINE s == code'[c].session
<1>0. s \in Recoveries
  BY DEF TypeOK, Code
<1>1. \A d \in Codes : code'[d].session = s => c = d
  BY DEF SessionsMove, Serving
<1>2. CASE code[c].session = s
  <2>1. result[s] = "none" /\ \A d \in Holding(s) : d = c
    BY <1>2 DEF Serving, Holding
  <2> QED
    BY <1>0, <1>1, <2>1 DEF SessionsMove
<1>3. CASE code[c].session # s
  <2>1. Holding(s) = {} /\ result[s] = "none"
    BY <1>3 DEF Moves, CodesMove
  <2> QED
    BY <1>0, <1>1, <2>1 DEF SessionsMove
<1> QED
  BY <1>1, <1>2, <1>3

LEMMA SessionsKept ==
  ASSUME UNCHANGED <<code, result>>
  PROVE  SessionsMove
BY DEF SessionsMove

LEMMA SessionsEnd ==
  ASSUME NEW new, NEW now, Update(new, now),
         \A c \in Codes : new[c].session \in {None, code[c].session}
  PROVE  SessionsMove
<1>1. code' = new /\ result' = Recorded(new, now)
  BY DEF Update
<1>2. \A s \in Recoveries :
        result'[s] # result[s] => \E c \in Holding(s) : code'[c].session # s
  BY <1>1 DEF Recorded
<1> QED
  BY <1>1, <1>2 DEF SessionsMove

LEMMA SessionsCleared ==
  ASSUME CInv, NEW ss, NEW now, Update(Cleared(ss), now)
  PROVE  SessionsMove
<1>1. \A c \in Codes : Cleared(ss)[c].session \in {None, code[c].session}
  BY DEF Cleared, CInv, TypeOK, Code
<1> QED
  BY <1>1, SessionsEnd

LEMMA StepSessions ==
  ASSUME CeremonyAssumption, CInv, [Next]_vars
  PROVE  SessionsMove
<1>0. TypeOK
  BY DEF CInv
<1>1. CASE UNCHANGED vars
  BY <1>1, SessionsKept DEF vars
<1>2. ASSUME NEW s \in Rotations, StageRotation(s)
      PROVE  SessionsMove
  BY <1>2, SessionsKept DEF StageRotation
<1>3. ASSUME NEW s \in Recoveries, StageRecovery(s)
      PROVE  SessionsMove
  <2>1. PICK d \in Codes :
          /\ Eligible(d, s)
          /\ Update([Cleared(due) EXCEPT ![d].session = s], due)
    BY <1>3 DEF StageRecovery
  <2>2. code' = [Cleared(due) EXCEPT ![d].session = s]
        /\ result' = Recorded(code', due)
    BY <2>1 DEF Update
  <2>3. \A c \in Codes :
          IF c = d THEN code'[c].session = s
                   ELSE code'[c].session \in {None, code[c].session}
    BY <1>0, <2>2, ClearedType DEF Cleared, Code, TypeOK
  <2>4. \A c \in Codes : code[c].session # s
    BY <2>1 DEF Eligible, Holding
  <2>5. \A x \in Recoveries :
          result'[x] # result[x] => \E c \in Holding(x) : code'[c].session # x
    BY <2>2 DEF Recorded
  <2> QED
    BY <2>3, <2>4, <2>5 DEF SessionsMove
<1>4. CASE StageRejected
  <2>1. ASSUME NEW s, Update(Cleared(due \ {s}), due)
        PROVE  SessionsMove
    BY <2>1, SessionsCleared
  <2> QED
    BY <1>4, <2>1, SessionsKept DEF StageRejected
<1>5. ASSUME NEW s \in Ceremonies, Expire(s)
      PROVE  SessionsMove
  BY <1>5, SessionsKept DEF Expire
<1>6. CASE NewDay
  BY <1>6, SessionsKept DEF NewDay
<1>7. ASSUME NEW r \in Requests, NEW s \in Ceremonies, NEW right \in BOOLEAN,
             Confirm(r, s, right) \/ Resume(r, s)
      PROVE  SessionsMove
  BY <1>7, SessionsKept DEF Confirm, Resume
<1>8. ASSUME NEW r \in Requests,
             \/ Lock(r) \/ GenerateStarts(r) \/ GenerateRejected(r)
             \/ LookRotation(r) \/ ReportRecovery(r) \/ Abandon(r)
             \/ LimitReached(r) \/ Refuse(r) \/ ReportRotation(r)
      PROVE  SessionsMove
  BY <1>8, SessionsKept DEF Lock, GenerateStarts, GenerateRejected, LookRotation,
       ReportRecovery, Abandon, LimitReached, Refuse, ReportRotation
<1>9. ASSUME NEW r \in Requests, Rotate(r)
      PROVE  SessionsMove
  <2>1. Update(Invalidated(Unused), req[r].now)
    BY <1>9 DEF Rotate
  <2> QED
    BY <2>1, InvalidatedCodes, SessionsEnd
<1>10. ASSUME NEW r \in Requests, Recover(r)
       PROVE  SessionsMove
  <2> DEFINE s == req[r].on
             spent == [c \in Codes |->
                 IF c \in Holding(s) THEN [state |-> "used", session |-> None]
                                     ELSE Invalidated(Unused)[c]]
  <2>1. Update(spent, req[r].now)
    BY <1>10 DEF Recover
  <2>2. \A c \in Codes : spent[c].session \in {None, code[c].session}
    BY InvalidatedCodes
  <2> QED
    BY <2>1, <2>2, SessionsEnd
<1>11. ASSUME NEW r \in Requests, Generate(r)
       PROVE  SessionsMove
  <2> DEFINE new == [c \in Codes |->
               IF c[1] = generation + 1
               THEN [state |-> "unused", session |-> None]
               ELSE Invalidated(Rechecked(r))[c]]
  <2>1. Update(new, req[r].now)
    BY <1>11 DEF Generate
  <2>2. \A c \in Codes : new[c].session \in {None, code[c].session}
    BY DEF Invalidated
  <2> QED
    BY <2>1, <2>2, SessionsEnd
<1>12. ASSUME NEW r \in Requests, NEW s \in Ceremonies, Cancel(r, s)
       PROVE  SessionsMove
  BY <1>12, SessionsCleared, SessionsKept DEF Cancel
<1>13. ASSUME NEW r \in Requests, LookRecovery(r)
       PROVE  SessionsMove
  BY <1>13, SessionsCleared DEF LookRecovery
<1> QED
  BY <1>1, <1>2, <1>3, <1>4, <1>5, <1>6, <1>7, <1>8, <1>9, <1>10, <1>11, <1>12,
     <1>13 DEF Next

---------------------------------------------------------------------------
(* The outcome a row keeps.                                                *)

DecidedMove ==
  /\ \A s \in Rotations : rot'[s].status = "confirmed" =>
       rot[s].status = "confirmed" \/ key' = s
  /\ \A s \in Recoveries : result'[s] = "recovered" =>
       result[s] = "recovered" \/ key' = s
  /\ \A s \in Ceremonies : key' = s /\ key # s =>
       /\ s \in Rotations => rot'[s].status = "confirmed"
       /\ s \in Recoveries => result'[s] = "recovered"

LEMMA DecidedStays ==
  ASSUME CeremonyAssumption, CInv, Moves, Decided, DecidedMove
  PROVE  Decided'
<1>1. ASSUME NEW s \in Ceremonies, key' = s PROVE s \in Activated'
  BY <1>1 DEF Activated, Ceremonies, CeremonyAssumption
<1>2. ASSUME NEW s \in Activated', s \notin Activated
      PROVE  s \in Ceremonies /\ key' = s /\ key # s
  <2>1. s \in Ceremonies
    BY <1>2 DEF Activated, Moves, KeyMoves, merchant, Activate, CInv, TypeOK, Keys
  <2>2. key' = s
    BY <1>2, NewlyActivated
  <2>3. key # s
    BY <1>2 DEF Activated
  <2> QED
    BY <2>1, <2>2, <2>3
<1>3. ASSUME NEW s \in Rotations
      PROVE  rot'[s].status = "confirmed" <=> s \in Activated'
  <2>1. s \in Ceremonies
    BY DEF Ceremonies
  <2>2. rot[s].status = "confirmed" => rot'[s].status = "confirmed"
    BY DEF Moves, RotationsMove
  <2> QED
    BY <1>1, <1>2, <2>1, <2>2, ActivatedGrows DEF Decided, DecidedMove
<1>4. ASSUME NEW s \in Recoveries
      PROVE  result'[s] = "recovered" <=> s \in Activated'
  <2>1. s \in Ceremonies
    BY DEF Ceremonies
  <2>2. result[s] = "recovered" => result'[s] = "recovered"
    BY DEF Moves, ResultsMove
  <2> QED
    BY <1>1, <1>2, <2>1, <2>2, ActivatedGrows DEF Decided, DecidedMove
<1> QED
  BY <1>3, <1>4 DEF Decided

\* A statement that uses up no code that serves a session recovers nothing.
LEMMA NothingRecovered ==
  ASSUME CeremonyAssumption, NEW new, NEW now, Update(new, now),
         \A c \in Codes : code[c].session # None => new[c].state # "used"
  PROVE  \A s \in Recoveries : result'[s] = "recovered" => result[s] = "recovered"
<1> SUFFICES ASSUME NEW s \in Recoveries, result'[s] = "recovered",
                    result[s] # "recovered"
             PROVE  FALSE
  OBVIOUS
<1>1. result' = Recorded(new, now) /\ s # None
  BY DEF Update, CeremonyAssumption
<1>2. /\ \E c \in Holding(s) : new[c].session # s
      /\ result'[s] = Outcome(s, new[CHOOSE c \in Holding(s) : TRUE], now)
  BY <1>1 DEF Recorded
<1>3. PICK d \in Holding(s) : d = CHOOSE c \in Holding(s) : TRUE
  BY <1>2
<1>4. new[d].state # "used"
  BY <1>1, <1>3 DEF Holding
<1> QED
  BY <1>2, <1>3, <1>4 DEF Outcome

\* Nor does one that only clears sessions.
LEMMA ClearedRecoversNothing ==
  ASSUME CeremonyAssumption, CInv, NEW ss, Update(Cleared(ss), due)
  PROVE  \A s \in Recoveries : result'[s] = "recovered" => result[s] = "recovered"
<1>1. \A c \in Codes : code[c].session # None => Cleared(ss)[c].state # "used"
  BY DEF Cleared, CInv, Ordered, TypeOK, Code
<1> QED
  BY <1>1, NothingRecovered

LEMMA SweptConfirmsNothing ==
  ASSUME TypeOK, NEW now, UNCHANGED rot \/ rot' = Swept(now)
  PROVE  \A s \in Rotations : rot'[s].status = "confirmed" => rot[s].status = "confirmed"
BY SweptMove

LEMMA NothingDecided ==
  ASSUME UNCHANGED key,
         \A s \in Rotations : rot'[s].status = "confirmed" => rot[s].status = "confirmed",
         \A s \in Recoveries : result'[s] = "recovered" => result[s] = "recovered"
  PROVE  DecidedMove
BY DEF DecidedMove

LEMMA StepDecides ==
  ASSUME CeremonyAssumption, CInv, Serving, [Next]_vars
  PROVE  DecidedMove
<1>0. TypeOK
  BY DEF CInv
<1>1. ASSUME UNCHANGED <<merchant, rot, result>>
      PROVE  DecidedMove
  BY <1>1, NothingDecided DEF merchant
<1>2. CASE UNCHANGED vars
  BY <1>1, <1>2 DEF vars, merchant
<1>3. ASSUME NEW s \in Rotations, StageRotation(s)
      PROVE  DecidedMove
  <2>1. \A x \in Rotations \ {s} : rot'[x] = Swept(due)[x]
    BY <1>0, <1>3, SweptType DEF StageRotation
  <2>2. rot'[s] = [status |-> "staged", gen |-> generation, under |-> key]
    BY <1>0, <1>3, SweptType DEF StageRotation
  <2>3. \A x \in Rotations : rot'[x].status = "confirmed" => rot[x].status = "confirmed"
    BY <1>0, <2>1, <2>2, SweptMove
  <2> QED
    BY <1>3, <2>3, NothingDecided DEF StageRotation, merchant
<1>4. ASSUME NEW s \in Recoveries, StageRecovery(s)
      PROVE  DecidedMove
  <2>1. PICK d \in Codes :
          /\ Eligible(d, s)
          /\ Update([Cleared(due) EXCEPT ![d].session = s], due)
    BY <1>4 DEF StageRecovery
  <2>2. \A c \in Codes : code[c].session # None =>
          [Cleared(due) EXCEPT ![d].session = s][c].state # "used"
    BY <1>0, <2>1, ClearedType DEF Cleared, CInv, Ordered, TypeOK, Code
  <2> QED
    BY <1>4, <2>1, <2>2, NothingRecovered, NothingDecided DEF StageRecovery, merchant
<1>5. CASE StageRejected
  <2>1. CASE rot' = Swept(due) /\ UNCHANGED <<code, result>>
    BY <1>0, <1>5, <2>1, SweptConfirmsNothing, NothingDecided DEF StageRejected, merchant
  <2>2. ASSUME NEW s, Update(Cleared(due \ {s}), due), UNCHANGED rot
        PROVE  DecidedMove
    BY <1>5, <2>2, ClearedRecoversNothing, NothingDecided DEF StageRejected, merchant
  <2> QED
    BY <1>5, <2>1, <2>2 DEF StageRejected
<1>6. ASSUME NEW s \in Ceremonies, Expire(s)
      PROVE  DecidedMove
  BY <1>1, <1>6 DEF Expire
<1>7. CASE NewDay
  BY <1>1, <1>7 DEF NewDay
<1>8. ASSUME NEW r \in Requests, NEW s \in Ceremonies, NEW right \in BOOLEAN,
             Confirm(r, s, right) \/ Resume(r, s)
      PROVE  DecidedMove
  <2>1. UNCHANGED rot \/ rot' = Swept(due)
    BY <1>8 DEF Confirm, Resume
  <2> QED
    BY <1>0, <1>8, <2>1, SweptConfirmsNothing, NothingDecided
       DEF Confirm, Resume, merchant
<1>9. ASSUME NEW r \in Requests,
             \/ Lock(r) \/ GenerateStarts(r) \/ GenerateRejected(r)
             \/ LookRotation(r) \/ ReportRecovery(r) \/ Abandon(r)
      PROVE  DecidedMove
  BY <1>1, <1>9 DEF Lock, GenerateStarts, GenerateRejected, LookRotation,
                    ReportRecovery, Abandon
<1>10. ASSUME NEW r \in Requests, Rotate(r)
       PROVE  DecidedMove
  <2>0. PICK s \in Rotations : s = req[r].on
    BY <1>10 DEF Rotate
  <2>1. Available(s) /\ Activate(s) /\ Update(Invalidated(Unused), req[r].now)
    BY <1>10, <2>0 DEF Rotate
  <2>2. ASSUME NEW x \in Rotations
        PROVE  /\ rot'[x].status = "confirmed" => rot[x].status = "confirmed" \/ x = s
               /\ x = s => rot'[x].status = "confirmed"
    BY <1>0, <1>10, <2>0, <2>1, EndedMove DEF Rotate, Available, Open
  <2>3. \A c \in Codes : code[c].session # None => Invalidated(Unused)[c].state # "used"
    BY DEF Invalidated, Unused, CInv, Ordered
  <2>4. \A x \in Recoveries : result'[x] = "recovered" => result[x] = "recovered"
    BY <2>1, <2>3, NothingRecovered
  <2>5. key' = s /\ s \notin Recoveries
    BY <2>1 DEF Activate, CeremonyAssumption
  <2> QED
    BY <2>2, <2>4, <2>5 DEF DecidedMove
<1>11. ASSUME NEW r \in Requests, Recover(r)
       PROVE  DecidedMove
  <2>0. PICK s \in Recoveries : s = req[r].on
    BY <1>11 DEF Recover
  <2> DEFINE spent == [c \in Codes |->
                 IF c \in Holding(s) THEN [state |-> "used", session |-> None]
                                     ELSE Invalidated(Unused)[c]]
  <2>1. Available(s) /\ Activate(s) /\ Update(spent, req[r].now)
    BY <1>11, <2>0 DEF Recover
  <2>2. s # None /\ s \notin Rotations
    BY DEF CeremonyAssumption
  <2>3. key' = s
    BY <2>1 DEF Activate
  <2>4. \A x \in Rotations : rot'[x].status = "confirmed" => rot[x].status = "confirmed"
    BY <1>0, <1>11, EndedMove DEF Recover
  <2>5. result' = Recorded(spent, req[r].now)
    BY <2>1 DEF Update
  <2>6. result'[s] = "recovered"
    <3>1. Holding(s) # {} /\ result[s] = "none"
      BY <2>1, <2>2 DEF Available, Open, Serving, Holding
    <3>2. PICK d \in Holding(s) : d = CHOOSE c \in Holding(s) : TRUE
      BY <3>1
    <3>3. spent[d] = [state |-> "used", session |-> None]
      BY <3>2 DEF Holding
    <3> HIDE DEF spent
    <3>4. \E c \in Holding(s) : spent[c].session # s
      BY <2>2, <3>2, <3>3
    <3>5. result'[s] = Outcome(s, spent[CHOOSE c \in Holding(s) : TRUE], req[r].now)
      BY <2>5, <3>1, <3>4 DEF Recorded
    <3> QED
      BY <3>2, <3>3, <3>5 DEF Outcome
  <2>7. ASSUME NEW x \in Recoveries, x # s, result'[x] = "recovered"
        PROVE  result[x] = "recovered"
    <3> SUFFICES ASSUME result[x] # "recovered" PROVE FALSE
      OBVIOUS
    <3>1. /\ \E c \in Holding(x) : spent[c].session # x
          /\ result'[x] = Outcome(x, spent[CHOOSE c \in Holding(x) : TRUE], req[r].now)
      BY <2>5, <2>7 DEF Recorded
    <3>2. PICK d \in Holding(x) : d = CHOOSE c \in Holding(x) : TRUE
      BY <3>1
    <3>3. spent[d].state # "used"
      BY <2>7, <3>2 DEF Holding, Invalidated, Unused, CInv, Ordered, CeremonyAssumption
    <3> QED
      BY <2>7, <3>1, <3>2, <3>3 DEF Outcome
  <2> QED
    BY <2>2, <2>3, <2>4, <2>6, <2>7 DEF DecidedMove
<1>12. ASSUME NEW r \in Requests, LimitReached(r) \/ Refuse(r)
       PROVE  DecidedMove
  <2>1. ASSUME LimitReached(r)
        PROVE  \A x \in Rotations :
                 rot'[x].status = "confirmed" => rot[x].status = "confirmed"
    <3>1. PICK s \in Rotations : s = req[r].on
      BY <2>1 DEF LimitReached
    <3>2. rot' = [Swept(req[r].now) EXCEPT ![s] = Ended(rot[s], "canceled")]
      BY <2>1, <3>1 DEF LimitReached
    <3> QED
      BY <1>0, <3>1, <3>2, EndedMove, SweptType, SweptMove
  <2>2. ASSUME Refuse(r)
        PROVE  \A x \in Rotations :
                 rot'[x].status = "confirmed" => rot[x].status = "confirmed"
    BY <1>0, <2>2, SweptConfirmsNothing DEF Refuse
  <2> QED
    BY <1>12, <2>1, <2>2, NothingDecided DEF LimitReached, Refuse, merchant
<1>13. ASSUME NEW r \in Requests, Generate(r)
       PROVE  DecidedMove
  <2> DEFINE new == [c \in Codes |->
               IF c[1] = generation + 1
               THEN [state |-> "unused", session |-> None]
               ELSE Invalidated(Rechecked(r))[c]]
  <2>1. Update(new, req[r].now)
    BY <1>13 DEF Generate
  <2>2. \A c \in Codes : code[c].session # None => new[c].state # "used"
    BY DEF Invalidated, CInv, Ordered
  <2>3. \A x \in Rotations : rot'[x].status = "confirmed" => rot[x].status = "confirmed"
    BY <1>0, <1>13, EndedMove DEF Generate
  <2> QED
    BY <1>13, <2>1, <2>2, <2>3, NothingRecovered, NothingDecided DEF Generate
<1>14. ASSUME NEW r \in Requests, NEW s \in Ceremonies, Cancel(r, s)
       PROVE  DecidedMove
  <2>1. CASE s \in Rotations
    <3>1. \A x \in Rotations : rot'[x].status = "confirmed" => rot[x].status = "confirmed"
      BY <1>0, <1>14, <2>1, EndedMove DEF Cancel, TypeOK
    <3> QED
      BY <1>14, <2>1, <3>1, NothingDecided DEF Cancel, merchant
  <2>2. CASE s \notin Rotations
    BY <1>14, <2>2, ClearedRecoversNothing, NothingDecided DEF Cancel, merchant
  <2> QED
    BY <2>1, <2>2
<1>15. ASSUME NEW r \in Requests, ReportRotation(r)
       PROVE  DecidedMove
  <2>1. \A x \in Rotations : rot'[x].status = "confirmed" => rot[x].status = "confirmed"
    BY <1>0, <1>15, EndedMove DEF ReportRotation, TypeOK
  <2> QED
    BY <1>15, <2>1, NothingDecided DEF ReportRotation, merchant
<1>16. ASSUME NEW r \in Requests, LookRecovery(r)
       PROVE  DecidedMove
  BY <1>16, ClearedRecoversNothing, NothingDecided DEF LookRecovery, merchant
<1> QED
  BY <1>2, <1>3, <1>4, <1>5, <1>6, <1>7, <1>8, <1>9, <1>10, <1>11, <1>12, <1>13,
     <1>14, <1>15, <1>16 DEF Next

---------------------------------------------------------------------------
(* The answers.                                                            *)

\* An open ceremony has not replaced the key.
LEMMA OpenNotActivated ==
  ASSUME CeremonyAssumption, CInv, NEW s \in Ceremonies, Open(s)
  PROVE  s \notin Activated
BY DEF CInv, Over, Open

LEMMA RotationReport ==
  ASSUME CeremonyAssumption, AInv, NEW s \in Rotations
  PROVE  Right(s, RotationStatus(s))
<1>0. s \in Ceremonies
  BY DEF Ceremonies
<1>1. CASE rot[s].status \in {"invalidated", "canceled", "expired"}
  <2>1. RotationStatus(s) = rot[s].status
    BY <1>1 DEF RotationStatus
  <2>2. Dead(s)
    BY <1>1 DEF Dead, Over, AInv, Decided
  <2> QED
    BY <1>1, <2>1, <2>2 DEF Right
<1>2. CASE rot[s].status = "confirmed"
  <2>1. RotationStatus(s) = "rotated"
    BY <1>2 DEF RotationStatus
  <2>2. s \in Activated
    BY <1>2 DEF AInv, Decided
  <2> QED
    BY <2>1, <2>2 DEF Right
<1>3. CASE rot[s].status = "staged"
  <2>1. RotationStatus(s) = IF s \in due THEN "expired"
                            ELSE IF ~Available(s) THEN "invalidated" ELSE "open"
    BY <1>3 DEF RotationStatus
  <2>2. ASSUME ~Available(s) PROVE Dead(s)
    <3>1. Open(s)
      BY <1>3 DEF Open
    <3>2. rot[s].gen # generation
      BY <1>3, <2>2, <3>1 DEF Available, AInv, Staged
    <3>3. rot[s].gen <= generation /\ rot[s].gen \in Nat /\ generation \in Nat
      BY <1>3 DEF AInv, CInv, Ordered, TypeOK, Rotation
    <3>4. Stale(s)
      BY <3>1, <3>2, <3>3 DEF Stale
    <3> QED
      BY <1>0, <3>1, <3>4, OpenNotActivated DEF Dead, AInv
  <2> QED
    BY <2>1, <2>2 DEF Right
<1>4. CASE rot[s].status = "none"
  <2>1. RotationStatus(s) = "open"
    BY <1>4 DEF RotationStatus
  <2> QED
    BY <2>1 DEF Right
<1> QED
  BY <1>1, <1>2, <1>3, <1>4 DEF AInv, CInv, TypeOK, Rotation

LEMMA RecoveryReport ==
  ASSUME CeremonyAssumption, AInv, NEW s \in Recoveries
  PROVE  Right(s, RecoveryStatus(s))
<1>0. s \in Ceremonies /\ s \notin Rotations /\ s # None
  BY DEF Ceremonies, CeremonyAssumption
<1>1. CASE Open(s) /\ ~Available(s)
  <2>1. RecoveryStatus(s) = "invalidated"
    BY <1>1 DEF RecoveryStatus
  <2>2. PICK d \in Holding(s) : d[1] # generation
    BY <1>0, <1>1 DEF Available
  <2>3. \A c \in Holding(s) : c = d
    BY <1>0, <2>2 DEF AInv, Serving, Holding
  <2>4. code[d].session # None /\ d \in Codes
    BY <1>0, <2>2 DEF Holding
  <2>5. d[1] < generation
    <3>1. d[1] \in Nat /\ generation \in Nat
      BY <2>4 DEF AInv, CInv, TypeOK, Codes
    <3>2. d[1] <= generation
      BY <2>4 DEF AInv, CInv, Ordered
    <3> QED
      BY <2>2, <3>1, <3>2
  <2>6. Stale(s)
    BY <1>0, <1>1, <2>3, <2>5 DEF Stale
  <2> QED
    BY <1>0, <1>1, <2>1, <2>6, OpenNotActivated DEF Right, Dead, AInv
<1>2. CASE Open(s) /\ Available(s)
  <2>1. RecoveryStatus(s) \in {"expired", "open"}
    BY <1>2 DEF RecoveryStatus
  <2> QED
    BY <2>1 DEF Right
<1>3. CASE ~Open(s) /\ result[s] # "none"
  <2>1. RecoveryStatus(s) = result[s]
    BY <1>3 DEF RecoveryStatus
  <2>2. Over(s)
    BY <1>0, <1>3 DEF Over, Open
  <2>3. result[s] = "recovered" <=> s \in Activated
    BY DEF AInv, Decided
  <2>4. result[s] # "rotated"
    BY DEF AInv, CInv, TypeOK, Outcomes
  <2> QED
    BY <2>1, <2>2, <2>3, <2>4 DEF Right, Dead
<1>4. CASE ~Open(s) /\ result[s] = "none"
  <2>1. RecoveryStatus(s) = "open"
    BY <1>4 DEF RecoveryStatus
  <2> QED
    BY <2>1 DEF Right
<1> QED
  BY <1>1, <1>2, <1>3, <1>4

\* What is right stays right while the tables stay as they are.
LEMMA RightKept ==
  ASSUME UNCHANGED <<merchant, rot, code, result>>, NEW s \in Ceremonies,
         NEW status, Right(s, status)
  PROVE  Right(s, status)'
BY DEF Right, Dead, Over, Stale, Open, Holding, Activated, merchant

\* A step gives only right answers, and its requests take only right statuses
\* of rotations with them.
AnswersMove ==
  /\ \A s \in Ceremonies, status \in Finals :
       <<s, status>> \in told' => <<s, status>> \in told \/ Right(s, status)'
  /\ \A r \in Requests, s \in Rotations, status \in Finals \cup {"open"} :
       req'[r].pc = "report" /\ req'[r].on = s /\ req'[r].says = status
         => req'[r] = req[r] \/ Right(s, status)'

LEMMA AnswersStay ==
  ASSUME CeremonyAssumption, AInv, TypeOK', Moves, AnswersMove
  PROVE  Reporting' /\ Told'
<1>0. CInv /\ Rotations \subseteq Ceremonies
  BY DEF AInv, Ceremonies
<1>1. ASSUME NEW x \in told' PROVE Right(x[1], x[2])'
  <2>1. PICK s \in Ceremonies, status \in Finals : x = <<s, status>>
    BY DEF TypeOK
  <2>2. CASE <<s, status>> \in told
    <3>1. Right(s, status)
      BY <2>2 DEF AInv, Told
    <3>2. Right(s, status)'
      BY <1>0, <3>1, RightStays
    <3> QED
      BY <2>1, <3>2
  <2>3. CASE <<s, status>> \notin told
    <3>1. Right(s, status)'
      BY <2>1, <2>3 DEF AnswersMove
    <3> QED
      BY <2>1, <3>1
  <2> QED
    BY <2>2, <2>3
<1>2. ASSUME NEW r \in Requests, req'[r].pc = "report", req'[r].on \in Rotations
      PROVE  Right(req[r].on, req[r].says)'
  <2>1. PICK s \in Rotations, status \in Finals \cup {"open"} :
          s = req'[r].on /\ status = req'[r].says
    BY <1>2 DEF TypeOK, Req
  <2>2. CASE req'[r] = req[r]
    <3>1. Right(s, status)
      BY <1>2, <2>1, <2>2 DEF AInv, Reporting
    <3>2. Right(s, status)'
      BY <1>0, <3>1, RightStays
    <3> QED
      BY <2>1, <3>2 DEF Right
  <2>3. CASE req'[r] # req[r]
    <3>1. Right(s, status)'
      BY <1>2, <2>1, <2>3 DEF AnswersMove
    <3> QED
      BY <2>1, <3>1 DEF Right
  <2> QED
    BY <2>2, <2>3
<1> QED
  BY <1>1, <1>2 DEF Told, Reporting

LEMMA Silent ==
  ASSUME UNCHANGED <<req, told>>
  PROVE  AnswersMove
BY DEF AnswersMove

\* Only this request moves, and it takes no status of a rotation with it.
Mute(r) ==
  /\ \A q \in Requests \ {r} : req'[q] = req[q]
  /\ req'[r].pc # "report" \/ req'[r].on \notin Rotations

LEMMA Quiet ==
  ASSUME NEW r \in Requests, Mute(r), UNCHANGED told
  PROVE  AnswersMove
BY DEF AnswersMove, Mute

LEMMA Answering ==
  ASSUME TypeOK, NEW r \in Requests, NEW s \in Ceremonies, NEW status \in Finals,
         Answer(r, s, status), Right(s, status)'
  PROVE  AnswersMove
<1>1. Mute(r)
  BY DEF Answer, Mute, TypeOK, IdleReq
<1> QED
  BY <1>1 DEF AnswersMove, Mute, Answer

LEMMA StepAnswers ==
  ASSUME CeremonyAssumption, AInv, TypeOK', Moves, [Next]_vars
  PROVE  AnswersMove
<1>0. /\ CInv /\ TypeOK
      /\ Rotations \subseteq Ceremonies /\ Recoveries \subseteq Ceremonies
  BY DEF AInv, CInv, Ceremonies
<1>1. CASE UNCHANGED vars
  BY <1>1, Silent DEF vars
<1>2. CASE \/ \E s \in Rotations : StageRotation(s)
           \/ \E s \in Recoveries : StageRecovery(s)
           \/ StageRejected
           \/ \E s \in Ceremonies : Expire(s)
           \/ NewDay
  BY <1>2, Silent DEF StageRotation, StageRecovery, StageRejected, Expire, NewDay
<1>3. ASSUME NEW r \in Requests, NEW s \in Ceremonies, NEW right \in BOOLEAN,
             Confirm(r, s, right) \/ Resume(r, s)
      PROVE  AnswersMove
  <2>1. \/ req' = [req EXCEPT ![r] = Confirming(s, right)]
        \/ req' = [req EXCEPT ![r] = IdleReq]
        \/ req' = [req EXCEPT ![r] = Looking(s)]
    BY <1>3 DEF Confirm, Resume, EndOrLook
  <2>2. ASSUME req' = [req EXCEPT ![r] = Confirming(s, right)]
        PROVE  Mute(r)
    BY <1>0, <2>2 DEF Mute, TypeOK, Confirming, IdleReq
  <2>3. ASSUME req' = [req EXCEPT ![r] = IdleReq]
        PROVE  Mute(r)
    BY <1>0, <2>3 DEF Mute, TypeOK, IdleReq
  <2>4. ASSUME req' = [req EXCEPT ![r] = Looking(s)]
        PROVE  Mute(r)
    BY <1>0, <2>4 DEF Mute, TypeOK, Looking, IdleReq
  <2>5. Mute(r)
    BY <2>1, <2>2, <2>3, <2>4
  <2> QED
    BY <1>3, <2>5, Quiet DEF Confirm, Resume
<1>4. ASSUME NEW r \in Requests,
             \/ Lock(r) \/ LimitReached(r) \/ Refuse(r) \/ GenerateStarts(r)
             \/ Generate(r) \/ GenerateRejected(r) \/ Abandon(r)
      PROVE  AnswersMove
  <2>1. \/ req' = [req EXCEPT ![r].pc = "apply"]
        \/ req' = [req EXCEPT ![r] = IdleReq]
        \/ req' = [req EXCEPT ![r] = Generating]
        \/ req' = [req EXCEPT ![r] = Looking(req[r].on)]
    BY <1>4 DEF Lock, LimitReached, Refuse, GenerateStarts, Generate,
                GenerateRejected, Abandon, EndOrLook
  <2>2. ASSUME req' = [req EXCEPT ![r].pc = "apply"]
        PROVE  Mute(r)
    BY <1>0, <2>2 DEF Mute, TypeOK, Req
  <2>3. ASSUME req' = [req EXCEPT ![r] = IdleReq]
        PROVE  Mute(r)
    BY <1>0, <2>3 DEF Mute, TypeOK, IdleReq
  <2>4. ASSUME req' = [req EXCEPT ![r] = Generating]
        PROVE  Mute(r)
    BY <1>0, <2>4 DEF Mute, TypeOK, Generating, IdleReq
  <2>5. ASSUME req' = [req EXCEPT ![r] = Looking(req[r].on)]
        PROVE  Mute(r)
    BY <1>0, <2>5 DEF Mute, TypeOK, Looking, IdleReq
  <2>6. Mute(r)
    BY <2>1, <2>2, <2>3, <2>4, <2>5
  <2> QED
    BY <1>4, <2>6, Quiet
       DEF Lock, LimitReached, Refuse, GenerateStarts, Generate, GenerateRejected,
           Abandon
<1>5. ASSUME NEW r \in Requests, NEW s \in Ceremonies, Cancel(r, s)
      PROVE  AnswersMove
  <2>1. CASE req' = [req EXCEPT ![r] = Looking(s)] /\ UNCHANGED told
    <3>1. Mute(r)
      BY <1>0, <2>1 DEF Mute, TypeOK, Looking, IdleReq
    <3> QED
      BY <2>1, <3>1, Quiet
  <2>2. CASE Answer(r, s, "canceled")
    <3>1. s \notin Activated'
      BY <1>0, <1>5, OpenNotActivated DEF Cancel, Activated, merchant
    <3>2. Over(s)'
      <4>1. CASE s \in Rotations
        BY <1>0, <1>5, <4>1, EndedMove DEF Cancel, Over, TypeOK
      <4>2. CASE s \notin Rotations
        <5>1. s \in Recoveries /\ s # None /\ Holding(s) # {}
          BY <1>5, <4>2 DEF Cancel, Open, Ceremonies, CeremonyAssumption
        <5>2. code' = Cleared({s})
          BY <1>5, <4>2 DEF Cancel, Update
        <5>3. \A c \in Codes : code'[c].session # s
          BY <1>0, <5>1, <5>2 DEF Cleared, TypeOK, Code
        <5>4. result'[s] # "none"
          BY <5>1, <5>3 DEF Moves, ResultsMove
        <5> QED
          BY <4>2, <5>3, <5>4 DEF Over, Holding
      <4> QED
        BY <4>1, <4>2
    <3>3. Right(s, "canceled")'
      BY <3>1, <3>2 DEF Right, Dead
    <3>4. "canceled" \in Finals
      BY DEF Finals, Outcomes
    <3> QED
      BY <1>0, <2>2, <3>3, <3>4, Answering
  <2> QED
    BY <1>5, <2>1, <2>2 DEF Cancel
<1>6. ASSUME NEW r \in Requests, Rotate(r) \/ Recover(r)
      PROVE  AnswersMove
  <2>1. PICK s \in Ceremonies, status \in {"rotated", "recovered"} :
          Activate(s) /\ Answer(r, s, status)
    BY <1>0, <1>6 DEF Rotate, Recover
  <2>2. s \in Activated'
    BY <2>1 DEF Activate, Activated, Ceremonies, CeremonyAssumption
  <2>3. Right(s, status)' /\ status \in Finals
    BY <2>2 DEF Right, Finals, Outcomes
  <2> QED
    BY <1>0, <2>1, <2>3, Answering
<1>7. ASSUME NEW r \in Requests, LookRotation(r)
      PROVE  AnswersMove
  <2>1. PICK s \in Rotations : s = req[r].on
    BY <1>7 DEF LookRotation
  <2>2. PICK status : status = RotationStatus(s)
    OBVIOUS
  <2>3. Right(s, status)'
    BY <1>0, <1>7, <2>2, RotationReport, RightKept DEF LookRotation
  <2>4. /\ \A q \in Requests \ {r} : req'[q] = req[q]
        /\ req'[r].on = s /\ req'[r].says = status
    BY <1>0, <1>7, <2>1, <2>2 DEF LookRotation, TypeOK, Req
  <2> QED
    BY <1>7, <2>3, <2>4 DEF AnswersMove, LookRotation
<1>8. ASSUME NEW r \in Requests, ReportRotation(r)
      PROVE  AnswersMove
  <2>1. PICK s \in Rotations, status \in Finals \cup {"open"} :
          s = req[r].on /\ status = req[r].says
    BY <1>0, <1>8 DEF ReportRotation, TypeOK, Req
  <2>2. Right(s, status)
    BY <1>8, <2>1 DEF AInv, Reporting, ReportRotation
  <2>3. Right(s, status)'
    BY <1>0, <2>2, RightStays
  <2>4. CASE status = "open"
    <3>1. req' = [req EXCEPT ![r] = IdleReq] /\ UNCHANGED told
      BY <1>8, <2>1, <2>4 DEF ReportRotation, Tell
    <3>2. Mute(r)
      BY <1>0, <3>1 DEF Mute, TypeOK, IdleReq
    <3> QED
      BY <3>1, <3>2, Quiet
  <2>5. CASE status # "open"
    <3>1. Answer(r, s, status)
      BY <1>8, <2>1, <2>5 DEF ReportRotation, Tell
    <3> QED
      BY <1>0, <2>1, <2>3, <2>5, <3>1, Answering
  <2> QED
    BY <2>4, <2>5
<1>9. ASSUME NEW r \in Requests, LookRecovery(r)
      PROVE  AnswersMove
  <2>1. Mute(r)
    BY <1>0, <1>9 DEF LookRecovery, Mute, TypeOK, Req, CeremonyAssumption
  <2> QED
    BY <1>9, <2>1, Quiet DEF LookRecovery
<1>10. ASSUME NEW r \in Requests, ReportRecovery(r)
       PROVE  AnswersMove
  <2>1. PICK s \in Recoveries : s = req[r].on
    BY <1>10 DEF ReportRecovery
  <2>2. PICK status : status = RecoveryStatus(s)
    OBVIOUS
  <2>3. Right(s, status)'
    BY <1>0, <1>10, <2>2, RecoveryReport, RightKept DEF ReportRecovery
  <2>4. status \in Finals \cup {"open"}
    BY <1>0, <2>2 DEF RecoveryStatus, Finals, TypeOK, Outcomes
  <2>5. CASE status = "open"
    <3>1. req' = [req EXCEPT ![r] = IdleReq] /\ UNCHANGED told
      BY <1>10, <2>1, <2>2, <2>5 DEF ReportRecovery, Tell
    <3>2. Mute(r)
      BY <1>0, <3>1 DEF Mute, TypeOK, IdleReq
    <3> QED
      BY <3>1, <3>2, Quiet
  <2>6. CASE status # "open"
    <3>1. Answer(r, s, status)
      BY <1>10, <2>1, <2>2, <2>6 DEF ReportRecovery, Tell
    <3> QED
      BY <1>0, <2>3, <2>4, <2>6, <3>1, Answering
  <2> QED
    BY <2>5, <2>6
<1> QED
  BY <1>1, <1>2, <1>3, <1>4, <1>5, <1>6, <1>7, <1>8, <1>9, <1>10 DEF Next

---------------------------------------------------------------------------
(* The invariant, and the theorems.                                        *)

LEMMA AInvInvariant == Spec => []AInv
<1>1. Init => AInv
  <2> SUFFICES ASSUME Init PROVE AInv
    OBVIOUS
  <2>1. CInv
    <3>1. TypeOK
      BY CeremonyAssumption, IdleReqType
         DEF Init, TypeOK, Keys, Codes, Rotation, Code, CeremonyAssumption
    <3> QED
      BY <3>1 DEF Init, CInv, Ordered, Activated, Codes
  <2>2. Activated = {}
    BY DEF Init, Activated
  <2>3. Decided /\ Staged /\ Serving
    BY <2>2 DEF Init, Decided, Staged, Serving
  <2>4. Reporting /\ Told
    BY DEF Init, Reporting, Told, IdleReq
  <2> QED
    BY <2>1, <2>3, <2>4 DEF AInv
<1>2. AInv /\ [Next]_vars => AInv'
  <2> SUFFICES ASSUME AInv, [Next]_vars PROVE AInv'
    OBVIOUS
  <2>1. CInv /\ TypeOK' /\ Moves
    BY TypeStep, StepMoves, CeremonyAssumption DEF AInv, CInv
  <2>2. CInv'
    BY <2>1, MovesKeep, CeremonyAssumption
  <2>3. Decided'
    BY <2>1, StepDecides, DecidedStays, CeremonyAssumption DEF AInv
  <2>4. Staged'
    BY <2>1, StagedStays, CeremonyAssumption DEF AInv
  <2>5. Serving'
    BY <2>1, StepSessions, ServingStays, CeremonyAssumption DEF AInv
  <2>6. Reporting' /\ Told'
    BY <2>1, StepAnswers, AnswersStay, CeremonyAssumption
  <2> QED
    BY <2>2, <2>3, <2>4, <2>5, <2>6 DEF AInv
<1> QED
  BY <1>1, <1>2, PTL DEF Spec

(* What a page or the JSON door said of a ceremony stays true: one called   *)
(* canceled or invalidated never brings its key to power, and one called   *)
(* rotated or recovered has (getMerchantRotationProgress,                   *)
(* getMerchantRecoveryProgress and the confirmations).                      *)
THEOREM KeyAnswersHold == Spec => []AnswersHold
<1>1. AInv => AnswersHold
  <2> SUFFICES ASSUME AInv, NEW s \in Ceremonies
               PROVE  /\ {<<s, "canceled">>, <<s, "invalidated">>} \cap told # {}
                           => s \notin Activated
                      /\ {<<s, "rotated">>, <<s, "recovered">>} \cap told # {}
                           => s \in Activated
    BY DEF AnswersHold
  <2>1. \A status : <<s, status>> \in told => Right(s, status)
    BY DEF AInv, Told
  <2> QED
    BY <2>1 DEF Right, Dead
<1> QED
  BY <1>1, AInvInvariant, PTL

---------------------------------------------------------------------------
(* Counting the codes that were spent.                                     *)

Used      == {c \in Codes : code[c].state = "used"}
Recovered == Activated \cap Recoveries

Counted == /\ IsFiniteSet(Used) /\ IsFiniteSet(Recovered)
           /\ Cardinality(Used) = Cardinality(Recovered)

\* One code is spent with one recovery, and none otherwise.
SpendMove ==
  \/ Used' = Used /\ Recovered' = Recovered
  \/ \E d \in Codes \ Used, s \in Recoveries \ Recovered :
       Used' = Used \cup {d} /\ Recovered' = Recovered \cup {s}

LEMMA CountedStays ==
  ASSUME Counted, SpendMove
  PROVE  Counted'
<1>1. CASE Used' = Used /\ Recovered' = Recovered
  BY <1>1 DEF Counted
<1>2. CASE \E d \in Codes \ Used, s \in Recoveries \ Recovered :
             Used' = Used \cup {d} /\ Recovered' = Recovered \cup {s}
  <2>1. PICK d, s : /\ d \notin Used /\ s \notin Recovered
                    /\ Used' = Used \cup {d} /\ Recovered' = Recovered \cup {s}
    BY <1>2
  <2>2. /\ IsFiniteSet(Used \cup {d})
        /\ Cardinality(Used \cup {d}) = Cardinality(Used) + 1
    BY <2>1, FS_AddElement DEF Counted
  <2>3. /\ IsFiniteSet(Recovered \cup {s})
        /\ Cardinality(Recovered \cup {s}) = Cardinality(Recovered) + 1
    BY <2>1, FS_AddElement DEF Counted
  <2> QED
    BY <2>1, <2>2, <2>3 DEF Counted
<1> QED
  BY <1>1, <1>2 DEF SpendMove

\* A statement that leaves no code used that was not.
LEMMA NothingSpent ==
  ASSUME Moves, \A c \in Codes : code'[c].state = "used" => code[c].state = "used",
         Recovered' = Recovered
  PROVE  SpendMove
<1>1. \A c \in Codes : code[c].state = "used" => code'[c].state = "used"
  BY DEF Moves, CodesMove
<1>2. Used' = Used
  BY <1>1 DEF Used
<1> QED
  BY <1>2 DEF SpendMove

LEMMA SpentByNone ==
  ASSUME CInv, Moves, UNCHANGED merchant,
         UNCHANGED code \/ \E ss, now : Update(Cleared(ss), now)
  PROVE  SpendMove
<1>1. \A c \in Codes : code'[c].state = "used" => code[c].state = "used"
  BY DEF Update, Cleared, CInv, TypeOK, Code
<1>2. Recovered' = Recovered
  BY DEF Recovered, Activated, merchant
<1> QED
  BY <1>1, <1>2, NothingSpent

LEMMA StepSpends ==
  ASSUME CeremonyAssumption, CInv, Serving, Moves, [Next]_vars
  PROVE  SpendMove
<1>0. TypeOK
  BY DEF CInv
<1>1. CASE UNCHANGED vars
  BY <1>1, SpentByNone DEF vars, merchant
<1>2. ASSUME NEW s \in Rotations, StageRotation(s)
      PROVE  SpendMove
  BY <1>2, SpentByNone DEF StageRotation
<1>3. ASSUME NEW s \in Recoveries, StageRecovery(s)
      PROVE  SpendMove
  <2>1. PICK d \in Codes : Update([Cleared(due) EXCEPT ![d].session = s], due)
    BY <1>3 DEF StageRecovery
  <2>2. \A c \in Codes : code'[c].state = code[c].state
    BY <1>0, <2>1, ClearedType DEF Update, Cleared, TypeOK, Code
  <2>3. Recovered' = Recovered
    BY <1>3 DEF StageRecovery, Recovered, Activated, merchant
  <2> QED
    BY <2>2, <2>3, NothingSpent
<1>4. CASE StageRejected
  BY <1>4, SpentByNone DEF StageRejected
<1>5. ASSUME NEW s \in Ceremonies, Expire(s)
      PROVE  SpendMove
  BY <1>5, SpentByNone DEF Expire
<1>6. CASE NewDay
  BY <1>6, SpentByNone DEF NewDay
<1>7. ASSUME NEW r \in Requests, NEW s \in Ceremonies, NEW right \in BOOLEAN,
             Confirm(r, s, right) \/ Resume(r, s)
      PROVE  SpendMove
  BY <1>7, SpentByNone DEF Confirm, Resume
<1>8. ASSUME NEW r \in Requests,
             \/ Lock(r) \/ GenerateStarts(r) \/ GenerateRejected(r)
             \/ LookRotation(r) \/ ReportRecovery(r) \/ Abandon(r)
             \/ LimitReached(r) \/ Refuse(r) \/ ReportRotation(r)
      PROVE  SpendMove
  BY <1>8, SpentByNone DEF Lock, GenerateStarts, GenerateRejected, LookRotation,
       ReportRecovery, Abandon, LimitReached, Refuse, ReportRotation
<1>9. ASSUME NEW r \in Requests, Rotate(r)
      PROVE  SpendMove
  <2>1. PICK s \in Rotations : Activate(s) /\ Update(Invalidated(Unused), req[r].now)
    BY <1>9 DEF Rotate
  <2>2. \A c \in Codes : code'[c].state = "used" => code[c].state = "used"
    BY <2>1 DEF Update, Invalidated
  <2>3. Recovered' = Recovered
    BY <2>1 DEF Activate, Recovered, Activated, CeremonyAssumption
  <2> QED
    BY <2>2, <2>3, NothingSpent
<1>10. ASSUME NEW r \in Requests, Recover(r)
       PROVE  SpendMove
  <2>0. PICK s \in Recoveries : s = req[r].on
    BY <1>10 DEF Recover
  <2> DEFINE spent == [c \in Codes |->
                 IF c \in Holding(s) THEN [state |-> "used", session |-> None]
                                     ELSE Invalidated(Unused)[c]]
  <2>1. Available(s) /\ Activate(s) /\ Update(spent, req[r].now)
    BY <1>10, <2>0 DEF Recover
  <2>2. s # None /\ s \notin Rotations /\ s \in Ceremonies
    BY DEF CeremonyAssumption, Ceremonies
  <2>3. PICK d \in Codes : Holding(s) = {d}
    BY <2>1, <2>2 DEF Available, Open, Serving, Holding
  <2>4. code[d].state = "unused"
    BY <2>2, <2>3 DEF Holding, CInv, Ordered
  <2>5. \A c \in Codes : code'[c].state = "used" <=> c = d \/ code[c].state = "used"
    BY <2>1, <2>3 DEF Update, Invalidated, Unused
  <2>6. Used' = Used \cup {d} /\ d \notin Used
    BY <2>4, <2>5 DEF Used
  <2>7. s \notin Recovered
    BY <2>1, <2>2, OpenNotActivated DEF Available, Recovered
  <2>8. Recovered' = Recovered \cup {s}
    BY <2>1 DEF Activate, Recovered, Activated, CeremonyAssumption
  <2> QED
    BY <2>6, <2>7, <2>8 DEF SpendMove
<1>11. ASSUME NEW r \in Requests, Generate(r)
       PROVE  SpendMove
  <2>1. \A c \in Codes : code'[c].state = "used" => code[c].state = "used"
    BY <1>11 DEF Generate, Update, Invalidated
  <2>2. Recovered' = Recovered
    BY <1>11 DEF Generate, Recovered, Activated
  <2> QED
    BY <2>1, <2>2, NothingSpent
<1>12. ASSUME NEW r \in Requests, NEW s \in Ceremonies, Cancel(r, s)
       PROVE  SpendMove
  BY <1>12, SpentByNone DEF Cancel
<1>13. ASSUME NEW r \in Requests, LookRecovery(r)
       PROVE  SpendMove
  BY <1>13, SpentByNone DEF LookRecovery
<1> QED
  BY <1>1, <1>2, <1>3, <1>4, <1>5, <1>6, <1>7, <1>8, <1>9, <1>10, <1>11, <1>12,
     <1>13 DEF Next

(* Each recovery spent one code, and the result kept for it after its row   *)
(* forgot the session says so (confirmMerchantRecoveryOnce and the trigger *)
(* record_merchant_recovery_ceremony_result).                              *)
THEOREM OneCodeForARecovery == Spec => []OneCodeOneRecovery
<1>1. Init => Counted
  <2> SUFFICES ASSUME Init PROVE Counted
    OBVIOUS
  <2>1. Used = {} /\ Recovered = {}
    BY DEF Init, Used, Recovered, Activated
  <2> QED
    BY <2>1, FS_EmptySet DEF Counted
<1>2. AInv /\ Counted /\ [Next]_vars => Counted'
  <2> SUFFICES ASSUME AInv, Counted, [Next]_vars PROVE Counted'
    OBVIOUS
  <2>1. SpendMove
    BY StepMoves, StepSpends, CeremonyAssumption DEF AInv
  <2> QED
    BY <2>1, CountedStays
<1>3. AInv /\ Counted => OneCodeOneRecovery
  <2>1. AInv => \A s \in Recoveries : result[s] = "recovered" <=> s \in Activated
    BY DEF AInv, Decided
  <2> QED
    BY <2>1 DEF Counted, Used, Recovered, OneCodeOneRecovery
<1> QED
  BY <1>1, <1>2, <1>3, AInvInvariant, PTL DEF Spec
=============================================================================
