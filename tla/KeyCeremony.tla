----------------------------- MODULE KeyCeremony -----------------------------
(***************************************************************************)
(* The merchant key: src/market-identity-store.ts (rotation),              *)
(* src/market-identity-recovery-store.ts, src/market-identity-progress-    *)
(* store.ts, the doors that call them (src/market-identity-json-routes.ts, *)
(* src/market-identity-browser.ts) and the tables merchants,               *)
(* merchant_key_rotations, merchant_recovery_codes and                     *)
(* merchant_recovery_ceremony_results with its trigger.                    *)
(*                                                                         *)
(* One merchant.  Its key changes by a ceremony: a rotation is staged with *)
(* the current key, a recovery with one of the recovery codes, and either  *)
(* shows a fresh replacement key once; the key changes only when the saved *)
(* replacement is entered again.  A new set of codes replaces the earlier  *)
(* ones.  Statements run READ COMMITTED: a statement sees what was         *)
(* committed when it started, waits for the merchant row where it locks it *)
(* and rechecks the rows it updates, so waiting is a step of its own.      *)
(***************************************************************************)
EXTENDS Integers, FiniteSets

CONSTANTS
  Rotations,      \* sessions of key rotations
  Recoveries,     \* sessions of key recoveries
  Slots,          \* the codes of one recovery set (eight in the code)
  Requests,       \* concurrently running requests
  First,          \* the key the merchant registered with
  None,           \* no key, session or request
  DailyLimit,     \* successfulRotationsPerMerchantUtcDay
  MaxGeneration   \* bound: last recovery_generation

ASSUME CeremonyAssumption ==
  /\ Rotations \cap Recoveries = {}
  /\ DailyLimit \in Nat \ {0} /\ MaxGeneration \in Nat \ {0}
  /\ First \notin Rotations \cup Recoveries
  /\ None \notin Rotations \cup Recoveries \cup Requests \cup {First}
  /\ (Rotations \cup Recoveries) \cap ((1..MaxGeneration) \X Slots) = {}

VARIABLES
  key,         \* merchants.secret_hash
  generation,  \* merchants.recovery_generation
  lock,        \* the transaction holding the merchant row FOR UPDATE
  rot,         \* table merchant_key_rotations, a row per session
  code,        \* table merchant_recovery_codes, by generation and slot
  result,      \* table merchant_recovery_ceremony_results, by session
  due,         \* the clock: ceremonies whose expires_at has passed
  today,       \* rotations confirmed this UTC day
  req,         \* the state of each running request
  past,        \* history: keys that were replaced
  overtaken,   \* history: ceremonies open when the key or set changed
  told         \* history: final answers given about a ceremony

vars == <<key, generation, lock, rot, code, result, due, today, req, past,
          overtaken, told>>

merchant == <<key, generation, past, overtaken>>

---------------------------------------------------------------------------
(* The replacement key of a ceremony is fresh, so the session names it.    *)

Ceremonies == Rotations \cup Recoveries
Keys       == {First} \cup Ceremonies
Codes      == (1..MaxGeneration) \X Slots

Outcomes == {"recovered", "canceled", "expired", "invalidated"}
Finals   == Outcomes \cup {"rotated"}

Rotation == [status : {"none", "staged", "confirmed", "canceled", "expired",
                       "invalidated"},    \* expired: canceled_at >= expires_at
             gen    : 0..MaxGeneration,
             under  : Keys \cup {None}]   \* merchant_secret_hash

Code == [state   : {"absent", "unused", "used", "invalidated"},
         session : Recoveries \cup {None}]

Labels == {"idle", "lock", "apply", "generate", "look", "report"}

Req == [pc    : Labels,
        on    : Ceremonies \cup {None},
        right : BOOLEAN,                  \* the replacement is the saved one
        proof : Keys \cup {None},         \* the key a generate presents
        now   : SUBSET Ceremonies,        \* the clock when it started
        seen  : SUBSET (Codes \cup Rotations), \* the snapshot it works on
        says  : Finals \cup {"open"}]     \* the status it read

IdleReq == [pc |-> "idle", on |-> None, right |-> FALSE, proof |-> None,
            now |-> {}, seen |-> {}, says |-> "open"]

TypeOK ==
  /\ key \in Keys
  /\ generation \in 1..MaxGeneration
  /\ lock \in Requests \cup {None}
  /\ rot \in [Rotations -> Rotation]
  /\ code \in [Codes -> Code]
  /\ result \in [Recoveries -> Outcomes \cup {"none"}]
  /\ due \subseteq Ceremonies
  /\ today \in 0..DailyLimit
  /\ req \in [Requests -> Req]
  /\ past \subseteq Keys
  /\ overtaken \subseteq Ceremonies
  /\ told \subseteq Ceremonies \X Finals

Init ==
  /\ key = First
  /\ generation = 1
  /\ lock = None
  /\ rot = [s \in Rotations |->
             [status |-> "none", gen |-> 0, under |-> None]]
  /\ code = [c \in Codes |->
              [state |-> IF c[1] = 1 THEN "unused" ELSE "absent",
               session |-> None]]
  /\ result = [s \in Recoveries |-> "none"]
  /\ due = {}
  /\ today = 0
  /\ req = [r \in Requests |-> IdleReq]
  /\ past = {}
  /\ overtaken = {}
  /\ told = {}

---------------------------------------------------------------------------
(* Reading the tables.                                                     *)

Holding(s) == {c \in Codes : code[c].session = s}

(* A ceremony that was staged and has no outcome yet. *)
Open(s) == IF s \in Rotations THEN rot[s].status = "staged"
                              ELSE Holding(s) # {}

OpenCeremonies == {s \in Ceremonies : Open(s)}

\* Mutant of Unused: used_at IS NULL is forgotten.
UnusedOrSpent == {c \in Codes : code[c].state # "absent"}

Unused == {c \in Codes : code[c].state = "unused"}

Activated == (past \cup {key}) \ {First}

Ended(row, status) == [row EXCEPT !.status = status, !.under = None]

(* cleared_expired of the rotation statements *)
Swept(now) ==
  [s \in Rotations |-> IF rot[s].status = "staged" /\ s \in now
                       THEN Ended(rot[s], "expired") ELSE rot[s]]

(* The trigger on merchant_recovery_codes: the first outcome of a session   *)
(* that leaves its row stays.                                              *)
Outcome(s, row, now) ==
  IF row.state = "used" THEN "recovered"
  ELSE IF s \in now THEN "expired"
  ELSE IF row.state = "invalidated" THEN "invalidated" ELSE "canceled"

Recorded(new, now) ==
  [s \in Recoveries |->
     IF result[s] = "none" /\ \E c \in Holding(s) : new[c].session # s
     THEN Outcome(s, new[CHOOSE c \in Holding(s) : TRUE], now)
     ELSE result[s]]

Update(new, now) == code' = new /\ result' = Recorded(new, now)

Invalidated(cs) ==
  [c \in Codes |-> IF c \in cs THEN [state |-> "invalidated", session |-> None]
                               ELSE code[c]]

(* The clearing of the ceremonies of codes whose session is in ss. *)
Cleared(ss) ==
  [c \in Codes |-> IF code[c].session \in ss \ {None}
                   THEN [code[c] EXCEPT !.session = None] ELSE code[c]]

---------------------------------------------------------------------------
(* What requests remember: Looking is the progress lookup of a page.       *)

Looking(s) == [IdleReq EXCEPT !.pc = "look", !.on = s]

Confirming(s, right) ==
  [IdleReq EXCEPT !.pc = "lock", !.on = s, !.right = right, !.now = due]

Generating ==
  [IdleReq EXCEPT !.pc = "generate", !.proof = key, !.now = due,
                  !.seen = Unused \cup (OpenCeremonies \cap Rotations)]

---------------------------------------------------------------------------
(* Staging a ceremony: one statement each.                                 *)

StageRotation(s) ==
  /\ lock = None
  /\ rot[s].status = "none"
  /\ rot' = [Swept(due) EXCEPT ![s] = [status |-> "staged", gen |-> generation,
                                       under |-> key]]
  /\ UNCHANGED <<merchant, lock, code, result, due, today, req, told>>

(* The merchant row is read here but not locked. *)
Eligible(c, s) ==
  /\ c[1] = generation
  /\ code[c].state = "unused"
  /\ code[c].session \in due \cup {None}
  /\ Holding(s) = {}
  /\ result[s] = "none"

StageRecovery(s) ==
  /\ \E c \in Codes :
       /\ Eligible(c, s)
       /\ Update([Cleared(due) EXCEPT ![c].session = s], due)
  /\ UNCHANGED <<merchant, lock, rot, due, today, req, told>>

(* A wrong key or code, or a session already in use: what has expired is    *)
(* cleared all the same, except on the row of the code presented.          *)
StageRejected ==
  /\ \/ rot' = Swept(due) /\ UNCHANGED <<code, result>>
     \/ /\ \E s \in due \cup {None} : Update(Cleared(due \ {s}), due)
        /\ UNCHANGED rot
  /\ UNCHANGED <<merchant, lock, due, today, req, told>>

---------------------------------------------------------------------------
(* Confirming a ceremony: a transaction of two statements.  now() is the    *)
(* start of the transaction in both.                                       *)

Idle(r) == req[r].pc = "idle"

(* Requests end with an answer (the JSON door) or look the ceremony's       *)
(* progress up before they answer (the browser page).                      *)
EndOrLook(r, s) ==
  req' = [req EXCEPT ![r] = IdleReq]
  \/ req' = [req EXCEPT ![r] = Looking(s)]

Confirm(r, s, right) ==
  /\ Idle(r)
  /\ IF Open(s) /\ s \notin due
     THEN req' = [req EXCEPT ![r] = Confirming(s, right)] /\ UNCHANGED rot
     ELSE EndOrLook(r, s) /\ rot' = IF s \in Rotations THEN Swept(due) ELSE rot
  /\ UNCHANGED <<merchant, lock, code, result, due, today, told>>

Lock(r) ==
  /\ req[r].pc = "lock"
  /\ lock = None
  /\ lock' = r
  /\ req' = [req EXCEPT ![r].pc = "apply"]
  /\ UNCHANGED <<merchant, rot, code, result, due, today, told>>

\* Mutant of Available: the generation is not compared.
AvailableAnyway(s) ==
  Open(s) /\ (s \in Rotations => rot[s].under = key)

(* available_rotation and available_request *)
Available(s) ==
  /\ Open(s)
  /\ IF s \in Rotations THEN rot[s].gen = generation /\ rot[s].under = key
                        ELSE \A c \in Holding(s) : c[1] = generation

\* Mutant of Admitted: off by one.
AdmittedOnceMore == today <= DailyLimit

(* admission: the day's count is read under the merchant's lock. *)
Admitted == today < DailyLimit

(* The change of merchants that both ceremonies make. *)
Activate(s) ==
  /\ generation < MaxGeneration
  /\ key' = s
  /\ generation' = generation + 1
  /\ past' = past \cup {key}
  /\ overtaken' = overtaken \cup (OpenCeremonies \ {s})

Answer(r, s, status) ==
  /\ req' = [req EXCEPT ![r] = IdleReq]
  /\ told' = told \cup {<<s, status>>}

(* invalidated_rotation_siblings meets cleared_expired on the rows that     *)
(* have expired: either update may be the one that counts.                 *)
Rotate(r) ==
  LET s == req[r].on
  IN /\ req[r].pc = "apply" /\ s \in Rotations
     /\ Available(s) /\ req[r].right /\ Admitted
     /\ Activate(s)
     /\ \E late \in SUBSET {x \in req[r].now : x \in Rotations \ {s}} :
          rot' = [x \in Rotations |->
                   IF rot[x].status # "staged" THEN rot[x]
                   ELSE Ended(rot[x], IF x = s THEN "confirmed"
                                      ELSE IF x \in late THEN "expired"
                                      ELSE "invalidated")]
     /\ Update(Invalidated(Unused), req[r].now)
     /\ today' = today + 1
     /\ Answer(r, s, "rotated")
     /\ lock' = None
     /\ UNCHANGED due

Recover(r) ==
  LET s == req[r].on
      spent == [c \in Codes |->
                 IF c \in Holding(s) THEN [state |-> "used", session |-> None]
                                     ELSE Invalidated(Unused)[c]]
  IN /\ req[r].pc = "apply" /\ s \in Recoveries
     /\ Available(s) /\ req[r].right
     /\ Activate(s)
     /\ Update(spent, req[r].now)
     /\ rot' = [x \in Rotations |-> IF rot[x].status = "staged"
                                    THEN Ended(rot[x], "invalidated") ELSE rot[x]]
     /\ Answer(r, s, "recovered")
     /\ lock' = None
     /\ UNCHANGED <<due, today>>

(* rate_limited *)
LimitReached(r) ==
  LET s == req[r].on
  IN /\ req[r].pc = "apply" /\ s \in Rotations
     /\ Available(s) /\ req[r].right /\ ~Admitted
     /\ rot' = [Swept(req[r].now) EXCEPT ![s] = Ended(rot[s], "canceled")]
     /\ req' = [req EXCEPT ![r] = IdleReq]
     /\ lock' = None
     /\ UNCHANGED <<merchant, code, result, due, today, told>>

(* credential_rejected and request_unavailable *)
Refuse(r) ==
  LET s == req[r].on
  IN /\ req[r].pc = "apply"
     /\ ~(Available(s) /\ req[r].right)
     /\ IF Available(s) THEN req' = [req EXCEPT ![r] = IdleReq]
                        ELSE EndOrLook(r, s)
     /\ rot' = IF s \in Rotations THEN Swept(req[r].now) ELSE rot
     /\ lock' = None
     /\ UNCHANGED <<merchant, code, result, due, today, told>>

---------------------------------------------------------------------------
(* Generating a new set of recovery codes: one statement, which takes its   *)
(* snapshot, then waits for the merchant row and rechecks what it updates. *)

GenerateStarts(r) ==
  /\ Idle(r)
  /\ req' = [req EXCEPT ![r] = Generating]
  /\ UNCHANGED <<merchant, lock, rot, code, result, due, today, told>>

\* Mutant of Rechecked: the snapshot is believed.
Unchecked(r) == req[r].seen

(* The rows of the snapshot that are still open when they are updated. *)
Rechecked(r) == req[r].seen \cap (Unused \cup OpenCeremonies)

Generate(r) ==
  LET new == [c \in Codes |->
               IF c[1] = generation + 1
               THEN [state |-> "unused", session |-> None]
               ELSE Invalidated(Rechecked(r))[c]]
  IN /\ req[r].pc = "generate" /\ lock = None
     /\ req[r].proof = key
     /\ generation < MaxGeneration
     /\ generation' = generation + 1
     /\ Update(new, req[r].now)
     /\ rot' = [x \in Rotations |-> IF x \in Rechecked(r)
                                    THEN Ended(rot[x], "invalidated") ELSE rot[x]]
     /\ overtaken' = overtaken \cup OpenCeremonies
     /\ req' = [req EXCEPT ![r] = IdleReq]
     /\ UNCHANGED <<key, past, lock, due, today, told>>

GenerateRejected(r) ==
  /\ req[r].pc = "generate" /\ lock = None
  /\ req[r].proof # key
  /\ req' = [req EXCEPT ![r] = IdleReq]
  /\ UNCHANGED <<merchant, lock, rot, code, result, due, today, told>>

---------------------------------------------------------------------------
(* Canceling a ceremony, and reporting what became of it.                  *)

(* The statement of a cancel; the JSON door then answers at once, the       *)
(* browser page looks the progress up.                                     *)
Cancel(r, s) ==
  /\ Idle(r)
  /\ Open(s) /\ s \notin due
  /\ IF s \in Rotations
     THEN /\ rot' = [rot EXCEPT ![s] = Ended(@, "canceled")]
          /\ UNCHANGED <<code, result>>
     ELSE Update(Cleared({s}), due) /\ UNCHANGED rot
  /\ \/ Answer(r, s, "canceled")
     \/ /\ req' = [req EXCEPT ![r] = Looking(s)]
        /\ UNCHANGED told
  /\ UNCHANGED <<merchant, lock, due, today>>

(* A page opened again, or a cancel that changed nothing. *)
Resume(r, s) ==
  /\ Idle(r)
  /\ req' = [req EXCEPT ![r] = Looking(s)]
  /\ UNCHANGED <<merchant, lock, rot, code, result, due, today, told>>

\* Mutant of RotationStatus: the comparison with the merchant comes first.
StatusStaleFirst(s) ==
  IF rot[s].gen # generation /\ rot[s].status # "none" THEN "invalidated"
  ELSE IF rot[s].status = "confirmed" THEN "rotated"
  ELSE IF rot[s].status \in {"none", "staged"} THEN "open" ELSE rot[s].status

(* The CASE of getMerchantRotationProgress. *)
RotationStatus(s) ==
  CASE rot[s].status = "confirmed" -> "rotated"
    [] rot[s].status \in {"invalidated", "canceled", "expired"} -> rot[s].status
    [] rot[s].status = "staged" /\ s \in due -> "expired"
    [] rot[s].status = "staged" /\ s \notin due /\ ~Available(s) -> "invalidated"
    [] OTHER -> "open"

(* The SELECT reads the statement's snapshot, while its scrub waits for the *)
(* row and rechecks it.                                                    *)
LookRotation(r) ==
  /\ req[r].pc = "look" /\ req[r].on \in Rotations
  /\ req' = [req EXCEPT ![r].pc = "report", ![r].now = due,
                        ![r].says = RotationStatus(req[r].on)]
  /\ UNCHANGED <<merchant, lock, rot, code, result, due, today, told>>

Tell(r, status) ==
  IF status = "open" THEN req' = [req EXCEPT ![r] = IdleReq] /\ UNCHANGED told
                     ELSE Answer(r, req[r].on, status)

ReportRotation(r) ==
  LET s == req[r].on
  IN /\ req[r].pc = "report" /\ s \in Rotations
     /\ rot' = IF rot[s].status = "staged" /\ s \in req[r].now
               THEN [rot EXCEPT ![s] = Ended(@, "expired")] ELSE rot
     /\ Tell(r, req[r].says)
     /\ UNCHANGED <<merchant, lock, code, result, due, today>>

(* getMerchantRecoveryProgress scrubs in a statement of its own. *)
LookRecovery(r) ==
  /\ req[r].pc = "look" /\ req[r].on \in Recoveries
  /\ Update(Cleared({req[r].on} \cap due), due)
  /\ req' = [req EXCEPT ![r].pc = "report"]
  /\ UNCHANGED <<merchant, lock, rot, due, today, told>>

RecoveryStatus(s) ==
  CASE Open(s) /\ ~Available(s) -> "invalidated"
    [] Open(s) /\ Available(s) -> IF s \in due THEN "expired" ELSE "open"
    [] ~Open(s) /\ result[s] # "none" -> result[s]
    [] OTHER -> "open"

ReportRecovery(r) ==
  /\ req[r].pc = "report" /\ req[r].on \in Recoveries
  /\ Tell(r, RecoveryStatus(req[r].on))
  /\ UNCHANGED <<merchant, lock, rot, code, result, due, today>>

---------------------------------------------------------------------------
(* The surroundings.                                                       *)

(* A request dies, or its transaction fails: what it had not committed is   *)
(* rolled back.                                                            *)
Abandon(r) ==
  /\ ~Idle(r)
  /\ req' = [req EXCEPT ![r] = IdleReq]
  /\ lock' = IF lock = r THEN None ELSE lock
  /\ UNCHANGED <<merchant, rot, code, result, due, today, told>>

Expire(s) ==
  /\ Open(s)
  /\ due' = due \cup {s}
  /\ UNCHANGED <<merchant, lock, rot, code, result, today, req, told>>

NewDay ==
  /\ today' = 0
  /\ UNCHANGED <<merchant, lock, rot, code, result, due, req, told>>

Next ==
  \/ \E s \in Rotations : StageRotation(s)
  \/ \E s \in Recoveries : StageRecovery(s)
  \/ StageRejected
  \/ \E s \in Ceremonies : Expire(s)
  \/ NewDay
  \/ \E r \in Requests :
       \/ \E s \in Ceremonies :
            \/ \E right \in BOOLEAN : Confirm(r, s, right)
            \/ Cancel(r, s)
            \/ Resume(r, s)
       \/ Lock(r) \/ Rotate(r) \/ Recover(r) \/ LimitReached(r) \/ Refuse(r)
       \/ GenerateStarts(r) \/ Generate(r) \/ GenerateRejected(r)
       \/ LookRotation(r) \/ ReportRotation(r)
       \/ LookRecovery(r) \/ ReportRecovery(r)
       \/ Abandon(r)

Spec == Init /\ [][Next]_vars

---------------------------------------------------------------------------
(* What must hold.                                                         *)

(* A ceremony that was open when the key changed or a new set of codes was  *)
(* issued never brings its replacement key to power, not even where the    *)
(* statement that overtook it did not see its row (recovery_generation).   *)
OvertakenStaysDead == overtaken \cap Activated = {}

(* What a page or a door has said of a ceremony is what became of it: one   *)
(* reported canceled or invalidated never activates, one reported done did. *)
AnswersHold ==
  \A s \in Ceremonies :
    /\ {<<s, "canceled">>, <<s, "invalidated">>} \cap told # {}
         => s \notin Activated
    /\ {<<s, "rotated">>, <<s, "recovered">>} \cap told # {} => s \in Activated

(* Each recovery spent one code, and the results kept for it after the row  *)
(* forgot its session say so.                                              *)
OneCodeOneRecovery ==
  /\ Cardinality({c \in Codes : code[c].state = "used"})
       = Cardinality(Activated \cap Recoveries)
  /\ \A s \in Recoveries : result[s] = "recovered" <=> s \in Activated

(* Nothing spent or ended comes back: a used or invalidated code, the       *)
(* outcome of a ceremony, a replaced key.                                  *)
HistoryKept ==
  [][/\ \A c \in Codes : code[c].state \in {"used", "invalidated"}
                           => code'[c] = code[c]
     /\ \A s \in Rotations : rot[s].status \notin {"none", "staged"}
                               => rot'[s] = rot[s]
     /\ \A s \in Recoveries : result[s] # "none" => result'[s] = result[s]
     /\ key' \notin past]_vars
=============================================================================
