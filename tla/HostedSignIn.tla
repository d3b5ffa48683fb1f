----------------------------- MODULE HostedSignIn -----------------------------
(***************************************************************************)
(* How a merchant comes to be, and how a chat app is connected to it:      *)
(* src/market-oauth.ts, src/market-oauth-store.ts up to the approval,      *)
(* src/market-oauth-registration-store.ts, src/market-oauth-pairing.ts,    *)
(* src/market-pairing-store.ts, src/market-pairing-routes.ts, the          *)
(* registration half of src/market-identity-store.ts with the two doors    *)
(* that call it (src/market-identity-json-routes.ts and the /join page of  *)
(* src/market-identity-browser.ts), and the tables                         *)
(* oauth_authorization_requests, pending_merchant_registrations,           *)
(* merchant_pairing_codes and oauth_pairing_reservations.                  *)
(*                                                                         *)
(* A registration is staged under a handle, shows its key once and makes   *)
(* the merchant when the key is entered again.  Several sessions may stage *)
(* one handle; the unique index on merchants.handle lets one of them win.  *)
(* A sign-in may instead be approved for a merchant that exists, by its    *)
(* key or by a pairing code minted with that key.  What an approval grants *)
(* is OAuthTokens: a hosted session is a grant of it.                      *)
(***************************************************************************)
EXTENDS Integers, FiniteSets

CONSTANTS
  Merchants,  \* merchants, by handle
  Hosted,     \* sessions of the hosted sign-in page
  Direct,     \* sessions of /join and /api/register
  Pairings,   \* pairing codes
  Pages,      \* concurrently running requests of the sign-in
  Calls,      \* concurrently running requests of OAuthTokens
  None,       \* no merchant, session, pairing code or call
  MaxKeys,    \* bound: keys a merchant ever has
  MaxTokens   \* bound: refresh tokens of a family

ASSUME SignInAssumption ==
  /\ MaxKeys \in Nat \ {0} /\ MaxTokens \in Nat \ {0}
  /\ Hosted \cap Direct = {}
  /\ None \notin Merchants \cup Hosted \cup Direct \cup Pairings \cup Calls

VARIABLES
  key, holder, code, family, token, marked, due, call, spent, replayed,
  row,       \* the session's request or pending registration
  late,      \* the clock: sessions whose expires_at has passed
  by,        \* merchants.id: the session that made each merchant
  pairing,   \* table merchant_pairing_codes
  reserved,  \* table oauth_pairing_reservations, by session
  page,      \* the state of each running request of the sign-in
  told,      \* history: final answers given to each session
  redeemed   \* history: the pairing code that approved each session

Tokens == INSTANCE OAuthTokens WITH Grants <- Hosted

tokenVars == <<key, holder, code, family, token, marked, due, call, spent,
               replayed>>
pairVars == <<pairing, reserved, redeemed>>
signInVars == <<row, late, by, pairing, reserved, page, told, redeemed>>

Sessions == Hosted \cup Direct
Answers  == {"confirmed", "canceled", "handle_taken"}

Row == [state  : {"none", "initial", "staged", "confirmed", "linked",
                  "canceled", "swept"},
        handle : Merchants \cup {None}]

Pairing == [state    : {"none", "unused", "used", "invalidated", "lapsed"},
            merchant : Merchants \cup {None},
            proof    : 0..MaxKeys,   \* the key that authenticated the mint
            gen      : 0..MaxKeys]   \* the key when the row was inserted

Page == [pc      : {"idle", "confirm", "lost", "look", "mint", "redeem", "key",
                    "approve"},
         session : Sessions \cup {None},
         merchant: Merchants \cup {None},
         pairing : Pairings \cup {None},
         gen     : 0..MaxKeys,
         taken   : BOOLEAN]          \* the handle was taken in the snapshot

Blank == [pc |-> "idle", session |-> None, merchant |-> None, pairing |-> None,
          gen |-> 0, taken |-> FALSE]

TypeOK ==
  /\ Tokens!TypeOK
  /\ row \in [Sessions -> Row]
  /\ late \subseteq Sessions
  /\ by \in [Merchants -> Sessions \cup {None}]
  /\ pairing \in [Pairings -> Pairing]
  /\ reserved \in [Hosted -> Pairings \cup {None}]
  /\ page \in [Pages -> Page]
  /\ told \in [Sessions -> SUBSET Answers]
  /\ redeemed \in [Hosted -> Pairings \cup {None}]

Init ==
  /\ Tokens!Init
  /\ row = [s \in Sessions |-> [state |-> "none", handle |-> None]]
  /\ late = {}
  /\ by = [m \in Merchants |-> None]
  /\ pairing = [x \in Pairings |->
                 [state |-> "none", merchant |-> None, proof |-> 0, gen |-> 0]]
  /\ reserved = [s \in Hosted |-> None]
  /\ page = [p \in Pages |-> Blank]
  /\ told = [s \in Sessions |-> {}]
  /\ redeemed = [s \in Hosted |-> None]

---------------------------------------------------------------------------
(* Opening a session.  Creating one sweeps the expired ones of its table   *)
(* that still hold what was staged.                                        *)

Taken(m) == key[m] > 0

Open(s) == s \notin late   \* expires_at > now()

Swept(ss) == [s \in Sessions |-> IF s \in ss \cap late /\ row[s].state = "staged"
                                 THEN [state |-> "swept", handle |-> None]
                                 ELSE row[s]]

Tell(s, answer) == told' = [told EXCEPT ![s] = @ \cup {answer}]

Back(p) == page' = [page EXCEPT ![p] = Blank]

CreateRequest(s) ==
  /\ row[s].state = "none"
  /\ row' = [Swept(Hosted) EXCEPT ![s].state = "initial"]
  /\ UNCHANGED <<tokenVars, late, by, pairVars, page, told>>

(* action register, and the stage door of /join and /api/register; a        *)
(* handle that is taken is refused and leaves the session as it was        *)
Staged(m) == [state |-> "staged", handle |-> m]

Register(s, m) ==
  /\ row[s].state = "initial" /\ Open(s) /\ ~Taken(m)
  /\ row' = [row EXCEPT ![s] = Staged(m)]
  /\ UNCHANGED <<tokenVars, late, by, pairVars, page, told>>

StageDirect(s, m) ==
  /\ row[s].state = "none" /\ ~Taken(m)
  /\ row' = [Swept(Direct) EXCEPT ![s] = Staged(m)]
  /\ UNCHANGED <<tokenVars, late, by, pairVars, page, told>>

---------------------------------------------------------------------------
(* Confirming.  The statement locks the session's row and sees merchants   *)
(* as they were when it started; the insert waits on the unique index.     *)

Confirming(s) == [Blank EXCEPT !.pc = "confirm", !.session = s,
                               !.merchant = row[s].handle,
                               !.taken = Taken(row[s].handle)]

Looking(s) == [Blank EXCEPT !.pc = "look", !.session = s]

ConfirmStarts(p, s) ==
  /\ page[p] = Blank
  /\ row[s].state # "none"
  /\ page' = [page EXCEPT ![p] = IF row[s].state = "staged" /\ Open(s)
                                 THEN Confirming(s) ELSE Looking(s)]
  /\ UNCHANGED <<tokenVars, row, late, by, pairVars, told>>

Closed(s) == row' = [row EXCEPT ![s] = [state |-> "canceled", handle |-> None]]

ConfirmFindsNone(p) ==
  /\ page[p].pc = "confirm" /\ row[page[p].session].state # "staged"
  /\ page' = [page EXCEPT ![p].pc = "look"]
  /\ UNCHANGED <<tokenVars, row, late, by, pairVars, told>>

(* canceled_conflict: the handle was taken when the statement started. *)
ConfirmLoses(p) ==
  LET s == page[p].session IN
  /\ page[p].pc = "confirm" /\ row[s].state = "staged" /\ page[p].taken
  /\ Closed(s) /\ Tell(s, "handle_taken") /\ Back(p)
  /\ UNCHANGED <<tokenVars, late, by, pairVars>>

(* new_merchant; a hosted registration also issues its authorization code. *)
ConfirmWins(p) ==
  LET s == page[p].session  m == page[p].merchant IN
  /\ page[p].pc = "confirm" /\ row[s].state = "staged" /\ ~page[p].taken
  /\ ~Taken(m)
  /\ key' = [key EXCEPT ![m] = 1]
  /\ code' = IF s \in Hosted
             THEN [code EXCEPT ![s] = [state |-> "issued", merchant |-> m,
                                       gen |-> 1]]
             ELSE code
  /\ by' = [by EXCEPT ![m] = s]
  /\ row' = [row EXCEPT ![s] = [state |-> "confirmed", handle |-> m]]
  /\ Tell(s, "confirmed") /\ Back(p)
  /\ UNCHANGED <<holder, family, token, marked, due, call, spent, replayed,
                 late, pairVars>>

(* The insert meets merchants_handle_key: the statement is rolled back. *)
ConfirmCollides(p) ==
  /\ page[p].pc = "confirm" /\ row[page[p].session].state = "staged"
  /\ ~page[p].taken /\ Taken(page[p].merchant)
  /\ page' = [page EXCEPT ![p].pc = "lost"]
  /\ UNCHANGED <<tokenVars, row, late, by, pairVars, told>>

(* The catch block cancels.  A hosted signup is told it lost if that, or   *)
(* its progress, says canceled (else 503); a direct one in any case.       *)
CloseLoser(s) ==
  IF row[s].state = "staged" /\ Open(s)
  THEN Closed(s) /\ Tell(s, "handle_taken")
  ELSE /\ UNCHANGED row
       /\ IF s \in Direct \/ row[s].state = "canceled"
          THEN Tell(s, "handle_taken") ELSE UNCHANGED told

Lost(p) ==
  /\ page[p].pc = "lost"
  /\ CloseLoser(page[p].session)
  /\ Back(p)
  /\ UNCHANGED <<tokenVars, late, by, pairVars>>

\* Mutant of Cancelable: a confirmed session is canceled as well.
CancelableAnyhow(s) ==
  row[s].state \in {"initial", "staged", "confirmed"} /\ Open(s)

Cancelable(s) == row[s].state \in {"initial", "staged"} /\ Open(s)

Cancel(p, s) ==
  /\ page[p] = Blank /\ row[s].state # "none"
  /\ IF Cancelable(s)
     THEN Closed(s) /\ Tell(s, "canceled") /\ UNCHANGED page
     ELSE page' = [page EXCEPT ![p] = Looking(s)] /\ UNCHANGED <<row, told>>
  /\ UNCHANGED <<tokenVars, late, by, pairVars>>

(* The progress lookup of a page that could not do what it was asked; an   *)
(* expired or unavailable session is not told an outcome kept here.        *)
Look(p) ==
  LET s == page[p].session IN
  /\ page[p].pc = "look"
  /\ IF row[s].state \in {"confirmed", "canceled"}
     THEN Tell(s, row[s].state) ELSE UNCHANGED told
  /\ Back(p)
  /\ UNCHANGED <<tokenVars, row, late, by, pairVars>>

---------------------------------------------------------------------------
(* Approving for a merchant that exists: one statement that waits for the  *)
(* merchant row and compares its key, given here as a generation.          *)

KeyMatches(m, gen) == gen > 0 /\ gen = key[m]

\* Mutant of Lockable: the approval reads the merchant without FOR UPDATE.
LockableAnyhow(m) == TRUE

Lockable(m) == holder[m] = None

Approve(s, m, gen) ==
  /\ Lockable(m)
  /\ IF row[s].state = "initial" /\ Open(s) /\ KeyMatches(m, gen)
     THEN /\ row' = [row EXCEPT ![s] = [state |-> "linked", handle |-> m]]
          /\ code' = Tokens!Issue(s, m)
     ELSE UNCHANGED <<row, code>>
  /\ UNCHANGED <<key, holder, family, token, marked, due, call, spent, replayed>>

(* action link, with a key the merchant has or had *)
Link(s, m, gen) ==
  /\ row[s].state = "initial"
  /\ Approve(s, m, gen)
  /\ UNCHANGED <<late, by, pairVars, page, told>>

---------------------------------------------------------------------------
(* Pairing.  A coding client authenticates with its key and mints a code;  *)
(* the human reserves it in the sign-in page, sees the merchant, confirms. *)

Authenticate(p, m) ==
  /\ page[p] = Blank /\ key[m] > 0
  /\ page' = [page EXCEPT ![p] = [Blank EXCEPT !.pc = "mint", !.merchant = m,
                                               !.gen = key[m]]]
  /\ UNCHANGED <<tokenVars, row, late, by, pairVars, told>>

(* The foreign key shares the merchant row, so the insert waits. *)
Mint(p, x) ==
  LET m == page[p].merchant IN
  /\ page[p].pc = "mint" /\ holder[m] = None
  /\ pairing[x].state = "none"
  /\ pairing' = [pairing EXCEPT ![x] = [state |-> "unused", merchant |-> m,
                                        proof |-> page[p].gen, gen |-> key[m]]]
  /\ Back(p)
  /\ UNCHANGED <<tokenVars, row, late, by, reserved, told, redeemed>>

(* The page read the request as initial before: it may have moved on. *)
Reserve(s, x) ==
  /\ row[s].state # "none"
  /\ pairing[x].state = "unused"
  /\ reserved' = [reserved EXCEPT ![s] = x]
  /\ UNCHANGED <<tokenVars, row, late, by, pairing, page, told, redeemed>>

TakeReserved(p, s) ==
  /\ page[p] = Blank
  /\ reserved[s] # None
  /\ reserved' = [reserved EXCEPT ![s] = None]
  /\ page' = [page EXCEPT ![p] = [Blank EXCEPT !.pc = "redeem", !.session = s,
                                               !.pairing = reserved[s]]]
  /\ UNCHANGED <<tokenVars, row, late, by, pairing, told, redeemed>>

\* Mutant of Redeemable: used_at IS NULL is forgotten.
RedeemableAgain(x) == pairing[x].state \in {"unused", "used"}

Redeemable(x) == pairing[x].state = "unused"

(* resolveAndConsumePairingCode, first statement *)
Redeem(p) ==
  LET x == page[p].pairing IN
  /\ page[p].pc = "redeem"
  /\ IF Redeemable(x)
     THEN /\ pairing' = [pairing EXCEPT ![x].state = "used"]
          /\ page' = [page EXCEPT ![p].pc = "key",
                                  ![p].merchant = pairing[x].merchant]
     ELSE Back(p) /\ UNCHANGED pairing
  /\ UNCHANGED <<tokenVars, row, late, by, reserved, told, redeemed>>

(* ... and the second: the key the merchant has by now *)
ReadKey(p) ==
  /\ page[p].pc = "key"
  /\ page' = [page EXCEPT ![p].pc = "approve", ![p].gen = key[page[p].merchant]]
  /\ UNCHANGED <<tokenVars, row, late, by, pairVars, told>>

ApprovePaired(p) ==
  LET s == page[p].session IN
  /\ page[p].pc = "approve"
  /\ Approve(s, page[p].merchant, page[p].gen)
  /\ redeemed' = IF code'[s] # code[s]
                 THEN [redeemed EXCEPT ![s] = page[p].pairing] ELSE redeemed
  /\ Back(p)
  /\ UNCHANGED <<late, by, pairing, reserved, told>>

---------------------------------------------------------------------------
(* The rest of the tokens' life goes on below; a key change also ends the  *)
(* pairing codes its second statement finds, and the snapshot holds all of *)
(* them: an insert waits for the merchant row.                             *)

\* Mutant of Ended: a key change forgets the pairing codes.
EndedNot(m) == pairing

Ended(m) ==
  [x \in Pairings |->
     IF pairing[x].merchant = m /\ pairing[x].state = "unused"
     THEN [pairing[x] EXCEPT !.state = "invalidated"] ELSE pairing[x]]

ChangeKey(c) ==
  /\ Tokens!ChangeKey(c)
  /\ pairing' = Ended(call[c].merchant)
  /\ UNCHANGED <<row, late, by, reserved, page, told, redeemed>>

Serve(c) == Tokens!Serve(c) /\ UNCHANGED signInVars

TokenClock == Tokens!Clock /\ UNCHANGED signInVars

(* The clock of the sign-in; a page that dies. *)
Lapse(s) ==
  /\ row[s].state \in {"initial", "staged"} /\ s \notin late
  /\ late' = late \cup {s}
  /\ UNCHANGED <<tokenVars, row, by, pairVars, page, told>>

LapsePairing(x) ==
  /\ pairing[x].state = "unused"
  /\ pairing' = [pairing EXCEPT ![x].state = "lapsed"]
  /\ UNCHANGED <<tokenVars, row, late, by, reserved, page, told, redeemed>>

Drop(p) ==
  /\ page[p] # Blank
  /\ Back(p)
  /\ UNCHANGED <<tokenVars, row, late, by, pairVars, told>>

Next ==
  \/ \E s \in Hosted : CreateRequest(s)
  \/ \E s \in Hosted, m \in Merchants :
       Register(s, m) \/ \E gen \in 1..MaxKeys : Link(s, m, gen)
  \/ \E s \in Direct, m \in Merchants : StageDirect(s, m)
  \/ \E p \in Pages :
       \/ \E s \in Sessions : ConfirmStarts(p, s) \/ Cancel(p, s)
       \/ ConfirmFindsNone(p) \/ ConfirmLoses(p) \/ ConfirmWins(p)
       \/ ConfirmCollides(p) \/ Lost(p) \/ Look(p)
       \/ \E m \in Merchants : Authenticate(p, m)
       \/ \E x \in Pairings : Mint(p, x)
       \/ \E s \in Hosted : TakeReserved(p, s)
       \/ Redeem(p) \/ ReadKey(p) \/ ApprovePaired(p) \/ Drop(p)
  \/ \E s \in Hosted, x \in Pairings : Reserve(s, x)
  \/ \E c \in Calls : Serve(c) \/ ChangeKey(c)
  \/ \E s \in Sessions : Lapse(s)
  \/ \E x \in Pairings : LapsePairing(x)
  \/ TokenClock

Spec == Init /\ [][Next]_<<tokenVars, signInVars>>

---------------------------------------------------------------------------
(* An answer about a registration stays true.  A session told that it was  *)
(* canceled, or that its handle was taken, never makes a merchant and      *)
(* never gets an authorization code, whatever confirmations of it are      *)
(* still running; one told it was confirmed is the one session that made   *)
(* the merchant of that handle.                                            *)
AnswersHold ==
  \A s \in Sessions :
    /\ told[s] \cap {"canceled", "handle_taken"} # {} =>
         /\ \A m \in Merchants : by[m] # s
         /\ s \in Hosted => code[s].state = "none"
    /\ "confirmed" \in told[s] =>
         \E m \in Merchants : by[m] = s /\ key[m] > 0 /\ row[s].handle = m

(* A pairing code approves at most one sign-in, for the merchant that      *)
(* minted it, and the codes that can still be redeemed were stored under   *)
(* the key the merchant has: a key change ends those before it.            *)
PairsOnce ==
  /\ \A s, r \in Hosted :
       redeemed[s] # None /\ redeemed[s] = redeemed[r] => s = r
  /\ \A s \in Hosted : redeemed[s] # None =>
       code[s].merchant = pairing[redeemed[s]].merchant
  /\ \A x \in Pairings : pairing[x].state = "unused" =>
       pairing[x].gen = key[pairing[x].merchant]

(* What the docs say of a pairing code: one minted with a key is no good   *)
(* once that key was replaced, so a sign-in approved by a pairing code is  *)
(* approved under the key that minted it.                                  *)
CodeDiesWithItsKey ==
  \A s \in Hosted : redeemed[s] # None => code[s].gen = pairing[redeemed[s]].proof

GrantDiesWithKey == Tokens!GrantDiesWithKey
SpentOnce        == Tokens!SpentOnce
ReplayEndsFamily == Tokens!ReplayEndsFamily

(* Whatever the pages do, the grants behave as OAuthTokens says. *)
ImplementsTokens == Tokens!Spec
=============================================================================
