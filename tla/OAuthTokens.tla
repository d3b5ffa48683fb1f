----------------------------- MODULE OAuthTokens -----------------------------
(***************************************************************************)
(* What a hosted sign-in grants: src/market-oauth-store.ts from the        *)
(* authorization code on, src/market-oauth-token.ts, what the two key      *)
(* changes do to them (src/market-identity-store.ts,                       *)
(* src/market-identity-recovery-store.ts), and the tables                  *)
(* oauth_authorization_codes, oauth_token_families and oauth_tokens.       *)
(*                                                                         *)
(* A grant gives one authorization code.  The code buys a family of        *)
(* tokens, one refresh token at first; each refresh token buys the next    *)
(* one.  Presenting a spent refresh token revokes its family, and so does  *)
(* a change of the merchant's key, which also uses up its codes.  A        *)
(* statement sees what was committed when it started (READ COMMITTED) and  *)
(* rechecks only the rows it updates: what it saw of other rows is in the  *)
(* record of the call.                                                     *)
(***************************************************************************)
EXTENDS Integers, FiniteSets

CONSTANTS
  Merchants,  \* merchants, by handle
  Grants,     \* approvals of a sign-in, each with its authorization code
  Calls,      \* concurrently running requests
  None,       \* no merchant, grant or call
  MaxKeys,    \* bound: keys a merchant ever has
  MaxTokens   \* bound: refresh tokens of a family

\* What the names must satisfy: the assumption of HostedSignIn gives it.
OAuthAssumption ==
  /\ MaxKeys \in Nat \ {0} /\ MaxTokens \in Nat \ {0}
  /\ None \notin Merchants \cup Grants \cup Calls

VARIABLES
  key,       \* generation of the key of each merchant; 0: no such merchant
  holder,    \* the key change that holds the merchant row FOR UPDATE
  code,      \* table oauth_authorization_codes
  family,    \* table oauth_token_families, by the grant that paid for it
  token,     \* the refresh tokens of oauth_tokens, in order of issue
  marked,    \* the tokens with revoked_at set
  due,       \* the clock: how near the family is to expires_at
  call,      \* the state of each running request
  spent,     \* history: pairs handed out for each code (0) and token
  replayed   \* history: grants one of whose spent tokens was answered

tokenVars == <<key, holder, code, family, token, marked, due, call, spent,
               replayed>>

Numbers == 1..MaxTokens

Code == [state    : {"none", "issued", "used", "lapsed"},
         merchant : Merchants \cup {None},
         gen      : 0..MaxKeys]         \* the key it was approved with

Seen == [codes : SUBSET Grants, families : SUBSET Grants,
         tokens : SUBSET (Grants \X Numbers)]

NothingSeen == [codes |-> {}, families |-> {}, tokens |-> {}]

Call == [pc       : {"idle", "exchange", "start", "rotate", "reuse", "revoke",
                     "change"},
         grant    : Grants \cup {None},
         merchant : Merchants \cup {None},
         n        : 0..MaxTokens,
         late     : BOOLEAN,    \* the token presented was found spent
         alive    : BOOLEAN,    \* the family was alive in the snapshot
         seen     : Seen]       \* the rows of the snapshot

Idle == [pc |-> "idle", grant |-> None, merchant |-> None, n |-> 0,
         late |-> FALSE, alive |-> FALSE, seen |-> NothingSeen]

TypeOK ==
  /\ key \in [Merchants -> 0..MaxKeys]
  /\ holder \in [Merchants -> Calls \cup {None}]
  /\ code \in [Grants -> Code]
  /\ family \in [Grants -> {"none", "active", "revoked"}]
  /\ token \in [Grants -> [Numbers -> {"none", "live", "spent"}]]
  /\ marked \in [Grants -> SUBSET Numbers]
  /\ due \in [Grants -> {"fresh", "closing", "over"}]
  /\ call \in [Calls -> Call]
  /\ spent \in [Grants -> [0..MaxTokens -> 0..2]]
  /\ replayed \subseteq Grants

Init ==
  /\ key = [m \in Merchants |-> 0]
  /\ holder = [m \in Merchants |-> None]
  /\ code = [g \in Grants |-> [state |-> "none", merchant |-> None, gen |-> 0]]
  /\ family = [g \in Grants |-> "none"]
  /\ token = [g \in Grants |-> [n \in Numbers |-> "none"]]
  /\ marked = [g \in Grants |-> {}]
  /\ due = [g \in Grants |-> "fresh"]
  /\ call = [c \in Calls |-> Idle]
  /\ spent = [g \in Grants |-> [n \in 0..MaxTokens |-> 0]]
  /\ replayed = {}

---------------------------------------------------------------------------
Alive(g) == family[g] = "active" /\ due[g] # "over"

(* The next token is written with a fresh hash: the next free number. *)
Free(g, n) == token[g][n] = "none" /\ \A k \in 1..(n - 1) : token[g][k] # "none"

Stands(g, m) == code[g].state # "none" /\ code[g].merchant = m

(* What a key change of m updates, as one snapshot shows it. *)
SnapshotOf(m) ==
  [codes    |-> {g \in Grants : Stands(g, m)},
   families |-> {g \in Grants : Stands(g, m) /\ family[g] # "none"},
   tokens   |-> {x \in Grants \X Numbers :
                   Stands(x[1], m) /\ token[x[1]][x[2]] # "none"}]

SnapshotOfFamily(g) ==
  [codes |-> {}, families |-> {g},
   tokens |-> {x \in {g} \X Numbers : token[g][x[2]] # "none"}]

Revoked(gs) == [g \in Grants |-> IF g \in gs THEN "revoked" ELSE family[g]]

Marked(xs) == [g \in Grants |-> marked[g] \cup {n \in Numbers : <<g, n>> \in xs}]

(* A handed-out pair counts once, twice, or more than once. *)
Handed(count) == IF count = 0 THEN 1 ELSE 2

(* The answer to a call that presented a refresh token. *)
Answered(c, late) ==
  /\ call' = [call EXCEPT ![c] = Idle]
  /\ replayed' = IF late THEN replayed \cup {call[c].grant} ELSE replayed

---------------------------------------------------------------------------
(* Merchants and grants.  The sign-in decides when: HostedSignIn.          *)

\* Mutant of Issue: the code carries the key the caller proved before the
\* merchant row was locked.
IssueUnderOldKey(g, m) ==
  [code EXCEPT ![g] = [state |-> "issued", merchant |-> m,
                       gen |-> IF key[m] > 1 THEN key[m] - 1 ELSE key[m]]]

\* Mutant of Issue: the code counts the key change it is waiting for.
IssueAhead(g, m) ==
  [code EXCEPT ![g] = [state |-> "issued", merchant |-> m, gen |-> key[m] + 1]]

Issue(g, m) ==
  [code EXCEPT ![g] = [state |-> "issued", merchant |-> m, gen |-> key[m]]]

Join(m) ==
  /\ key[m] = 0
  /\ key' = [key EXCEPT ![m] = 1]
  /\ UNCHANGED <<holder, code, family, token, marked, due, call, spent,
                 replayed>>

JoinAndGrant(g, m) ==
  /\ key[m] = 0 /\ code[g].state = "none"
  /\ key' = [key EXCEPT ![m] = 1]
  /\ code' = [code EXCEPT ![g] = [state |-> "issued", merchant |-> m, gen |-> 1]]
  /\ UNCHANGED <<holder, family, token, marked, due, call, spent, replayed>>

(* The approval of an existing merchant waits for its row, then compares   *)
(* the key under the lock.                                                 *)
Grant(g, m) ==
  /\ key[m] > 0 /\ holder[m] = None /\ code[g].state = "none"
  /\ code' = Issue(g, m)
  /\ UNCHANGED <<key, holder, family, token, marked, due, call, spent,
                 replayed>>

---------------------------------------------------------------------------
(* POST /oauth/token, grant_type authorization_code                        *)

ReadCode(c, g) ==
  /\ call[c] = Idle /\ code[g].state = "issued"
  /\ call' = [call EXCEPT ![c] = [Idle EXCEPT !.pc = "exchange", !.grant = g]]
  /\ UNCHANGED <<key, holder, code, family, token, marked, due, spent, replayed>>

\* Mutant of Unspent: the recheck of the code under the lock is lost.
ReadUnspent(g) == TRUE

Unspent(g) == code[g].state = "issued"

\* Mutant of Unlocked: the exchange does not wait for the merchant row.
Unguarded(m) == TRUE

Unlocked(m) == holder[m] = None

Buy(g) ==
  /\ code' = [code EXCEPT ![g].state = "used"]
  /\ family' = [family EXCEPT ![g] = "active"]
  /\ token' = [token EXCEPT ![g][1] = "live"]
  /\ spent' = [spent EXCEPT ![g][0] = Handed(@)]

Exchange(c) ==
  LET g == call[c].grant IN
  /\ call[c].pc = "exchange"
  /\ Unlocked(code[g].merchant)
  /\ IF Unspent(g) THEN Buy(g) ELSE UNCHANGED <<code, family, token, spent>>
  /\ call' = [call EXCEPT ![c] = Idle]
  /\ UNCHANGED <<key, holder, marked, due, replayed>>

---------------------------------------------------------------------------
(* POST /oauth/token, grant_type refresh_token                             *)

(* resolveRefreshRateLimitSubject: junk goes no further. *)
Subject(g, n) ==
  IF token[g][n] = "spent"
  THEN IF n \notin marked[g] /\ Alive(g) THEN "reused" ELSE "junk"
  ELSE IF n \notin marked[g] /\ family[g] = "active" /\ due[g] = "fresh"
       THEN "active" ELSE "junk"

Present(c, g, n) ==
  /\ call[c] = Idle
  /\ token[g][n] = "spent" \/ (token[g][n] = "live" /\ n < MaxTokens)
  /\ IF Subject(g, n) = "junk"
     THEN /\ replayed' = IF token[g][n] = "spent" THEN replayed \cup {g}
                                                  ELSE replayed
          /\ UNCHANGED call
     ELSE /\ call' = [call EXCEPT ![c] =
                        [Idle EXCEPT !.pc = "start", !.grant = g, !.n = n,
                                     !.late = token[g][n] = "spent"]]
          /\ UNCHANGED replayed
  /\ UNCHANGED <<key, holder, code, family, token, marked, due, spent>>

(* The statement starts: it sees the family as it is now.  A family that   *)
(* is about to expire gives no more tokens.                                *)
RotateStarts(c) ==
  LET g == call[c].grant IN
  /\ call[c].pc = "start"
  /\ call' = [call EXCEPT ![c].pc = "rotate",
                          ![c].alive = family[g] = "active" /\ due[g] = "fresh"]
  /\ UNCHANGED <<key, holder, code, family, token, marked, due, spent, replayed>>

\* Mutant of Rotatable: used_at IS NULL is judged in the snapshot only.
RotatableOnce(c) ==
  /\ call[c].alive /\ ~call[c].late
  /\ call[c].n \notin marked[call[c].grant]

(* The token row is rechecked, the family row is not. *)
Rotatable(c) ==
  /\ call[c].alive
  /\ token[call[c].grant][call[c].n] = "live"
  /\ call[c].n \notin marked[call[c].grant]

Rotate(c) ==
  LET g == call[c].grant IN
  /\ call[c].pc = "rotate" /\ Rotatable(c)
  /\ \E n \in Numbers :
       /\ Free(g, n)
       /\ token' = [token EXCEPT ![g][call[c].n] = "spent",
                                 ![g][n] = "live"]
  /\ spent' = [spent EXCEPT ![g][call[c].n] = Handed(@)]
  /\ Answered(c, call[c].late)
  /\ UNCHANGED <<key, holder, code, family, marked, due>>

(* No row: revokeReusedRefreshToken asks whether the token was spent. *)
RotateFails(c) ==
  /\ call[c].pc = "rotate" /\ ~Rotatable(c)
  /\ call' = [call EXCEPT ![c].pc = "reuse"]
  /\ UNCHANGED <<key, holder, code, family, token, marked, due, spent, replayed>>

ReuseStarts(c) ==
  LET g == call[c].grant IN
  /\ call[c].pc = "reuse"
  /\ IF token[g][call[c].n] = "spent"
     THEN /\ call' = [call EXCEPT ![c].pc = "revoke", ![c].late = TRUE,
                                  ![c].seen = SnapshotOfFamily(g)]
          /\ UNCHANGED replayed
     ELSE Answered(c, call[c].late)
  /\ UNCHANGED <<key, holder, code, family, token, marked, due, spent>>

(* POST /oauth/revoke with any token of the family *)
RevokeStarts(c, g) ==
  /\ call[c] = Idle /\ family[g] # "none"
  /\ call' = [call EXCEPT ![c] = [Idle EXCEPT !.pc = "revoke", !.grant = g,
                                              !.seen = SnapshotOfFamily(g)]]
  /\ UNCHANGED <<key, holder, code, family, token, marked, due, spent, replayed>>

\* Mutant of Revoke: the tokens of the snapshot are revoked, not the family.
RevokeTokens(seen) == family' = family /\ marked' = Marked(seen.tokens)

Revoke(seen) ==
  /\ family' = Revoked(seen.families)
  /\ marked' = Marked(seen.tokens)

Revokes(c) ==
  /\ call[c].pc = "revoke"
  /\ Revoke(call[c].seen)
  /\ Answered(c, call[c].late)
  /\ UNCHANGED <<key, holder, code, token, due, spent>>

---------------------------------------------------------------------------
(* A rotation or recovery of the key.  KeyCeremony says when one happens:   *)
(* here its transaction locks the merchant row, and its second statement    *)
(* works on what is committed then.                                        *)

ChangeLocks(c, m) ==
  /\ call[c] = Idle
  /\ holder[m] = None /\ key[m] \in 1..(MaxKeys - 1)
  /\ holder' = [holder EXCEPT ![m] = c]
  /\ call' = [call EXCEPT ![c] = [Idle EXCEPT !.pc = "change", !.merchant = m,
                                              !.seen = SnapshotOf(m)]]
  /\ UNCHANGED <<key, code, family, token, marked, due, spent, replayed>>

\* Mutant of UsedUp: the codes that were approved but not exchanged stay.
NoneUsedUp(gs) == code

UsedUp(gs) ==
  [g \in Grants |-> IF g \in gs /\ code[g].state = "issued"
                    THEN [code[g] EXCEPT !.state = "used"] ELSE code[g]]

ChangeKey(c) ==
  LET m == call[c].merchant IN
  /\ call[c].pc = "change"
  /\ key' = [key EXCEPT ![m] = @ + 1]
  /\ holder' = [holder EXCEPT ![m] = None]
  /\ code' = UsedUp(call[c].seen.codes)
  /\ family' = Revoked(call[c].seen.families)
  /\ marked' = Marked(call[c].seen.tokens)
  /\ call' = [call EXCEPT ![c] = Idle]
  /\ UNCHANGED <<token, due, spent, replayed>>

---------------------------------------------------------------------------
(* The clock, and requests that end without an answer: a crash, a storage  *)
(* error, a refusal by a rate limit, a change that found nothing to do.    *)

CodeLapses(g) ==
  /\ code[g].state = "issued"
  /\ code' = [code EXCEPT ![g].state = "lapsed"]
  /\ UNCHANGED <<key, holder, family, token, marked, due, call, spent, replayed>>

FamilyAges(g) ==
  /\ family[g] # "none" /\ due[g] # "over"
  /\ due' = [due EXCEPT ![g] = IF @ = "fresh" THEN "closing" ELSE "over"]
  /\ UNCHANGED <<key, holder, code, family, token, marked, call, spent, replayed>>

Abandon(c) ==
  /\ call[c] # Idle
  /\ call' = [call EXCEPT ![c] = Idle]
  /\ holder' = [m \in Merchants |-> IF holder[m] = c THEN None ELSE holder[m]]
  /\ UNCHANGED <<key, code, family, token, marked, due, spent, replayed>>

Serve(c) ==
  \/ \E g \in Grants : \/ ReadCode(c, g)
                       \/ RevokeStarts(c, g)
                       \/ \E n \in Numbers : Present(c, g, n)
  \/ Exchange(c) \/ RotateStarts(c) \/ Rotate(c) \/ RotateFails(c)
  \/ ReuseStarts(c) \/ Revokes(c)
  \/ \E m \in Merchants : ChangeLocks(c, m)
  \/ Abandon(c)

Clock == \E g \in Grants : CodeLapses(g) \/ FamilyAges(g)

Next ==
  \/ \E m \in Merchants : Join(m)
  \/ \E g \in Grants, m \in Merchants : JoinAndGrant(g, m) \/ Grant(g, m)
  \/ \E c \in Calls : Serve(c) \/ ChangeKey(c)
  \/ Clock

Spec == Init /\ [][Next]_tokenVars

---------------------------------------------------------------------------
(* A key change ends everything its old key approved: an authorization code *)
(* that can still be exchanged and a family that still answers were        *)
(* approved with the key the merchant has now.  The change and the         *)
(* exchange meet on the merchant row; without that lock a family bought    *)
(* while the change runs would outlive it.                                 *)
GrantDiesWithKey ==
  \A g \in Grants :
    code[g].state = "issued" \/ family[g] = "active"
      => code[g].gen = key[code[g].merchant]

(* A code and a refresh token each buy one pair of tokens, however many    *)
(* requests present them at once, and a family has one live refresh token. *)
SpentOnce ==
  \A g \in Grants :
    /\ \A n \in 0..MaxTokens : spent[g][n] <= 1
    /\ \A n, k \in Numbers :
         token[g][n] = "live" /\ token[g][k] = "live" => n = k

(* Once a request that presented a spent refresh token has its answer, no  *)
(* token of that family is good any more: the family is revoked or over.   *)
ReplayEndsFamily == \A g \in replayed : ~Alive(g)
=============================================================================
