------------------------- MODULE HostedSignIn_proofs -------------------------
(***************************************************************************)
(* The sign-in, for every set of merchants, sessions, pairing codes and    *)
(* requests: the grants behave as OAuthTokens says, and so whatever is     *)
(* proved of them holds here; a registration's answer stays true; and a    *)
(* pairing code approves one sign-in.                                      *)
(*                                                                         *)
(* The grants need one fact of the pages, that a session without approval  *)
(* has no code (Unapproved).  The answers need to know what row and        *)
(* merchant a confirmation under way belongs to (Signs), and the pairing   *)
(* codes that between their redemption and the approval they are in one    *)
(* page's hands (Held).                                                    *)
(***************************************************************************)
EXTENDS HostedSignIn, TLAPS

Granted == INSTANCE OAuthTokens_proofs WITH Grants <- Hosted

---------------------------------------------------------------------------
(* The invariant of the pages.                                             *)

SignInTypes ==
  /\ row \in [Sessions -> Row]
  /\ late \subseteq Sessions
  /\ by \in [Merchants -> Sessions \cup {None}]
  /\ pairing \in [Pairings -> Pairing]
  /\ reserved \in [Hosted -> Pairings \cup {None}]
  /\ page \in [Pages -> Page]
  /\ told \in [Sessions -> SUBSET Answers]
  /\ redeemed \in [Hosted -> Pairings \cup {None}]

\* What a page works on.
Remembers ==
  \A p \in Pages :
    LET g == page[p] IN
    /\ g.pc \in {"confirm", "lost"} => g.session \in Sessions /\ g.merchant \in Merchants
    /\ g.pc = "look" => g.session \in Sessions
    /\ g.pc = "mint" => g.merchant \in Merchants /\ key[g.merchant] > 0
    /\ g.pc \in {"redeem", "key", "approve"} => g.session \in Hosted /\ g.pairing \in Pairings
    /\ g.pc \in {"key", "approve"} => g.merchant \in Merchants

\* A session without approval has no authorization code.
Unapproved ==
  \A s \in Hosted :
    row[s].state \notin {"confirmed", "linked"} => code[s].state = "none"

\* A staged or confirmed row has a handle, and a minted code a merchant.
Named ==
  /\ \A s \in Sessions : row[s].state \in {"staged", "confirmed"}
                           => row[s].handle \in Merchants
  /\ \A x \in Pairings : pairing[x].state # "none" => pairing[x].merchant \in Merchants

PageInv == SignInTypes /\ Remembers /\ Unapproved /\ Named

---------------------------------------------------------------------------
(* The grants are those of OAuthTokens.                                    *)

LEMMA Assumed == Granted!OAuthAssumption
BY SignInAssumption DEF Granted!OAuthAssumption

\* The two instances of OAuthTokens are one.
LEMMA SameInit == Tokens!Init => Granted!Init
BY DEF Tokens!Init, Granted!Init, Tokens!Idle, Granted!Idle, Tokens!NothingSeen,
       Granted!NothingSeen, Tokens!Numbers, Granted!Numbers

LEMMA SameRequests ==
  ASSUME NEW c \in Calls
  PROVE  /\ Tokens!Serve(c) => Granted!Serve(c)
         /\ Tokens!ChangeKey(c) <=> Granted!ChangeKey(c)
BY DEF Tokens!Serve, Granted!Serve, Tokens!ReadCode, Granted!ReadCode,
       Tokens!RevokeStarts, Granted!RevokeStarts, Tokens!Present, Granted!Present,
       Tokens!Subject, Granted!Subject, Tokens!Alive, Granted!Alive, Tokens!Exchange,
       Granted!Exchange, Tokens!Unlocked, Granted!Unlocked, Tokens!Unspent,
       Granted!Unspent, Tokens!Buy, Granted!Buy, Tokens!RotateStarts,
       Granted!RotateStarts, Tokens!Rotate, Granted!Rotate, Tokens!Rotatable,
       Granted!Rotatable, Tokens!Answered, Granted!Answered, Tokens!Free,
       Granted!Free, Tokens!Handed, Granted!Handed, Tokens!Numbers, Granted!Numbers,
       Tokens!Idle, Granted!Idle, Tokens!NothingSeen, Granted!NothingSeen,
       Tokens!RotateFails, Granted!RotateFails, Tokens!ReuseStarts,
       Granted!ReuseStarts, Tokens!SnapshotOfFamily, Granted!SnapshotOfFamily,
       Tokens!Revokes, Granted!Revokes, Tokens!Revoke, Granted!Revoke, Tokens!Revoked,
       Granted!Revoked, Tokens!Marked, Granted!Marked, Tokens!ChangeLocks,
       Granted!ChangeLocks, Tokens!SnapshotOf, Granted!SnapshotOf, Tokens!Stands,
       Granted!Stands, Tokens!ChangeKey, Granted!ChangeKey, Tokens!UsedUp,
       Granted!UsedUp, Tokens!Abandon, Granted!Abandon, Tokens!Issue, Granted!Issue

LEMMA SameClock == Tokens!Clock => Granted!Clock
BY DEF Tokens!Clock, Granted!Clock, Tokens!CodeLapses, Granted!CodeLapses,
       Tokens!FamilyAges, Granted!FamilyAges

LEMMA SameNext == Tokens!Next => Granted!Next
BY SameRequests, SameClock
   DEF Tokens!Next, Granted!Next, Tokens!Join, Granted!Join, Tokens!JoinAndGrant,
       Granted!JoinAndGrant, Tokens!Grant, Granted!Grant, Tokens!Issue, Granted!Issue

(* Given the invariant of the grants, every step of the sign-in is one of  *)
(* theirs, or leaves them alone.                                           *)
LEMMA ApproveGrants ==
  ASSUME PageInv, NEW s \in Hosted, NEW m \in Merchants, NEW gen, Approve(s, m, gen)
  PROVE  Tokens!Grant(s, m) \/ UNCHANGED tokenVars
<1>1. CASE row[s].state = "initial" /\ Open(s) /\ KeyMatches(m, gen)
  <2>1. code[s].state = "none"
    BY <1>1 DEF PageInv, Unapproved
  <2>2. key[m] > 0 /\ holder[m] = None /\ code' = Tokens!Issue(s, m)
    BY <1>1 DEF Approve, KeyMatches, Lockable
  <2> QED
    BY <2>1, <2>2 DEF Approve, Tokens!Grant
<1>2. CASE ~(row[s].state = "initial" /\ Open(s) /\ KeyMatches(m, gen))
  BY <1>2 DEF Approve, tokenVars
<1> QED
  BY <1>1, <1>2

LEMMA GrantStep ==
  ASSUME Granted!Inv, PageInv, [Next]_<<tokenVars, signInVars>>
  PROVE  [Tokens!Next]_tokenVars
<1>1. ASSUME NEW c \in Calls, Serve(c) \/ ChangeKey(c) \/ TokenClock PROVE Tokens!Next
  BY <1>1 DEF Serve, ChangeKey, TokenClock, Tokens!Next
<1>2. ASSUME TokenClock PROVE Tokens!Next
  BY <1>2 DEF TokenClock, Tokens!Next
<1>3. ASSUME NEW p \in Pages, ConfirmWins(p) PROVE Tokens!Next
  <2> DEFINE s == page[p].session
             m == page[p].merchant
  <2>1. s \in Sessions /\ m \in Merchants /\ row[s].state = "staged" /\ ~(key[m] > 0)
    BY <1>3 DEF ConfirmWins, PageInv, Remembers, Taken
  <2>2. key[m] = 0
    BY <2>1 DEF Granted!Inv, Granted!TypeOK
  <2>3. CASE s \in Hosted
    <3>1. code[s].state = "none"
      BY <2>1, <2>3 DEF PageInv, Unapproved
    <3>2. Tokens!JoinAndGrant(s, m)
      BY <1>3, <2>2, <2>3, <3>1 DEF ConfirmWins, Tokens!JoinAndGrant
    <3> QED
      BY <2>1, <2>3, <3>2 DEF Tokens!Next
  <2>4. CASE s \notin Hosted
    <3>1. Tokens!Join(m)
      BY <1>3, <2>2, <2>4 DEF ConfirmWins, Tokens!Join
    <3> QED
      BY <2>1, <3>1 DEF Tokens!Next
  <2> QED
    BY <2>3, <2>4
<1>4. ASSUME NEW s \in Hosted, NEW m \in Merchants, NEW gen \in 1..MaxKeys, Link(s, m, gen)
      PROVE  Tokens!Next \/ UNCHANGED tokenVars
  BY <1>4, ApproveGrants DEF Link, Tokens!Next
<1>5. ASSUME NEW p \in Pages, ApprovePaired(p)
      PROVE  Tokens!Next \/ UNCHANGED tokenVars
  <2>1. page[p].session \in Hosted /\ page[p].merchant \in Merchants
    BY <1>5 DEF ApprovePaired, PageInv, Remembers
  <2> QED
    BY <1>5, <2>1, ApproveGrants DEF ApprovePaired, Tokens!Next
<1>6. ASSUME NEW p \in Pages,
             \/ \E s \in Sessions : ConfirmStarts(p, s) \/ Cancel(p, s)
             \/ ConfirmFindsNone(p) \/ ConfirmLoses(p) \/ ConfirmCollides(p)
             \/ Lost(p) \/ Look(p)
             \/ \E m \in Merchants : Authenticate(p, m)
             \/ \E x \in Pairings : Mint(p, x)
             \/ \E s \in Hosted : TakeReserved(p, s)
             \/ Redeem(p) \/ ReadKey(p) \/ Drop(p)
      PROVE  UNCHANGED tokenVars
  BY <1>6 DEF ConfirmStarts, Cancel, ConfirmFindsNone, ConfirmLoses, ConfirmCollides, Lost,
     Look, Authenticate, Mint, TakeReserved, Redeem, ReadKey, Drop
<1>7. ASSUME \/ \E s \in Hosted : CreateRequest(s)
             \/ \E s \in Hosted, m \in Merchants : Register(s, m)
             \/ \E s \in Direct, m \in Merchants : StageDirect(s, m)
             \/ \E s \in Hosted, x \in Pairings : Reserve(s, x)
             \/ \E s \in Sessions : Lapse(s)
             \/ \E x \in Pairings : LapsePairing(x)
      PROVE  UNCHANGED tokenVars
  BY <1>7 DEF CreateRequest, Register, StageDirect, Reserve, Lapse, LapsePairing
<1> QED
  BY <1>1, <1>2, <1>3, <1>4, <1>5, <1>6, <1>7 DEF Next

---------------------------------------------------------------------------
(* Types of the pages.                                                     *)

LEMMA BlankType == Blank \in Page /\ 0 \in 0..MaxKeys
BY SignInAssumption DEF Blank, Page

LEMMA PageMoves ==
  ASSUME SignInTypes, NEW p \in Pages, NEW y, page' = [page EXCEPT ![p] = y]
  PROVE  /\ page'[p] = y /\ \A q \in Pages \ {p} : page'[q] = page[q]
         /\ y \in Page => page' \in [Pages -> Page]
BY DEF SignInTypes

LEMMA RowMoves ==
  ASSUME SignInTypes, NEW s \in Sessions, NEW y \in Row
  PROVE  /\ [row EXCEPT ![s] = y] \in [Sessions -> Row]
         /\ [row EXCEPT ![s] = y][s] = y
         /\ \A r \in Sessions \ {s} : [row EXCEPT ![s] = y][r] = row[r]
BY DEF SignInTypes

\* A page, one field at a time.
LEMMA PageFields ==
  ASSUME NEW g \in Page
  PROVE  /\ \A l \in {"lost", "look", "key", "approve"} : [g EXCEPT !.pc = l] \in Page
         /\ \A m \in Merchants : [g EXCEPT !.pc = "key", !.merchant = m] \in Page
         /\ \A k \in 0..MaxKeys : [g EXCEPT !.pc = "approve", !.gen = k] \in Page
BY DEF Page

LEMMA NewPages ==
  ASSUME SignInTypes
  PROVE  /\ \A s \in Sessions : Looking(s) \in Page
         /\ \A s \in Sessions : Confirming(s) \in Page
         /\ \A m \in Merchants, k \in 0..MaxKeys :
              [Blank EXCEPT !.pc = "mint", !.merchant = m, !.gen = k] \in Page
         /\ \A s \in Hosted, x \in Pairings :
              [Blank EXCEPT !.pc = "redeem", !.session = s, !.pairing = x] \in Page
<1>1. ASSUME NEW s \in Sessions PROVE Looking(s) \in Page
  BY BlankType DEF Looking, Blank, Page
<1>2. ASSUME NEW s \in Sessions PROVE Confirming(s) \in Page
  <2>1. row[s].handle \in Merchants \cup {None}
    BY DEF SignInTypes, Row
  <2>2. Taken(row[s].handle) \in BOOLEAN
    BY DEF Taken
  <2> QED
    BY <2>1, <2>2, BlankType DEF Confirming, Blank, Page
<1>3. ASSUME NEW m \in Merchants, NEW k \in 0..MaxKeys
      PROVE  [Blank EXCEPT !.pc = "mint", !.merchant = m, !.gen = k] \in Page
  BY BlankType DEF Blank, Page
<1>4. ASSUME NEW s \in Hosted, NEW x \in Pairings
      PROVE  [Blank EXCEPT !.pc = "redeem", !.session = s, !.pairing = x] \in Page
  BY BlankType DEF Blank, Page, Sessions
<1> QED
  BY <1>1, <1>2, <1>3, <1>4

LEMMA SweptType ==
  ASSUME SignInTypes, NEW ss
  PROVE  Swept(ss) \in [Sessions -> Row]
BY DEF SignInTypes, Swept, Row

---------------------------------------------------------------------------
(* What a step does to a page, a row and a pairing code.                   *)

\* A page opens, goes on or is over.
PageMove(p) ==
  LET g == page[p]  h == page'[p] IN
  \/ h = Blank
  \/ \E s \in Sessions : h = Looking(s)
  \/ \E s \in Sessions : h = Confirming(s) /\ row[s].state = "staged" /\ UNCHANGED row
  \/ g.pc = "confirm" /\ h = [g EXCEPT !.pc = "look"]
  \/ /\ g.pc = "confirm" /\ h = [g EXCEPT !.pc = "lost"]
     /\ row[g.session].state = "staged" /\ key[g.merchant] > 0 /\ UNCHANGED <<row, key>>
  \/ \E m \in Merchants : /\ key[m] > 0
                          /\ h = [Blank EXCEPT !.pc = "mint", !.merchant = m,
                                               !.gen = key[m]]
  \/ \E s \in Hosted, x \in Pairings :
       h = [Blank EXCEPT !.pc = "redeem", !.session = s, !.pairing = x]
  \/ g.pc = "redeem" /\ Redeem(p) /\ pairing[g.pairing].state = "unused"
     /\ h = [g EXCEPT !.pc = "key", !.merchant = pairing[g.pairing].merchant]
  \/ g.pc = "key" /\ h = [g EXCEPT !.pc = "approve", !.gen = key[g.merchant]]

LEMMA OnePageMoves ==
  ASSUME PageInv, NEW p \in Pages, NEW y, page' = [page EXCEPT ![p] = y],
         page'[p] = y => PageMove(p)
  PROVE  /\ page' = [q \in Pages |-> page'[q]]
         /\ \A q \in Pages : page'[q] = page[q] \/ PageMove(q)
<1>1. page \in [Pages -> Page]
  BY DEF PageInv, SignInTypes
<1>2. page' = [q \in Pages |-> page'[q]] /\ page'[p] = y
      /\ \A q \in Pages \ {p} : page'[q] = page[q]
  BY <1>1
<1> QED
  BY <1>2

LEMMA PagesMove ==
  ASSUME PageInv, [Next]_<<tokenVars, signInVars>>
  PROVE  /\ page' = [q \in Pages |-> page'[q]]
         /\ \A q \in Pages : page'[q] = page[q] \/ PageMove(q)
<1> DEFINE Goal == /\ page' = [q \in Pages |-> page'[q]]
                   /\ \A q \in Pages : page'[q] = page[q] \/ PageMove(q)
<1>1. CASE UNCHANGED page
  <2>1. page \in [Pages -> Page]
    BY DEF PageInv, SignInTypes
  <2> QED
    BY <1>1, <2>1
<1>2. ASSUME NEW p \in Pages, page' = [page EXCEPT ![p] = Blank] PROVE Goal
  BY <1>2, OnePageMoves DEF PageMove
<1>3. ASSUME NEW p \in Pages, NEW s \in Sessions, ConfirmStarts(p, s) PROVE Goal
  <2>1. CASE row[s].state = "staged" /\ Open(s)
    <3>1. page' = [page EXCEPT ![p] = Confirming(s)] /\ UNCHANGED row
      BY <1>3, <2>1 DEF ConfirmStarts
    <3> QED
      BY <2>1, <3>1, OnePageMoves DEF PageMove
  <2>2. CASE ~(row[s].state = "staged" /\ Open(s))
    <3>1. page' = [page EXCEPT ![p] = Looking(s)]
      BY <1>3, <2>2 DEF ConfirmStarts
    <3> QED
      BY <3>1, OnePageMoves DEF PageMove
  <2> QED
    BY <2>1, <2>2
<1>4. ASSUME NEW p \in Pages, NEW s \in Sessions, Cancel(p, s) PROVE Goal
  <2>1. CASE Cancelable(s)
    BY <1>1, <1>4, <2>1 DEF Cancel
  <2>2. CASE ~Cancelable(s)
    <3>1. page' = [page EXCEPT ![p] = Looking(s)]
      BY <1>4, <2>2 DEF Cancel
    <3> QED
      BY <3>1, OnePageMoves DEF PageMove
  <2> QED
    BY <2>1, <2>2
<1>5. ASSUME NEW p \in Pages, ConfirmFindsNone(p) PROVE Goal
  <2>1. page' = [page EXCEPT ![p] = [page[p] EXCEPT !.pc = "look"]]
        /\ page[p].pc = "confirm"
    BY <1>5 DEF ConfirmFindsNone
  <2> QED
    BY <2>1, OnePageMoves DEF PageMove
<1>6. ASSUME NEW p \in Pages, ConfirmCollides(p) PROVE Goal
  <2>1. /\ page' = [page EXCEPT ![p] = [page[p] EXCEPT !.pc = "lost"]]
        /\ page[p].pc = "confirm" /\ row[page[p].session].state = "staged"
        /\ key[page[p].merchant] > 0 /\ UNCHANGED <<row, key>>
    BY <1>6 DEF ConfirmCollides, Taken, tokenVars
  <2> QED
    BY <2>1, OnePageMoves DEF PageMove
<1>7. ASSUME NEW p \in Pages, NEW m \in Merchants, Authenticate(p, m) PROVE Goal
  <2>1. /\ page' = [page EXCEPT ![p] = [Blank EXCEPT !.pc = "mint", !.merchant = m,
                                                     !.gen = key[m]]]
        /\ key[m] > 0
    BY <1>7 DEF Authenticate
  <2> QED
    BY <2>1, OnePageMoves DEF PageMove
<1>8. ASSUME NEW p \in Pages, NEW s \in Hosted, TakeReserved(p, s) PROVE Goal
  <2>1. /\ page' = [page EXCEPT ![p] = [Blank EXCEPT !.pc = "redeem", !.session = s,
                                                     !.pairing = reserved[s]]]
        /\ reserved[s] \in Pairings
    BY <1>8 DEF TakeReserved, PageInv, SignInTypes
  <2> QED
    BY <2>1, OnePageMoves DEF PageMove
<1>9. ASSUME NEW p \in Pages, Redeem(p) PROVE Goal
  <2>1. CASE Redeemable(page[p].pairing)
    <3>1. page' = [page EXCEPT ![p] = [page[p] EXCEPT !.pc = "key",
                                 !.merchant = pairing[page[p].pairing].merchant]]
          /\ page[p].pc = "redeem" /\ pairing[page[p].pairing].state = "unused"
      BY <1>9, <2>1 DEF Redeem, Redeemable
    <3> QED
      BY <1>9, <3>1, OnePageMoves DEF PageMove
  <2>2. CASE ~Redeemable(page[p].pairing)
    BY <1>2, <1>9, <2>2 DEF Redeem, Back
  <2> QED
    BY <2>1, <2>2
<1>10. ASSUME NEW p \in Pages, ReadKey(p) PROVE Goal
  <2>1. page' = [page EXCEPT ![p] = [page[p] EXCEPT !.pc = "approve",
                                                    !.gen = key[page[p].merchant]]]
        /\ page[p].pc = "key"
    BY <1>10 DEF ReadKey
  <2> QED
    BY <2>1, OnePageMoves DEF PageMove
<1>11. ASSUME NEW p \in Pages,
              \/ ConfirmLoses(p) \/ ConfirmWins(p) \/ Lost(p) \/ Look(p)
              \/ (\E x \in Pairings : Mint(p, x)) \/ ApprovePaired(p) \/ Drop(p)
       PROVE  Goal
  <2>1. page' = [page EXCEPT ![p] = Blank]
    BY <1>11 DEF ConfirmLoses, ConfirmWins, Lost, Look, Mint, ApprovePaired, Drop, Back
  <2> QED
    BY <1>2, <2>1
<1>12. ASSUME \/ \E s \in Hosted : CreateRequest(s)
              \/ \E s \in Hosted, m \in Merchants :
                   Register(s, m) \/ \E gen \in 1..MaxKeys : Link(s, m, gen)
              \/ \E s \in Direct, m \in Merchants : StageDirect(s, m)
              \/ \E s \in Hosted, x \in Pairings : Reserve(s, x)
              \/ \E c \in Calls : Serve(c) \/ ChangeKey(c)
              \/ \E s \in Sessions : Lapse(s)
              \/ \E x \in Pairings : LapsePairing(x)
              \/ TokenClock
       PROVE  UNCHANGED page
  BY <1>12 DEF CreateRequest, Register, Link, StageDirect, Reserve, Serve, ChangeKey, Lapse,
     LapsePairing, TokenClock, signInVars
<1> QED
  BY <1>1, <1>3, <1>4, <1>5, <1>6, <1>7, <1>8, <1>9, <1>10, <1>11, <1>12
     DEF Next, signInVars

\* A row is opened, staged, approved or over; swept and canceled ones stay.
RowMove(s) ==
  LET g == row[s]  h == row'[s] IN
  \/ g.state = "none" /\ h.state = "initial"
  \/ g.state \in {"none", "initial"} /\ \E m \in Merchants : h = Staged(m)
  \/ g.state = "staged" /\ h.state = "swept"
  \/ g.state \in {"initial", "staged"} /\ h.state = "canceled"
  \/ /\ g.state = "staged"
     /\ \E p \in Pages : /\ ConfirmWins(p) /\ page[p].session = s
                         /\ h = [state |-> "confirmed", handle |-> page[p].merchant]
  \/ g.state = "initial" /\ h.state = "linked"

LEMMA RowsMove ==
  ASSUME PageInv, [Next]_<<tokenVars, signInVars>>
  PROVE  /\ row' \in [Sessions -> Row]
         /\ \A s \in Sessions : row'[s] = row[s] \/ RowMove(s)
<1> DEFINE Goal == /\ row' \in [Sessions -> Row]
                   /\ \A s \in Sessions : row'[s] = row[s] \/ RowMove(s)
<1>0. row \in [Sessions -> Row] /\ Hosted \subseteq Sessions /\ Direct \subseteq Sessions
  BY DEF PageInv, SignInTypes, Sessions
<1>1. CASE UNCHANGED row
  BY <1>0, <1>1
<1>2. ASSUME NEW s \in Sessions, NEW y \in Row, row' = [row EXCEPT ![s] = y],
             row'[s] = y => RowMove(s)
      PROVE  Goal
  BY <1>0, <1>2
<1>3. ASSUME NEW ss, NEW s \in Sessions, row[s].state = "none", NEW y \in Row,
             row' = [Swept(ss) EXCEPT ![s] = y],
             y.state = "initial" \/ \E m \in Merchants : y = Staged(m)
      PROVE  Goal
  <2>1. Swept(ss) \in [Sessions -> Row]
    BY SweptType DEF PageInv
  <2>2. row' \in [Sessions -> Row] /\ row'[s] = y
        /\ \A r \in Sessions \ {s} : row'[r] = Swept(ss)[r]
    BY <1>3, <2>1
  <2> DEFINE gone == [state |-> "swept", handle |-> None]
  <2>3. gone.state = "swept"
    OBVIOUS
  <2>4. \A r \in Sessions : \/ Swept(ss)[r] = row[r]
                            \/ row[r].state = "staged" /\ Swept(ss)[r] = gone
    <3> SUFFICES ASSUME NEW r \in Sessions
                 PROVE  \/ Swept(ss)[r] = row[r]
                        \/ row[r].state = "staged" /\ Swept(ss)[r] = gone
      OBVIOUS
    <3>1. Swept(ss)[r] = IF r \in ss \cap late /\ row[r].state = "staged"
                         THEN gone ELSE row[r]
      BY DEF Swept
    <3> HIDE DEF gone
    <3> QED
      BY <3>1
  <2>5. RowMove(s)
    BY <1>3, <2>2 DEF RowMove
  <2>6. \A r \in Sessions \ {s} : row'[r] = row[r] \/ RowMove(r)
    BY <2>2, <2>3, <2>4 DEF RowMove
  <2> QED
    BY <2>2, <2>5, <2>6
<1>4. ASSUME NEW s \in Hosted, CreateRequest(s) PROVE Goal
  <2>1. Swept(Hosted)[s] = row[s] /\ row[s] \in Row /\ row[s].state = "none"
    BY <1>0, <1>4 DEF CreateRequest, Swept
  <2>2. [row[s] EXCEPT !.state = "initial"] \in Row
        /\ [row[s] EXCEPT !.state = "initial"].state = "initial"
    BY <2>1 DEF Row
  <2>3. row' = [Swept(Hosted) EXCEPT ![s] = [row[s] EXCEPT !.state = "initial"]]
    BY <1>4, <2>1 DEF CreateRequest
  <2> QED
    BY <1>0, <1>3, <2>1, <2>2, <2>3
<1>5. ASSUME NEW s \in Hosted, NEW m \in Merchants, Register(s, m) PROVE Goal
  <2>1. Staged(m) \in Row
    BY DEF Staged, Row
  <2> QED
    BY <1>0, <1>2, <1>5, <2>1 DEF Register, RowMove
<1>6. ASSUME NEW s \in Direct, NEW m \in Merchants, StageDirect(s, m) PROVE Goal
  <2>1. Staged(m) \in Row
    BY DEF Staged, Row
  <2> QED
    BY <1>0, <1>3, <1>6, <2>1 DEF StageDirect
<1>7. ASSUME NEW s \in Sessions, row[s].state \in {"initial", "staged"}, Closed(s) PROVE Goal
  <2> DEFINE y == [state |-> "canceled", handle |-> None]
  <2>1. y \in Row /\ y.state = "canceled"
    BY DEF Row
  <2>2. row' = [row EXCEPT ![s] = y]
    BY <1>7 DEF Closed
  <2>3. row'[s] = y => RowMove(s)
    BY <1>7, <2>1 DEF RowMove
  <2> HIDE DEF y
  <2> QED
    BY <1>2, <2>1, <2>2, <2>3
<1>8. ASSUME NEW p \in Pages, ConfirmLoses(p) \/ Lost(p) PROVE Goal
  <2>1. page[p].session \in Sessions
    BY <1>8 DEF ConfirmLoses, Lost, PageInv, Remembers
  <2> QED
    BY <1>1, <1>7, <1>8, <2>1 DEF ConfirmLoses, Lost, CloseLoser
<1>9. ASSUME NEW p \in Pages, NEW s \in Sessions, Cancel(p, s) PROVE Goal
  BY <1>1, <1>7, <1>9 DEF Cancel, Cancelable
<1>10. ASSUME NEW p \in Pages, ConfirmWins(p) PROVE Goal
  <2>1. /\ page[p].session \in Sessions /\ page[p].merchant \in Merchants
        /\ row[page[p].session].state = "staged"
    BY <1>10 DEF ConfirmWins, PageInv, Remembers
  <2>2. [state |-> "confirmed", handle |-> page[p].merchant] \in Row
    BY <2>1 DEF Row
  <2> QED
    BY <1>2, <1>10, <2>1, <2>2 DEF ConfirmWins, RowMove
<1>11. ASSUME NEW s \in Hosted, NEW m \in Merchants, NEW gen, Approve(s, m, gen) PROVE Goal
  <2>1. [state |-> "linked", handle |-> m] \in Row
    BY DEF Row
  <2> QED
    BY <1>0, <1>1, <1>2, <1>11, <2>1 DEF Approve, RowMove
<1>12. ASSUME NEW p \in Pages, ApprovePaired(p) PROVE Goal
  <2>1. page[p].session \in Hosted /\ page[p].merchant \in Merchants
    BY <1>12 DEF ApprovePaired, PageInv, Remembers
  <2> QED
    BY <1>11, <1>12, <2>1 DEF ApprovePaired
<1>13. ASSUME NEW s \in Hosted, NEW m \in Merchants, NEW gen, Link(s, m, gen) PROVE Goal
  BY <1>11, <1>13 DEF Link
<1>14. ASSUME NEW p \in Pages,
              \/ \E s \in Sessions : ConfirmStarts(p, s)
              \/ ConfirmFindsNone(p) \/ ConfirmCollides(p) \/ Look(p)
              \/ \E m \in Merchants : Authenticate(p, m)
              \/ \E x \in Pairings : Mint(p, x)
              \/ \E s \in Hosted : TakeReserved(p, s)
              \/ Redeem(p) \/ ReadKey(p) \/ Drop(p)
       PROVE  UNCHANGED row
  BY <1>14 DEF ConfirmStarts, ConfirmFindsNone, ConfirmCollides, Look, Authenticate, Mint,
     TakeReserved, Redeem, ReadKey, Drop
<1>15. ASSUME \/ \E s \in Hosted, x \in Pairings : Reserve(s, x)
              \/ \E c \in Calls : Serve(c) \/ ChangeKey(c)
              \/ \E s \in Sessions : Lapse(s)
              \/ \E x \in Pairings : LapsePairing(x)
              \/ TokenClock
       PROVE  UNCHANGED row
  BY <1>15 DEF Reserve, Serve, ChangeKey, Lapse, LapsePairing, TokenClock, signInVars
<1> QED
  BY <1>1, <1>4, <1>5, <1>6, <1>8, <1>9, <1>10, <1>12, <1>13, <1>14, <1>15
     DEF Next, signInVars

---------------------------------------------------------------------------
(* What a step does to the keys and the codes.                             *)

\* A key is made once, and changed by the call that holds its merchant.
KeyMove(m) ==
  \/ key[m] = 0 /\ \E p \in Pages : ConfirmWins(p) /\ page[p].merchant = m
  \/ \E c \in Calls : ChangeKey(c) /\ call[c].merchant = m

\* A code is issued when its session is approved, and keeps its merchant.
CodeMove(s) ==
  \/ /\ code'[s].state = "none" <=> code[s].state = "none"
     /\ code[s].state # "none" => code'[s].merchant = code[s].merchant
  \/ /\ row[s].state \in {"initial", "staged"}
     /\ row'[s].state \in {"confirmed", "linked"}

LEMMA GrantsMove ==
  ASSUME Granted!Inv, PageInv, [Next]_<<tokenVars, signInVars>>
  PROVE  /\ \A m \in Merchants : /\ key[m] > 0 => key'[m] > 0
                                 /\ key'[m] = key[m] \/ KeyMove(m)
         /\ \A s \in Hosted : CodeMove(s)
<1> DEFINE Goal == /\ \A m \in Merchants : /\ key[m] > 0 => key'[m] > 0
                                           /\ key'[m] = key[m] \/ KeyMove(m)
                   /\ \A s \in Hosted : CodeMove(s)
<1>0. /\ key \in [Merchants -> 0..MaxKeys] /\ DOMAIN code = Hosted
      /\ row \in [Sessions -> Row] /\ Hosted \subseteq Sessions
  BY DEF Granted!Inv, Granted!TypeOK, PageInv, SignInTypes, Sessions
<1>1. CASE UNCHANGED <<key, code>>
  BY <1>1 DEF CodeMove
<1>2. ASSUME NEW c \in Calls, Serve(c) \/ ChangeKey(c) PROVE Goal
  <2>1. Granted!Serve(c) \/ Granted!ChangeKey(c) \/ Granted!Clock
    BY <1>2, SameRequests DEF Serve, ChangeKey
  <2>2. /\ \A g \in Hosted :
             /\ code'[g].state = "none" <=> code[g].state = "none"
             /\ code[g].state # "none" => code'[g].merchant = code[g].merchant
        /\ \A m \in Merchants :
             /\ key[m] > 0 <=> key'[m] > 0
             /\ key'[m] # key[m] => m = call[c].merchant
    BY <2>1, Assumed, Granted!Upkeep
  <2>3. CASE Serve(c)
    <3>1. UNCHANGED key
      BY <2>3 DEF Serve, Tokens!Serve, Tokens!ReadCode, Tokens!RevokeStarts, Tokens!Present,
         Tokens!Exchange, Tokens!Buy, Tokens!RotateStarts, Tokens!Rotate, Tokens!RotateFails,
         Tokens!ReuseStarts, Tokens!Revokes, Tokens!Revoke, Tokens!ChangeLocks,
         Tokens!Abandon, Tokens!Answered
    <3> QED
      BY <2>2, <3>1 DEF CodeMove
  <2>4. CASE ChangeKey(c)
    BY <2>2, <2>4 DEF CodeMove, KeyMove
  <2> QED
    BY <1>2, <2>3, <2>4
<1>3. ASSUME NEW p \in Pages, ConfirmWins(p) PROVE Goal
  <2> DEFINE s == page[p].session
             m == page[p].merchant
  <2>1. s \in Sessions /\ m \in Merchants /\ row[s].state = "staged" /\ key[m] = 0
    BY <1>0, <1>3 DEF ConfirmWins, PageInv, Remembers, Taken
  <2>2. key' = [key EXCEPT ![m] = 1]
    BY <1>3 DEF ConfirmWins
  <2>3. \A n \in Merchants : /\ key[n] > 0 => key'[n] > 0
                             /\ key'[n] = key[n] \/ KeyMove(n)
    BY <1>0, <1>3, <2>1, <2>2 DEF KeyMove
  <2>4. row'[s].state = "confirmed"
    BY <1>0, <1>3, <2>1 DEF ConfirmWins
  <2>5. \A r \in Hosted \ {s} : code'[r] = code[r]
    BY <1>0, <1>3 DEF ConfirmWins
  <2>6. \A r \in Hosted : CodeMove(r)
    BY <2>1, <2>4, <2>5 DEF CodeMove
  <2> QED
    BY <2>3, <2>6
<1>4. ASSUME NEW s \in Hosted, NEW m \in Merchants, NEW gen, Approve(s, m, gen) PROVE Goal
  <2>1. CASE row[s].state = "initial" /\ Open(s) /\ KeyMatches(m, gen)
    <3>1. UNCHANGED key /\ row'[s].state = "linked" /\ code' = Tokens!Issue(s, m)
      BY <1>0, <1>4, <2>1 DEF Approve
    <3>2. \A r \in Hosted \ {s} : code'[r] = code[r]
      BY <1>0, <3>1 DEF Tokens!Issue
    <3> QED
      BY <2>1, <3>1, <3>2 DEF CodeMove
  <2>2. CASE ~(row[s].state = "initial" /\ Open(s) /\ KeyMatches(m, gen))
    BY <1>1, <1>4, <2>2 DEF Approve
  <2> QED
    BY <2>1, <2>2
<1>5. ASSUME NEW p \in Pages, ApprovePaired(p) PROVE Goal
  <2>1. page[p].session \in Hosted /\ page[p].merchant \in Merchants
    BY <1>5 DEF ApprovePaired, PageInv, Remembers
  <2> QED
    BY <1>4, <1>5, <2>1 DEF ApprovePaired
<1>6. ASSUME NEW s \in Hosted, NEW m \in Merchants, NEW gen, Link(s, m, gen) PROVE Goal
  BY <1>4, <1>6 DEF Link
<1>7. ASSUME NEW p \in Pages,
             \/ \E s \in Sessions : ConfirmStarts(p, s) \/ Cancel(p, s)
             \/ ConfirmFindsNone(p) \/ ConfirmLoses(p) \/ ConfirmCollides(p)
             \/ Lost(p) \/ Look(p)
             \/ \E m \in Merchants : Authenticate(p, m)
             \/ \E x \in Pairings : Mint(p, x)
             \/ \E s \in Hosted : TakeReserved(p, s)
             \/ Redeem(p) \/ ReadKey(p) \/ Drop(p)
      PROVE  UNCHANGED <<key, code>>
  BY <1>7 DEF ConfirmStarts, Cancel, ConfirmFindsNone, ConfirmLoses, ConfirmCollides, Lost,
     Look, Authenticate, Mint, TakeReserved, Redeem, ReadKey, Drop, tokenVars
<1>8. ASSUME \/ \E s \in Hosted : CreateRequest(s)
             \/ \E s \in Hosted, m \in Merchants : Register(s, m)
             \/ \E s \in Direct, m \in Merchants : StageDirect(s, m)
             \/ \E s \in Hosted, x \in Pairings : Reserve(s, x)
             \/ \E s \in Sessions : Lapse(s)
             \/ \E x \in Pairings : LapsePairing(x)
      PROVE  UNCHANGED <<key, code>>
  BY <1>8 DEF CreateRequest, Register, StageDirect, Reserve, Lapse, LapsePairing, tokenVars
<1>9. CASE TokenClock
  <2>1. UNCHANGED key /\ \E g \in Hosted :
          \/ UNCHANGED code
          \/ code[g].state = "issued" /\ code' = [code EXCEPT ![g].state = "lapsed"]
    BY <1>9 DEF TokenClock, Tokens!Clock, Tokens!CodeLapses, Tokens!FamilyAges
  <2>2. code \in [Hosted -> Granted!Code]
    BY DEF Granted!Inv, Granted!TypeOK
  <2>3. ASSUME NEW r \in Hosted PROVE CodeMove(r)
    BY <2>1, <2>2, <2>3 DEF CodeMove, Granted!Code
  <2> QED
    BY <2>1, <2>3
<1> QED
  BY <1>1, <1>2, <1>3, <1>5, <1>6, <1>7, <1>8, <1>9 DEF Next, tokenVars

---------------------------------------------------------------------------
(* What a step does to a pairing code, an answer and the histories.        *)

\* A pairing code is stored under the key the merchant has, and is over once.
PairingMove(x) ==
  LET g == pairing[x]  h == pairing'[x] IN
  \/ /\ g.state = "none" /\ UNCHANGED key
     /\ \E p \in Pages : /\ page[p].pc = "mint"
                         /\ h = [state |-> "unused", merchant |-> page[p].merchant,
                                 proof |-> page[p].gen, gen |-> key[page[p].merchant]]
  \/ g.state = "unused" /\ \E l \in {"used", "invalidated", "lapsed"} :
                             h = [g EXCEPT !.state = l]

LEMMA PairingEnds ==
  ASSUME SignInTypes, NEW x \in Pairings, NEW l \in {"used", "invalidated", "lapsed"}
  PROVE  /\ [pairing[x] EXCEPT !.state = l] \in Pairing
         /\ [pairing[x] EXCEPT !.state = l].state = l
         /\ [pairing[x] EXCEPT !.state = l].merchant = pairing[x].merchant
         /\ [pairing[x] EXCEPT !.state = l].gen = pairing[x].gen
BY DEF SignInTypes, Pairing

LEMMA PairingsMove ==
  ASSUME Granted!Inv, PageInv, [Next]_<<tokenVars, signInVars>>
  PROVE  /\ pairing' \in [Pairings -> Pairing]
         /\ \A x \in Pairings : pairing'[x] = pairing[x] \/ PairingMove(x)
<1> DEFINE Goal == /\ pairing' \in [Pairings -> Pairing]
                   /\ \A x \in Pairings : pairing'[x] = pairing[x] \/ PairingMove(x)
<1>0. pairing \in [Pairings -> Pairing] /\ SignInTypes
  BY DEF PageInv, SignInTypes
<1>1. CASE UNCHANGED pairing
  BY <1>0, <1>1
<1>2. ASSUME NEW x \in Pairings, NEW y \in Pairing, pairing' = [pairing EXCEPT ![x] = y],
             pairing'[x] = y => PairingMove(x)
      PROVE  Goal
  BY <1>0, <1>2
<1>3. ASSUME NEW x \in Pairings, pairing[x].state = "unused",
             NEW l \in {"used", "invalidated", "lapsed"},
             pairing' = [pairing EXCEPT ![x].state = l]
      PROVE  Goal
  <2> DEFINE y == [pairing[x] EXCEPT !.state = l]
  <2>1. y \in Pairing
    BY <1>0, PairingEnds
  <2>2. pairing' = [pairing EXCEPT ![x] = y]
    BY <1>3
  <2>3. pairing'[x] = y => PairingMove(x)
    BY <1>3 DEF PairingMove
  <2> HIDE DEF y
  <2> QED
    BY <1>2, <2>1, <2>2, <2>3
<1>4. ASSUME NEW p \in Pages, NEW x \in Pairings, Mint(p, x) PROVE Goal
  <2> DEFINE y == [state |-> "unused", merchant |-> page[p].merchant,
                   proof |-> page[p].gen, gen |-> key[page[p].merchant]]
  <2>1. page[p].merchant \in Merchants /\ page[p].gen \in 0..MaxKeys
    BY <1>4 DEF Mint, PageInv, SignInTypes, Remembers, Page
  <2>2. y \in Pairing
    BY <2>1 DEF Pairing, Granted!Inv, Granted!TypeOK
  <2>3. pairing' = [pairing EXCEPT ![x] = y]
    BY <1>4 DEF Mint
  <2>4. pairing'[x] = y => PairingMove(x)
    BY <1>4 DEF Mint, PairingMove, tokenVars
  <2> HIDE DEF y
  <2> QED
    BY <1>2, <2>2, <2>3, <2>4
<1>5. ASSUME NEW p \in Pages, Redeem(p) PROVE Goal
  <2>1. page[p].pairing \in Pairings
    BY <1>5 DEF Redeem, PageInv, Remembers
  <2>2. CASE Redeemable(page[p].pairing)
    <3>1. /\ pairing[page[p].pairing].state = "unused"
          /\ pairing' = [pairing EXCEPT ![page[p].pairing].state = "used"]
      BY <1>5, <2>2 DEF Redeem, Redeemable
    <3> QED
      BY <1>3, <2>1, <3>1
  <2>3. CASE ~Redeemable(page[p].pairing)
    BY <1>1, <1>5, <2>3 DEF Redeem
  <2> QED
    BY <2>2, <2>3
<1>6. ASSUME NEW x \in Pairings, LapsePairing(x) PROVE Goal
  BY <1>3, <1>6 DEF LapsePairing
<1>7. ASSUME NEW c \in Calls, ChangeKey(c) PROVE Goal
  <2>1. pairing' = Ended(call[c].merchant)
    BY <1>7 DEF ChangeKey
  <2>2. ASSUME NEW x \in Pairings
        PROVE  \/ pairing'[x] = pairing[x]
               \/ /\ pairing[x].state = "unused"
                  /\ pairing'[x] = [pairing[x] EXCEPT !.state = "invalidated"]
    BY <2>1 DEF Ended
  <2>3. ASSUME NEW x \in Pairings
        PROVE  pairing'[x] \in Pairing /\ (pairing'[x] = pairing[x] \/ PairingMove(x))
    BY <1>0, <2>2, PairingEnds DEF PairingMove
  <2>4. pairing' = [x \in Pairings |-> pairing'[x]]
    BY <2>1 DEF Ended
  <2> QED
    BY <2>3, <2>4
<1>8. ASSUME NEW p \in Pages,
             \/ \E s \in Sessions : ConfirmStarts(p, s) \/ Cancel(p, s)
             \/ ConfirmFindsNone(p) \/ ConfirmLoses(p) \/ ConfirmWins(p)
             \/ ConfirmCollides(p) \/ Lost(p) \/ Look(p)
             \/ \E m \in Merchants : Authenticate(p, m)
             \/ \E s \in Hosted : TakeReserved(p, s)
             \/ ReadKey(p) \/ ApprovePaired(p) \/ Drop(p)
      PROVE  UNCHANGED pairing
  BY <1>8 DEF ConfirmStarts, Cancel, ConfirmFindsNone, ConfirmLoses, ConfirmWins,
     ConfirmCollides, Lost, Look, Authenticate, TakeReserved, ReadKey, ApprovePaired, Drop,
     pairVars
<1>9. ASSUME \/ \E s \in Hosted : CreateRequest(s)
             \/ \E s \in Hosted, m \in Merchants :
                  Register(s, m) \/ \E gen \in 1..MaxKeys : Link(s, m, gen)
             \/ \E s \in Direct, m \in Merchants : StageDirect(s, m)
             \/ \E s \in Hosted, x \in Pairings : Reserve(s, x)
             \/ \E c \in Calls : Serve(c)
             \/ \E s \in Sessions : Lapse(s)
             \/ TokenClock
      PROVE  UNCHANGED pairing
  BY <1>9 DEF CreateRequest, Register, Link, StageDirect, Reserve, Serve, Lapse,
     TokenClock, pairVars, signInVars
<1> QED
  BY <1>1, <1>4, <1>5, <1>6, <1>7, <1>8, <1>9 DEF Next, signInVars

\* An answer says what the row says, or the handle is taken.
ToldMove(s) ==
  \/ told'[s] = told[s] \cup {"confirmed"} /\ row'[s].state = "confirmed"
  \/ told'[s] = told[s] \cup {"canceled"} /\ row'[s].state = "canceled"
  \/ /\ told'[s] = told[s] \cup {"handle_taken"}
     /\ \/ row'[s].state = "canceled"
        \/ UNCHANGED row /\ \E p \in Pages : page[p].pc = "lost" /\ page[p].session = s

LEMMA ToldsMove ==
  ASSUME PageInv, [Next]_<<tokenVars, signInVars>>
  PROVE  /\ told' \in [Sessions -> SUBSET Answers]
         /\ \A s \in Sessions : told'[s] = told[s] \/ ToldMove(s)
<1> DEFINE Goal == /\ told' \in [Sessions -> SUBSET Answers]
                   /\ \A s \in Sessions : told'[s] = told[s] \/ ToldMove(s)
<1>0. told \in [Sessions -> SUBSET Answers] /\ row \in [Sessions -> Row]
  BY DEF PageInv, SignInTypes
<1>1. CASE UNCHANGED told
  BY <1>0, <1>1
<1>2. ASSUME NEW s \in Sessions, NEW a \in Answers, Tell(s, a),
             told'[s] = told[s] \cup {a} => ToldMove(s)
      PROVE  Goal
  BY <1>0, <1>2 DEF Tell
<1>3. ASSUME NEW s \in Sessions, Closed(s) PROVE row'[s].state = "canceled"
  BY <1>0, <1>3 DEF Closed
<1>4. ASSUME NEW p \in Pages, ConfirmLoses(p) PROVE Goal
  <2>1. /\ page[p].session \in Sessions
        /\ Closed(page[p].session) /\ Tell(page[p].session, "handle_taken")
    BY <1>4 DEF ConfirmLoses, PageInv, Remembers
  <2> QED
    BY <1>2, <1>3, <2>1 DEF ToldMove, Answers
<1>5. ASSUME NEW p \in Pages, ConfirmWins(p) PROVE Goal
  <2>1. page[p].session \in Sessions /\ Tell(page[p].session, "confirmed")
    BY <1>5 DEF ConfirmWins, PageInv, Remembers
  <2>2. row'[page[p].session].state = "confirmed"
    BY <1>0, <1>5, <2>1 DEF ConfirmWins
  <2> QED
    BY <1>2, <2>1, <2>2 DEF ToldMove, Answers
<1>6. ASSUME NEW p \in Pages, Lost(p) PROVE Goal
  <2>1. page[p].session \in Sessions /\ page[p].pc = "lost" /\ CloseLoser(page[p].session)
    BY <1>6 DEF Lost, PageInv, Remembers
  <2>2. \/ UNCHANGED told
        \/ /\ Tell(page[p].session, "handle_taken")
           /\ Closed(page[p].session) \/ UNCHANGED row
    BY <2>1 DEF CloseLoser
  <2> QED
    BY <1>1, <1>2, <1>3, <2>1, <2>2 DEF ToldMove, Answers
<1>7. ASSUME NEW p \in Pages, NEW s \in Sessions, Cancel(p, s) PROVE Goal
  <2>1. UNCHANGED told \/ (Closed(s) /\ Tell(s, "canceled"))
    BY <1>7 DEF Cancel
  <2> QED
    BY <1>1, <1>2, <1>3, <2>1 DEF ToldMove, Answers
<1>8. ASSUME NEW p \in Pages, Look(p) PROVE Goal
  <2>1. page[p].session \in Sessions /\ UNCHANGED row
    BY <1>8 DEF Look, PageInv, Remembers
  <2>2. \/ UNCHANGED told
        \/ Tell(page[p].session, "confirmed") /\ row[page[p].session].state = "confirmed"
        \/ Tell(page[p].session, "canceled") /\ row[page[p].session].state = "canceled"
    BY <1>8 DEF Look
  <2> QED
    BY <1>1, <1>2, <2>1, <2>2 DEF ToldMove, Answers
<1>9. ASSUME NEW p \in Pages,
             \/ \E s \in Sessions : ConfirmStarts(p, s)
             \/ ConfirmFindsNone(p) \/ ConfirmCollides(p)
             \/ \E m \in Merchants : Authenticate(p, m)
             \/ \E x \in Pairings : Mint(p, x)
             \/ \E s \in Hosted : TakeReserved(p, s)
             \/ Redeem(p) \/ ReadKey(p) \/ ApprovePaired(p) \/ Drop(p)
      PROVE  UNCHANGED told
  BY <1>9 DEF ConfirmStarts, ConfirmFindsNone, ConfirmCollides, Authenticate, Mint,
     TakeReserved, Redeem, ReadKey, ApprovePaired, Drop
<1>10. ASSUME \/ \E s \in Hosted : CreateRequest(s)
              \/ \E s \in Hosted, m \in Merchants :
                   Register(s, m) \/ \E gen \in 1..MaxKeys : Link(s, m, gen)
              \/ \E s \in Direct, m \in Merchants : StageDirect(s, m)
              \/ \E s \in Hosted, x \in Pairings : Reserve(s, x)
              \/ \E c \in Calls : Serve(c) \/ ChangeKey(c)
              \/ \E s \in Sessions : Lapse(s)
              \/ \E x \in Pairings : LapsePairing(x)
              \/ TokenClock
       PROVE  UNCHANGED told
  BY <1>10 DEF CreateRequest, Register, Link, StageDirect, Reserve, Serve, ChangeKey, Lapse,
     LapsePairing, TokenClock, signInVars
<1> QED
  BY <1>1, <1>4, <1>5, <1>6, <1>7, <1>8, <1>9, <1>10 DEF Next, signInVars

\* The session that made a merchant, and the code that approved a session.
ByMove(m) ==
  \E p \in Pages : ConfirmWins(p) /\ page[p].merchant = m /\ by'[m] = page[p].session

RedeemedMove(s) ==
  \E p \in Pages :
    /\ ApprovePaired(p) /\ page[p].pc = "approve" /\ page'[p] = Blank
    /\ page[p].session = s /\ redeemed'[s] = page[p].pairing
    /\ row[s].state = "initial" /\ row'[s].state = "linked"
    /\ code'[s].state = "issued" /\ code'[s].merchant = page[p].merchant

LEMMA HistoriesMove ==
  ASSUME Granted!Inv, PageInv, [Next]_<<tokenVars, signInVars>>
  PROVE  /\ by' \in [Merchants -> Sessions \cup {None}]
         /\ redeemed' \in [Hosted -> Pairings \cup {None}]
         /\ late' \subseteq Sessions
         /\ reserved' \in [Hosted -> Pairings \cup {None}]
         /\ \A m \in Merchants : by'[m] = by[m] \/ ByMove(m)
         /\ \A s \in Hosted : redeemed'[s] = redeemed[s] \/ RedeemedMove(s)
<1> DEFINE Goal == /\ by' \in [Merchants -> Sessions \cup {None}]
                   /\ redeemed' \in [Hosted -> Pairings \cup {None}]
                   /\ late' \subseteq Sessions
                   /\ reserved' \in [Hosted -> Pairings \cup {None}]
                   /\ \A m \in Merchants : by'[m] = by[m] \/ ByMove(m)
                   /\ \A s \in Hosted : redeemed'[s] = redeemed[s] \/ RedeemedMove(s)
<1>0. /\ by \in [Merchants -> Sessions \cup {None}]
      /\ redeemed \in [Hosted -> Pairings \cup {None}]
      /\ late \subseteq Sessions
      /\ reserved \in [Hosted -> Pairings \cup {None}]
      /\ page \in [Pages -> Page] /\ row \in [Sessions -> Row]
      /\ DOMAIN code = Hosted /\ Hosted \subseteq Sessions
  BY DEF PageInv, SignInTypes, Granted!Inv, Granted!TypeOK, Sessions
<1>1. CASE UNCHANGED <<by, redeemed, late, reserved>>
  BY <1>0, <1>1
<1>2. ASSUME NEW p \in Pages, ConfirmWins(p) PROVE Goal
  <2>1. page[p].session \in Sessions /\ page[p].merchant \in Merchants
    BY <1>2 DEF ConfirmWins, PageInv, Remembers
  <2>2. by' = [by EXCEPT ![page[p].merchant] = page[p].session]
    BY <1>2 DEF ConfirmWins
  <2>3. UNCHANGED <<redeemed, late, reserved>>
    BY <1>2 DEF ConfirmWins, pairVars
  <2>4. \A m \in Merchants : by'[m] = by[m] \/ ByMove(m)
    BY <1>0, <1>2, <2>1, <2>2 DEF ByMove
  <2> QED
    BY <1>0, <2>1, <2>2, <2>3, <2>4
<1>3. ASSUME NEW p \in Pages, ApprovePaired(p) PROVE Goal
  <2> DEFINE s == page[p].session
             m == page[p].merchant
  <2>1. /\ s \in Hosted /\ m \in Merchants /\ page[p].pairing \in Pairings
        /\ page[p].pc = "approve"
    BY <1>3 DEF ApprovePaired, PageInv, Remembers
  <2>2. UNCHANGED <<by, late, reserved>>
    BY <1>3 DEF ApprovePaired
  <2>3. CASE code'[s] # code[s]
    <3>1. redeemed' = [redeemed EXCEPT ![s] = page[p].pairing]
      BY <1>3, <2>3 DEF ApprovePaired
    <3>2. /\ row[s].state = "initial"
          /\ row' = [row EXCEPT ![s] = [state |-> "linked", handle |-> m]]
          /\ code' = Tokens!Issue(s, m)
      BY <1>3, <2>3 DEF ApprovePaired, Approve
    <3>3. row'[s].state = "linked"
      BY <1>0, <2>1, <3>2
    <3>4. code'[s].state = "issued" /\ code'[s].merchant = m
      BY <1>0, <2>1, <3>2 DEF Tokens!Issue
    <3>5. page'[p] = Blank
      BY <1>0, <1>3 DEF ApprovePaired, Back
    <3>6. redeemed'[s] = page[p].pairing /\ \A r \in Hosted \ {s} : redeemed'[r] = redeemed[r]
      BY <1>0, <2>1, <3>1
    <3>7. RedeemedMove(s)
      BY <1>3, <2>1, <3>2, <3>3, <3>4, <3>5, <3>6 DEF RedeemedMove
    <3>8. redeemed' \in [Hosted -> Pairings \cup {None}]
      BY <1>0, <2>1, <3>1
    <3> QED
      BY <1>0, <2>2, <3>6, <3>7, <3>8
  <2>4. CASE code'[s] = code[s]
    BY <1>1, <1>3, <2>2, <2>4 DEF ApprovePaired
  <2> QED
    BY <2>3, <2>4
<1>4. ASSUME NEW s \in Hosted, NEW x \in Pairings, Reserve(s, x) PROVE Goal
  BY <1>0, <1>4 DEF Reserve
<1>5. ASSUME NEW p \in Pages, NEW s \in Hosted, TakeReserved(p, s) PROVE Goal
  BY <1>0, <1>5 DEF TakeReserved
<1>6. ASSUME NEW s \in Sessions, Lapse(s) PROVE Goal
  BY <1>0, <1>6 DEF Lapse, pairVars
<1>7. ASSUME NEW p \in Pages,
             \/ \E s \in Sessions : ConfirmStarts(p, s) \/ Cancel(p, s)
             \/ ConfirmFindsNone(p) \/ ConfirmLoses(p)
             \/ ConfirmCollides(p) \/ Lost(p) \/ Look(p)
             \/ \E m \in Merchants : Authenticate(p, m)
             \/ \E x \in Pairings : Mint(p, x)
             \/ Redeem(p) \/ ReadKey(p) \/ Drop(p)
      PROVE  UNCHANGED <<by, redeemed, late, reserved>>
  BY <1>7 DEF ConfirmStarts, Cancel, ConfirmFindsNone, ConfirmLoses, ConfirmCollides,
     Lost, Look, Authenticate, Mint, Redeem, ReadKey, Drop, pairVars
<1>8. ASSUME \/ \E s \in Hosted : CreateRequest(s)
             \/ \E s \in Hosted, m \in Merchants :
                  Register(s, m) \/ \E gen \in 1..MaxKeys : Link(s, m, gen)
             \/ \E s \in Direct, m \in Merchants : StageDirect(s, m)
             \/ \E c \in Calls : Serve(c) \/ ChangeKey(c)
             \/ \E x \in Pairings : LapsePairing(x)
             \/ TokenClock
      PROVE  UNCHANGED <<by, redeemed, late, reserved>>
  BY <1>8 DEF CreateRequest, Register, Link, StageDirect, Serve, ChangeKey, LapsePairing,
     TokenClock, pairVars, signInVars
<1> QED
  BY <1>1, <1>2, <1>3, <1>4, <1>5, <1>6, <1>7, <1>8 DEF Next, signInVars

---------------------------------------------------------------------------
(* Every step keeps the invariant of the pages.                            *)

LEMMA PageTyped ==
  ASSUME Granted!Inv, PageInv, NEW p \in Pages, PageMove(p)
  PROVE  page'[p] \in Page
<1>1. /\ page[p] \in Page /\ SignInTypes /\ key \in [Merchants -> 0..MaxKeys]
      /\ pairing \in [Pairings -> Pairing]
  BY DEF PageInv, SignInTypes, Granted!Inv, Granted!TypeOK
<1>2. CASE page'[p] = Blank
  BY <1>2, BlankType
<1>3. CASE \E s \in Sessions : page'[p] = Looking(s)
  BY <1>1, <1>3, NewPages
<1>4. CASE \E s \in Sessions : page'[p] = Confirming(s)
  BY <1>1, <1>4, NewPages
<1>5. CASE \E m \in Merchants : page'[p] = [Blank EXCEPT !.pc = "mint", !.merchant = m,
                                                         !.gen = key[m]]
  <2>1. PICK m \in Merchants : page'[p] = [Blank EXCEPT !.pc = "mint", !.merchant = m,
                                                        !.gen = key[m]]
    BY <1>5
  <2>2. key[m] \in 0..MaxKeys
    BY <1>1
  <2>3. \A k \in 0..MaxKeys : [Blank EXCEPT !.pc = "mint", !.merchant = m, !.gen = k] \in Page
    BY <1>1, NewPages
  <2> QED
    BY <2>1, <2>2, <2>3
<1>6. CASE \E s \in Hosted, x \in Pairings :
             page'[p] = [Blank EXCEPT !.pc = "redeem", !.session = s, !.pairing = x]
  BY <1>1, <1>6, NewPages
<1>7. CASE \/ page'[p] = [page[p] EXCEPT !.pc = "look"]
           \/ page'[p] = [page[p] EXCEPT !.pc = "lost"]
  BY <1>1, <1>7, PageFields
<1>8. CASE /\ page[p].pc = "redeem" /\ pairing[page[p].pairing].state = "unused"
           /\ page'[p] = [page[p] EXCEPT !.pc = "key",
                                         !.merchant = pairing[page[p].pairing].merchant]
  <2>1. pairing[page[p].pairing].merchant \in Merchants
    BY <1>8 DEF PageInv, Remembers, Named
  <2>2. \A m \in Merchants : [page[p] EXCEPT !.pc = "key", !.merchant = m] \in Page
    BY <1>1, PageFields
  <2> QED
    BY <1>8, <2>1, <2>2
<1>9. CASE /\ page[p].pc = "key"
           /\ page'[p] = [page[p] EXCEPT !.pc = "approve", !.gen = key[page[p].merchant]]
  <2>1. key[page[p].merchant] \in 0..MaxKeys
    BY <1>1, <1>9 DEF PageInv, Remembers
  <2>2. \A k \in 0..MaxKeys : [page[p] EXCEPT !.pc = "approve", !.gen = k] \in Page
    BY <1>1, PageFields
  <2> QED
    BY <1>9, <2>1, <2>2
<1> QED
  BY <1>2, <1>3, <1>4, <1>5, <1>6, <1>7, <1>8, <1>9 DEF PageMove

LEMMA SignInTypesStep ==
  ASSUME Granted!Inv, PageInv, [Next]_<<tokenVars, signInVars>>
  PROVE  SignInTypes'
<1>1. page' \in [Pages -> Page]
  <2>1. /\ page' = [q \in Pages |-> page'[q]]
        /\ \A q \in Pages : page'[q] = page[q] \/ PageMove(q)
    BY PagesMove
  <2>2. \A q \in Pages : page[q] \in Page
    BY DEF PageInv, SignInTypes
  <2>3. \A q \in Pages : page'[q] \in Page
    BY <2>1, <2>2, PageTyped
  <2> QED
    BY <2>1, <2>3
<1> QED
  BY <1>1, RowsMove, PairingsMove, ToldsMove, HistoriesMove
     DEF SignInTypes, Sessions, Row, Pairing, Page, Answers

LEMMA NamedStep ==
  ASSUME Granted!Inv, PageInv, [Next]_<<tokenVars, signInVars>>
  PROVE  Named'
<1>1. ASSUME NEW s \in Sessions, row'[s].state \in {"staged", "confirmed"}
      PROVE  row'[s].handle \in Merchants
  <2>1. CASE row'[s] = row[s]
    BY <1>1, <2>1 DEF PageInv, Named
  <2>2. CASE RowMove(s)
    <3>1. CASE \E m \in Merchants : row'[s] = Staged(m)
      BY <3>1 DEF Staged
    <3>2. CASE \E p \in Pages : /\ ConfirmWins(p)
                                /\ row'[s] = [state |-> "confirmed",
                                              handle |-> page[p].merchant]
      <4>1. PICK p \in Pages : /\ ConfirmWins(p)
                               /\ row'[s] = [state |-> "confirmed",
                                             handle |-> page[p].merchant]
        BY <3>2
      <4>2. page[p].merchant \in Merchants
        BY <4>1 DEF ConfirmWins, PageInv, Remembers
      <4> QED
        BY <4>1, <4>2
    <3> QED
      BY <1>1, <2>2, <3>1, <3>2 DEF RowMove
  <2> QED
    BY <2>1, <2>2, RowsMove
<1>2. ASSUME NEW x \in Pairings, pairing'[x].state # "none"
      PROVE  pairing'[x].merchant \in Merchants
  <2>1. CASE pairing'[x] = pairing[x]
    BY <1>2, <2>1 DEF PageInv, Named
  <2>2. CASE /\ pairing[x].state = "unused"
             /\ \E l \in {"used", "invalidated", "lapsed"} :
                  pairing'[x] = [pairing[x] EXCEPT !.state = l]
    <3>1. pairing'[x].merchant = pairing[x].merchant
      BY <2>2, PairingEnds DEF PageInv
    <3> QED
      BY <2>2, <3>1 DEF PageInv, Named
  <2>3. CASE \E p \in Pages : /\ page[p].pc = "mint"
                              /\ pairing'[x] = [state |-> "unused",
                                                merchant |-> page[p].merchant,
                                                proof |-> page[p].gen,
                                                gen |-> key[page[p].merchant]]
    <3>1. PICK p \in Pages : page[p].pc = "mint" /\ pairing'[x].merchant = page[p].merchant
      BY <2>3
    <3> QED
      BY <3>1 DEF PageInv, Remembers
  <2> QED
    BY <2>1, <2>2, <2>3, PairingsMove DEF PairingMove
<1> QED
  BY <1>1, <1>2 DEF Named, Sessions

LEMMA UnapprovedStep ==
  ASSUME Granted!Inv, PageInv, [Next]_<<tokenVars, signInVars>>
  PROVE  Unapproved'
<1> SUFFICES ASSUME NEW s \in Hosted, row'[s].state \notin {"confirmed", "linked"}
             PROVE  code'[s].state = "none"
  BY DEF Unapproved
<1>1. row[s].state \notin {"confirmed", "linked"}
  <2>1. row'[s] = row[s] \/ RowMove(s)
    BY RowsMove DEF Sessions
  <2> QED
    BY <2>1 DEF RowMove
<1>2. code[s].state = "none"
  BY <1>1 DEF PageInv, Unapproved
<1> QED
  BY <1>2, GrantsMove DEF CodeMove

LEMMA RemembersStep ==
  ASSUME Granted!Inv, PageInv, [Next]_<<tokenVars, signInVars>>
  PROVE  Remembers'
<1> DEFINE Kept(g) ==
      /\ g.pc \in {"confirm", "lost"} => g.session \in Sessions /\ g.merchant \in Merchants
      /\ g.pc = "look" => g.session \in Sessions
      /\ g.pc = "mint" => g.merchant \in Merchants /\ key'[g.merchant] > 0
      /\ g.pc \in {"redeem", "key", "approve"} => g.session \in Hosted /\ g.pairing \in Pairings
      /\ g.pc \in {"key", "approve"} => g.merchant \in Merchants
<1>1. ASSUME NEW p \in Pages PROVE Kept(page'[p])
  <2>0. page[p] \in Page /\ Kept(page[p])
    BY GrantsMove DEF PageInv, SignInTypes, Remembers
  <2>1. CASE page'[p] = page[p]
    BY <2>0, <2>1
  <2>2. CASE page'[p] = Blank \/ \E s \in Sessions : page'[p] = Looking(s)
    <3>1. CASE page'[p] = Blank
      <4>1. page'[p].pc = "idle"
        BY <3>1 DEF Blank
      <4> QED
        BY <4>1
    <3>2. CASE \E s \in Sessions : page'[p] = Looking(s)
      <4>1. page'[p].pc = "look" /\ page'[p].session \in Sessions
        BY <3>2 DEF Looking, Blank
      <4> QED
        BY <4>1
    <3> QED
      BY <2>2, <3>1, <3>2
  <2>3. CASE \E s \in Sessions : page'[p] = Confirming(s) /\ row[s].state = "staged"
    <3>1. PICK s \in Sessions : page'[p] = Confirming(s) /\ row[s].state = "staged"
      BY <2>3
    <3>2. /\ page'[p].pc = "confirm" /\ page'[p].session = s
          /\ page'[p].merchant = row[s].handle
      BY <3>1 DEF Confirming, Blank
    <3> QED
      BY <3>1, <3>2 DEF PageInv, Named
  <2>4. CASE page[p].pc = "confirm" /\ \E l \in {"look", "lost"} :
                                         page'[p] = [page[p] EXCEPT !.pc = l]
    BY <2>0, <2>4 DEF Page
  <2>5. CASE \E m \in Merchants : /\ key[m] > 0
                                  /\ page'[p] = [Blank EXCEPT !.pc = "mint", !.merchant = m,
                                                              !.gen = key[m]]
    <3>1. PICK m \in Merchants : key[m] > 0 /\ page'[p].pc = "mint" /\ page'[p].merchant = m
      BY <2>5 DEF Blank
    <3> QED
      BY <3>1, GrantsMove
  <2>6. CASE \E s \in Hosted, x \in Pairings :
               page'[p] = [Blank EXCEPT !.pc = "redeem", !.session = s, !.pairing = x]
    BY <2>6 DEF Blank
  <2>7. CASE /\ page[p].pc = "redeem" /\ pairing[page[p].pairing].state = "unused"
             /\ page'[p] = [page[p] EXCEPT !.pc = "key",
                                           !.merchant = pairing[page[p].pairing].merchant]
    <3>1. pairing[page[p].pairing].merchant \in Merchants
      BY <2>0, <2>7 DEF PageInv, Named
    <3> QED
      BY <2>0, <2>7, <3>1 DEF Page
  <2>8. CASE /\ page[p].pc = "key"
             /\ page'[p] = [page[p] EXCEPT !.pc = "approve", !.gen = key[page[p].merchant]]
    BY <2>0, <2>8 DEF Page
  <2> QED
    BY PagesMove, <2>1, <2>2, <2>3, <2>4, <2>5, <2>6, <2>7, <2>8 DEF PageMove
<1> QED
  BY <1>1 DEF Remembers, Sessions

LEMMA PageInvStep ==
  ASSUME Granted!Inv, PageInv, [Next]_<<tokenVars, signInVars>>
  PROVE  PageInv'
BY SignInTypesStep, NamedStep, UnapprovedStep, RemembersStep DEF PageInv

---------------------------------------------------------------------------
(* A registration's answer.                                                *)

\* What is known of the row a confirmation under way works on.
Signs ==
  \A p \in Pages :
    LET s == page[p].session  m == page[p].merchant IN
    page[p].pc \in {"confirm", "lost"} =>
      /\ row[s].state \in {"staged", "confirmed", "canceled", "swept"}
      /\ row[s].state = "staged" => row[s].handle = m
      /\ page[p].pc = "lost" => key[m] > 0 /\ row[s].state # "confirmed"

\* A merchant that a session made, and that session.
Made ==
  /\ \A s \in Sessions : row[s].state = "confirmed" =>
       by[row[s].handle] = s /\ key[row[s].handle] > 0
  /\ \A m \in Merchants : by[m] # None =>
       key[m] > 0 /\ row[by[m]].state = "confirmed" /\ row[by[m]].handle = m

\* An answer, and the row it was given about.
Over(s) ==
  \/ row[s].state \in {"canceled", "swept"}
  \/ row[s].state = "staged" /\ key[row[s].handle] > 0

Answered ==
  \A s \in Sessions :
    /\ "confirmed" \in told[s] => row[s].state = "confirmed"
    /\ told[s] \cap {"canceled", "handle_taken"} # {} => Over(s)

SignInInv == PageInv /\ Signs /\ Made /\ Answered

\* Whatever runs beside it, a confirmation that wins does so once for its row and
\* its handle.
LEMMA Wins ==
  ASSUME Granted!Inv, SignInInv, NEW p \in Pages, ConfirmWins(p)
  PROVE  LET s == page[p].session  m == page[p].merchant IN
         /\ s \in Sessions /\ m \in Merchants /\ page[p].pc = "confirm"
         /\ row[s].state = "staged" /\ row[s].handle = m
         /\ row' = [row EXCEPT ![s] = [state |-> "confirmed", handle |-> m]]
         /\ row'[s].state = "confirmed" /\ row'[s].handle = m
         /\ key[m] = 0 /\ key'[m] > 0
         /\ by[m] = None /\ by'[m] = s
<1> DEFINE s == page[p].session
           m == page[p].merchant
<1>1. s \in Sessions /\ m \in Merchants
  BY DEF ConfirmWins, SignInInv, PageInv, Remembers
<1>2. /\ key \in [Merchants -> 0..MaxKeys] /\ row \in [Sessions -> Row]
      /\ by \in [Merchants -> Sessions \cup {None}]
  BY DEF Granted!Inv, Granted!TypeOK, SignInInv, PageInv, SignInTypes
<1>3. /\ page[p].pc = "confirm" /\ row[s].state = "staged"
      /\ row' = [row EXCEPT ![s] = [state |-> "confirmed", handle |-> m]]
      /\ key' = [key EXCEPT ![m] = 1] /\ by' = [by EXCEPT ![m] = s] /\ ~(key[m] > 0)
  BY DEF ConfirmWins, Taken
<1>4. row[s].handle = m
  BY <1>3 DEF SignInInv, Signs
<1>5. by[m] = None
  BY <1>1, <1>3 DEF SignInInv, Made
<1>6. row'[s].state = "confirmed" /\ row'[s].handle = m
  BY <1>1, <1>2, <1>3
<1>7. key[m] = 0 /\ key'[m] > 0 /\ by'[m] = s
  BY <1>1, <1>2, <1>3
<1> QED
  BY <1>1, <1>3, <1>4, <1>5, <1>6, <1>7

LEMMA SignsStep ==
  ASSUME Granted!Inv, SignInInv, [Next]_<<tokenVars, signInVars>>
  PROVE  Signs'
<1> SUFFICES ASSUME NEW p \in Pages, page'[p].pc \in {"confirm", "lost"}
             PROVE  LET s == page'[p].session  m == page'[p].merchant IN
                    /\ row'[s].state \in {"staged", "confirmed", "canceled", "swept"}
                    /\ row'[s].state = "staged" => row'[s].handle = m
                    /\ page'[p].pc = "lost" => key'[m] > 0 /\ row'[s].state # "confirmed"
  BY DEF Signs
<1>0. PageInv /\ page[p] \in Page
  BY DEF SignInInv, PageInv, SignInTypes
<1>1. CASE page'[p] = page[p]
  <2> DEFINE s == page[p].session
             m == page[p].merchant
  <2>1. /\ s \in Sessions /\ m \in Merchants
        /\ row[s].state \in {"staged", "confirmed", "canceled", "swept"}
        /\ row[s].state = "staged" => row[s].handle = m
        /\ page[p].pc = "lost" => key[m] > 0 /\ row[s].state # "confirmed"
    BY <1>1 DEF SignInInv, Signs, PageInv, Remembers
  <2>2. key[m] > 0 => key'[m] > 0
    BY <1>0, <2>1, GrantsMove
  <2>3. row'[s] = row[s] \/ RowMove(s)
    BY <1>0, <2>1, RowsMove
  <2>4. CASE row'[s] = row[s]
    BY <1>1, <2>1, <2>2, <2>4
  <2>5. CASE row'[s].state \in {"swept", "canceled"}
    BY <1>1, <2>1, <2>2, <2>5
  <2>6. CASE /\ row[s].state = "staged"
             /\ \E q \in Pages : /\ ConfirmWins(q) /\ page[q].session = s
                                 /\ row'[s] = [state |-> "confirmed",
                                               handle |-> page[q].merchant]
    <3>1. PICK q \in Pages : ConfirmWins(q) /\ page[q].session = s
      BY <2>6
    <3>2. /\ row[s].handle = page[q].merchant /\ key[page[q].merchant] = 0
          /\ row'[s].state = "confirmed"
      BY <3>1, Wins
    <3>3. page[q].merchant = m
      BY <2>1, <2>6, <3>2
    <3> QED
      BY <1>1, <2>1, <3>2, <3>3
  <2> QED
    BY <2>1, <2>3, <2>4, <2>5, <2>6 DEF RowMove
<1>2. CASE \E s \in Sessions : /\ page'[p] = Confirming(s) /\ row[s].state = "staged"
                               /\ UNCHANGED row
  <2>1. PICK s \in Sessions : page'[p] = Confirming(s) /\ row[s].state = "staged"
                              /\ UNCHANGED row
    BY <1>2
  <2>2. /\ page'[p].pc = "confirm" /\ page'[p].session = s
        /\ page'[p].merchant = row[s].handle
    BY <2>1 DEF Confirming, Blank
  <2> QED
    BY <2>1, <2>2
<1>3. CASE /\ page[p].pc = "confirm" /\ page'[p] = [page[p] EXCEPT !.pc = "lost"]
           /\ row[page[p].session].state = "staged" /\ key[page[p].merchant] > 0
           /\ UNCHANGED <<row, key>>
  <2>1. page'[p].session = page[p].session /\ page'[p].merchant = page[p].merchant
    BY <1>0, <1>3 DEF Page
  <2> QED
    BY <1>3, <2>1 DEF SignInInv, Signs
<1>5. page'[p] = page[p] \/ PageMove(p)
  BY <1>0, PagesMove
<1>6. CASE \/ page'[p] = Blank
           \/ \E s \in Sessions : page'[p] = Looking(s)
           \/ page'[p] = [page[p] EXCEPT !.pc = "look"]
           \/ \E m \in Merchants : page'[p] = [Blank EXCEPT !.pc = "mint", !.merchant = m,
                                                            !.gen = key[m]]
           \/ \E s \in Hosted, x \in Pairings :
                page'[p] = [Blank EXCEPT !.pc = "redeem", !.session = s, !.pairing = x]
           \/ page'[p] = [page[p] EXCEPT !.pc = "key",
                                         !.merchant = pairing[page[p].pairing].merchant]
           \/ page'[p] = [page[p] EXCEPT !.pc = "approve", !.gen = key[page[p].merchant]]
  <2>1. CASE page'[p] = Blank
    BY <2>1 DEF Blank
  <2>5. CASE \E s \in Sessions : page'[p] = Looking(s)
    <3>1. page'[p].pc = "look"
      BY <2>5 DEF Looking, Blank
    <3> QED
      BY <3>1
  <2>2. CASE page'[p] = [page[p] EXCEPT !.pc = "look"]
    BY <1>0, <2>2 DEF Page
  <2>3. CASE \/ \E m \in Merchants : page'[p] = [Blank EXCEPT !.pc = "mint", !.merchant = m,
                                                               !.gen = key[m]]
             \/ \E s \in Hosted, x \in Pairings :
                  page'[p] = [Blank EXCEPT !.pc = "redeem", !.session = s, !.pairing = x]
    BY <2>3 DEF Blank
  <2>4. CASE \/ page'[p] = [page[p] EXCEPT !.pc = "key",
                                         !.merchant = pairing[page[p].pairing].merchant]
             \/ page'[p] = [page[p] EXCEPT !.pc = "approve", !.gen = key[page[p].merchant]]
    BY <1>0, <2>4 DEF Page
  <2> QED
    BY <1>6, <2>1, <2>2, <2>3, <2>4, <2>5
<1> QED
  BY <1>1, <1>2, <1>3, <1>5, <1>6 DEF PageMove

LEMMA MadeStep ==
  ASSUME Granted!Inv, SignInInv, [Next]_<<tokenVars, signInVars>>
  PROVE  Made'
<1>0. /\ PageInv /\ Made /\ by \in [Merchants -> Sessions \cup {None}]
      /\ None \notin Sessions
  BY SignInAssumption DEF SignInInv, PageInv, SignInTypes, Sessions
<1>1. ASSUME NEW s \in Sessions, row'[s].state = "confirmed"
      PROVE  by'[row'[s].handle] = s /\ key'[row'[s].handle] > 0
  <2>1. CASE row'[s] = row[s]
    <3> DEFINE m == row[s].handle
    <3>1. m \in Merchants /\ by[m] = s /\ key[m] > 0
      BY <1>0, <1>1, <2>1 DEF PageInv, Named, Made
    <3>2. key'[m] > 0
      BY <1>0, <3>1, GrantsMove
    <3>3. by'[m] = by[m] \/ ByMove(m)
      BY <1>0, <3>1, HistoriesMove
    <3>4. ASSUME NEW p \in Pages, ConfirmWins(p), page[p].merchant = m PROVE FALSE
      <4>1. key[m] = 0
        BY <3>4, Wins
      <4> QED
        BY <3>1, <4>1
    <3> QED
      BY <2>1, <3>1, <3>2, <3>3, <3>4 DEF ByMove
  <2>2. CASE \E p \in Pages : /\ ConfirmWins(p) /\ page[p].session = s
                              /\ row'[s] = [state |-> "confirmed",
                                            handle |-> page[p].merchant]
    <3>1. PICK p \in Pages : ConfirmWins(p) /\ page[p].session = s
                             /\ row'[s].handle = page[p].merchant
      BY <2>2
    <3> QED
      BY <3>1, Wins
  <2>3. row'[s] = row[s] \/ RowMove(s)
    BY <1>0, RowsMove
  <2> QED
    <3>1. \A m \in Merchants : row'[s] # Staged(m)
      BY <1>1 DEF Staged
    <3> QED
      BY <1>1, <2>1, <2>2, <2>3, <3>1 DEF RowMove
<1>2. ASSUME NEW m \in Merchants, by'[m] # None
      PROVE  key'[m] > 0 /\ row'[by'[m]].state = "confirmed" /\ row'[by'[m]].handle = m
  <2>1. CASE by'[m] = by[m]
    <3> DEFINE s == by[m]
    <3>1. s \in Sessions /\ key[m] > 0 /\ row[s].state = "confirmed" /\ row[s].handle = m
      BY <1>0, <1>2, <2>1 DEF Made
    <3>2. row'[s] = row[s]
      <4>1. row'[s] = row[s] \/ RowMove(s)
        BY <1>0, <3>1, RowsMove
      <4> QED
        BY <3>1, <4>1 DEF RowMove
    <3>3. key'[m] > 0
      BY <1>0, <3>1, GrantsMove
    <3> QED
      BY <2>1, <3>1, <3>2, <3>3
  <2>2. CASE ByMove(m)
    <3>1. PICK p \in Pages : ConfirmWins(p) /\ page[p].merchant = m /\ by'[m] = page[p].session
      BY <2>2 DEF ByMove
    <3> QED
      BY <3>1, Wins
  <2> QED
    BY <1>0, <2>1, <2>2, HistoriesMove
<1> QED
  BY <1>1, <1>2 DEF Made, Sessions

LEMMA AnsweredStep ==
  ASSUME Granted!Inv, SignInInv, [Next]_<<tokenVars, signInVars>>
  PROVE  Answered'
<1> SUFFICES ASSUME NEW s \in Sessions
             PROVE  /\ "confirmed" \in told'[s] => row'[s].state = "confirmed"
                    /\ told'[s] \cap {"canceled", "handle_taken"} # {} => Over(s)'
  BY DEF Answered, Sessions
<1>0. PageInv /\ Signs /\ Answered
  BY DEF SignInInv
<1>1. row'[s] = row[s] \/ RowMove(s)
  BY <1>0, RowsMove
<1>2. told'[s] = told[s] \/ ToldMove(s)
  BY <1>0, ToldsMove
<1>3. row[s].state = "confirmed" => row'[s].state = "confirmed"
  BY <1>1 DEF RowMove
<1>4. Over(s) => Over(s)'
  <2> SUFFICES ASSUME Over(s) PROVE Over(s)'
    OBVIOUS
  <2>1. CASE row'[s] = row[s]
    <3>1. CASE row[s].state = "staged"
      <4>1. row[s].handle \in Merchants /\ key[row[s].handle] > 0
        BY <1>0, <3>1 DEF Over, PageInv, Named
      <4>2. key'[row[s].handle] > 0
        BY <1>0, <4>1, GrantsMove
      <4> QED
        BY <2>1, <3>1, <4>2 DEF Over
    <3>2. CASE row[s].state \in {"canceled", "swept"}
      BY <2>1, <3>2 DEF Over
    <3> QED
      BY <3>1, <3>2 DEF Over
  <2>2. CASE row'[s].state \in {"canceled", "swept"}
    BY <2>2 DEF Over
  <2>3. CASE /\ row[s].state = "staged"
             /\ \E p \in Pages : ConfirmWins(p) /\ page[p].session = s
    <3>1. PICK p \in Pages : ConfirmWins(p) /\ page[p].session = s
      BY <2>3
    <3>2. row[s].handle = page[p].merchant /\ key[page[p].merchant] = 0
      BY <3>1, Wins
    <3> QED
      BY <2>3, <3>2 DEF Over
  <2> QED
    BY <1>1, <2>1, <2>2, <2>3 DEF RowMove, Over
<1>5. CASE told'[s] = told[s]
  BY <1>0, <1>3, <1>4, <1>5 DEF Answered
<1>6. CASE told'[s] = told[s] \cup {"confirmed"} /\ row'[s].state = "confirmed"
  BY <1>0, <1>4, <1>6 DEF Answered
<1>7. CASE /\ told'[s] = told[s] \cup {"canceled"} \/ told'[s] = told[s] \cup {"handle_taken"}
           /\ row'[s].state = "canceled"
  <2>1. Over(s)'
    BY <1>7 DEF Over
  <2>2. "confirmed" \in told'[s] => row[s].state = "confirmed"
    BY <1>0, <1>7 DEF Answered
  <2> QED
    BY <1>3, <2>1, <2>2
<1>8. CASE /\ told'[s] = told[s] \cup {"handle_taken"} /\ UNCHANGED row
           /\ \E p \in Pages : page[p].pc = "lost" /\ page[p].session = s
  <2>1. PICK p \in Pages : page[p].pc = "lost" /\ page[p].session = s
    BY <1>8
  <2>2. Over(s)
    BY <1>0, <2>1 DEF Signs, Over
  <2>3. "confirmed" \in told'[s] => row[s].state = "confirmed"
    BY <1>0, <1>8 DEF Answered
  <2> QED
    BY <1>3, <1>4, <2>2, <2>3
<1> QED
  BY <1>2, <1>5, <1>6, <1>7, <1>8 DEF ToldMove

---------------------------------------------------------------------------
(* A pairing code.                                                         *)

\* Between the redemption of a code and the approval, one page has it.
Held ==
  /\ \A p \in Pages : page[p].pc \in {"key", "approve"} =>
       /\ pairing[page[p].pairing].state = "used"
       /\ pairing[page[p].pairing].merchant = page[p].merchant
       /\ \A r \in Hosted : redeemed[r] # page[p].pairing
  /\ \A p, q \in Pages :
       /\ page[p].pc \in {"key", "approve"} /\ page[q].pc \in {"key", "approve"}
       /\ page[p].pairing = page[q].pairing
       => p = q

\* A code that approved a session, and that session.
Spent ==
  /\ \A s \in Hosted : redeemed[s] # None =>
       /\ row[s].state = "linked" /\ code[s].state # "none"
       /\ pairing[redeemed[s]].state = "used"
       /\ code[s].merchant = pairing[redeemed[s]].merchant
  /\ \A s, r \in Hosted : redeemed[s] # None /\ redeemed[s] = redeemed[r] => s = r

\* A code that can be redeemed was stored under the merchant's key.
Current ==
  \A x \in Pairings : pairing[x].state = "unused" =>
    pairing[x].gen = key[pairing[x].merchant] /\ key[pairing[x].merchant] > 0

PairInv == PageInv /\ Held /\ Spent /\ Current

LEMMA CurrentStep ==
  ASSUME Granted!Inv, PairInv, [Next]_<<tokenVars, signInVars>>
  PROVE  Current'
<1> SUFFICES ASSUME NEW x \in Pairings, pairing'[x].state = "unused"
             PROVE  /\ pairing'[x].gen = key'[pairing'[x].merchant]
                    /\ key'[pairing'[x].merchant] > 0
  BY DEF Current
<1>0. PageInv /\ Current
  BY DEF PairInv
<1>1. CASE pairing'[x] = pairing[x]
  <2> DEFINE m == pairing[x].merchant
  <2>1. m \in Merchants /\ pairing[x].gen = key[m] /\ key[m] > 0
    BY <1>0, <1>1 DEF PageInv, Named, Current
  <2>2. \A c \in Calls : ChangeKey(c) => call[c].merchant # m
    <3> SUFFICES ASSUME NEW c \in Calls, ChangeKey(c), call[c].merchant = m PROVE FALSE
      OBVIOUS
    <3>1. pairing'[x] = [pairing[x] EXCEPT !.state = "invalidated"]
      BY <1>1 DEF ChangeKey, Ended
    <3>2. pairing'[x].state = "invalidated"
      BY <1>0, <3>1, PairingEnds DEF PageInv
    <3> QED
      BY <3>2
  <2>3. ~KeyMove(m)
    BY <2>1, <2>2 DEF KeyMove
  <2>4. key'[m] = key[m]
    BY <1>0, <2>1, <2>3, GrantsMove
  <2> QED
    BY <1>1, <2>1, <2>4
<1>2. CASE /\ UNCHANGED key
           /\ \E p \in Pages : /\ page[p].pc = "mint"
                               /\ pairing'[x] = [state |-> "unused",
                                                 merchant |-> page[p].merchant,
                                                 proof |-> page[p].gen,
                                                 gen |-> key[page[p].merchant]]
  <2>1. PICK p \in Pages : /\ page[p].pc = "mint" /\ pairing'[x].merchant = page[p].merchant
                           /\ pairing'[x].gen = key[page[p].merchant]
    BY <1>2
  <2>2. key[page[p].merchant] > 0
    BY <1>0, <2>1 DEF PageInv, Remembers
  <2> QED
    BY <1>2, <2>1, <2>2
<1>3. CASE /\ pairing[x].state = "unused"
           /\ \E l \in {"used", "invalidated", "lapsed"} :
                pairing'[x] = [pairing[x] EXCEPT !.state = l]
  <2>1. pairing'[x].state \in {"used", "invalidated", "lapsed"}
    BY <1>0, <1>3, PairingEnds DEF PageInv
  <2> QED
    BY <2>1
<1> QED
  BY <1>0, <1>1, <1>2, <1>3, PairingsMove DEF PairingMove

\* A used code stays used, for its merchant.
LEMMA UsedStays ==
  ASSUME Granted!Inv, PairInv, [Next]_<<tokenVars, signInVars>>,
         NEW x \in Pairings, pairing[x].state = "used"
  PROVE  pairing'[x] = pairing[x]
BY PairingsMove DEF PairInv, PairingMove

\* A page that has a code had it before, or has just redeemed it.
LEMMA Holder ==
  ASSUME Granted!Inv, PairInv, [Next]_<<tokenVars, signInVars>>,
         NEW p \in Pages, page'[p].pc \in {"key", "approve"}
  PROVE  /\ page[p].pairing \in Pairings /\ page'[p].pairing = page[p].pairing
         /\ \/ /\ page[p].pc \in {"key", "approve"}
               /\ page'[p].merchant = page[p].merchant
               /\ page[p].pc = "key" \/ page'[p] # Blank
            \/ /\ Redeem(p) /\ page[p].pc = "redeem"
               /\ pairing[page[p].pairing].state = "unused"
               /\ page'[p].merchant = pairing[page[p].pairing].merchant
<1>0. PageInv /\ page[p] \in Page
  BY DEF PairInv, PageInv, SignInTypes
<1>1. page'[p] # Blank
  BY DEF Blank
<1>2. page[p].pc \in {"redeem", "key", "approve"} => page[p].pairing \in Pairings
  BY <1>0 DEF PageInv, Remembers
<1>3. CASE page'[p] = page[p]
  BY <1>1, <1>2, <1>3
<1>4. CASE /\ page[p].pc = "redeem" /\ Redeem(p)
           /\ pairing[page[p].pairing].state = "unused"
           /\ page'[p] = [page[p] EXCEPT !.pc = "key",
                                         !.merchant = pairing[page[p].pairing].merchant]
  <2>1. /\ page'[p].pairing = page[p].pairing
        /\ page'[p].merchant = pairing[page[p].pairing].merchant
    BY <1>0, <1>4 DEF Page
  <2> QED
    BY <1>2, <1>4, <2>1
<1>5. CASE /\ page[p].pc = "key"
           /\ page'[p] = [page[p] EXCEPT !.pc = "approve", !.gen = key[page[p].merchant]]
  <2>1. page'[p].pairing = page[p].pairing /\ page'[p].merchant = page[p].merchant
    BY <1>0, <1>5 DEF Page
  <2> QED
    BY <1>2, <1>5, <2>1
<1>6. CASE \E s \in Sessions : page'[p] = Looking(s)
  <2>1. page'[p].pc = "look"
    BY <1>6 DEF Looking, Blank
  <2> QED
    BY <2>1
<1>7. CASE \E s \in Sessions : page'[p] = Confirming(s)
  <2>1. page'[p].pc = "confirm"
    BY <1>7 DEF Confirming, Blank
  <2> QED
    BY <2>1
<1>8. CASE \/ page'[p] = [page[p] EXCEPT !.pc = "look"]
           \/ page'[p] = [page[p] EXCEPT !.pc = "lost"]
  <2>1. page'[p].pc \in {"look", "lost"}
    BY <1>0, <1>8 DEF Page
  <2> QED
    BY <2>1
<1>9. CASE \/ \E m \in Merchants : page'[p] = [Blank EXCEPT !.pc = "mint", !.merchant = m,
                                                            !.gen = key[m]]
           \/ \E s \in Hosted, x \in Pairings :
                page'[p] = [Blank EXCEPT !.pc = "redeem", !.session = s, !.pairing = x]
  <2>1. page'[p].pc \in {"mint", "redeem"}
    BY <1>9 DEF Blank
  <2> QED
    BY <2>1
<1>10. page'[p] = page[p] \/ PageMove(p)
  BY <1>0, PagesMove
<1> QED
  BY <1>1, <1>3, <1>4, <1>5, <1>6, <1>7, <1>8, <1>9, <1>10 DEF PageMove

LEMMA HeldStep ==
  ASSUME Granted!Inv, PairInv, [Next]_<<tokenVars, signInVars>>
  PROVE  Held'
<1>0. PageInv /\ Held /\ Spent /\ page \in [Pages -> Page] /\ None \notin Pairings
  BY SignInAssumption DEF PairInv, PageInv, SignInTypes
<1>1. ASSUME NEW p \in Pages, page'[p].pc \in {"key", "approve"}
      PROVE  /\ pairing'[page'[p].pairing].state = "used"
             /\ pairing'[page'[p].pairing].merchant = page'[p].merchant
             /\ \A r \in Hosted : redeemed'[r] # page'[p].pairing
  <2> DEFINE x == page[p].pairing
  <2>0. x \in Pairings /\ page'[p].pairing = x /\ page'[p] # Blank
    BY <1>1, Holder DEF Blank
  <2>1. CASE page[p].pc \in {"key", "approve"} /\ page'[p].merchant = page[p].merchant
    <3>1. /\ pairing[x].state = "used" /\ pairing[x].merchant = page[p].merchant
          /\ \A r \in Hosted : redeemed[r] # x
      BY <1>0, <2>1 DEF Held
    <3>2. pairing'[x] = pairing[x]
      BY <2>0, <3>1, UsedStays
    <3>3. ASSUME NEW r \in Hosted, redeemed'[r] = x PROVE FALSE
      <4>1. RedeemedMove(r)
        BY <1>0, <3>1, <3>3, HistoriesMove
      <4>2. PICK q \in Pages : /\ page[q].pc = "approve" /\ page'[q] = Blank
                               /\ redeemed'[r] = page[q].pairing
        BY <4>1 DEF RedeemedMove
      <4>3. q = p
        BY <1>0, <2>1, <3>3, <4>2 DEF Held
      <4> QED
        BY <2>0, <4>2, <4>3
    <3> QED
      BY <2>0, <2>1, <3>1, <3>2, <3>3
  <2>2. CASE /\ Redeem(p) /\ page[p].pc = "redeem" /\ pairing[x].state = "unused"
             /\ page'[p].merchant = pairing[x].merchant
    <3>1. pairing' = [pairing EXCEPT ![x].state = "used"] /\ UNCHANGED redeemed
      BY <2>2 DEF Redeem, Redeemable
    <3>2. pairing'[x] = [pairing[x] EXCEPT !.state = "used"]
      BY <1>0, <2>0, <3>1 DEF PageInv, SignInTypes
    <3>3. pairing'[x].state = "used" /\ pairing'[x].merchant = pairing[x].merchant
      BY <1>0, <2>0, <3>2, PairingEnds DEF PageInv
    <3>4. \A r \in Hosted : redeemed[r] # x
      BY <1>0, <2>0, <2>2 DEF Spent
    <3> QED
      BY <2>0, <2>2, <3>1, <3>3, <3>4
  <2> QED
    BY <1>1, <2>1, <2>2, Holder
<1>2. ASSUME NEW p \in Pages, NEW q \in Pages,
             page'[p].pc \in {"key", "approve"}, page'[q].pc \in {"key", "approve"},
             page'[p].pairing = page'[q].pairing, p # q
      PROVE  FALSE
  <2>1. page[p].pairing = page[q].pairing
    BY <1>2, Holder
  <2>2. \/ page[p].pc \in {"key", "approve"}
        \/ Redeem(p) /\ page[p].pc = "redeem" /\ pairing[page[p].pairing].state = "unused"
    BY <1>2, Holder
  <2>3. \/ page[q].pc \in {"key", "approve"}
        \/ Redeem(q) /\ page[q].pc = "redeem" /\ pairing[page[q].pairing].state = "unused"
    BY <1>2, Holder
  <2>4. CASE page[p].pc \in {"key", "approve"} /\ page[q].pc \in {"key", "approve"}
    BY <1>0, <1>2, <2>1, <2>4 DEF Held
  <2>5. CASE page[p].pc \in {"key", "approve"} /\ pairing[page[q].pairing].state = "unused"
    BY <1>0, <2>1, <2>5 DEF Held
  <2>6. CASE page[q].pc \in {"key", "approve"} /\ pairing[page[p].pairing].state = "unused"
    BY <1>0, <2>1, <2>6 DEF Held
  <2>7. CASE Redeem(p) /\ page[q].pc = "redeem" /\ pairing[page[p].pairing].state = "unused"
    <3>1. page' = [page EXCEPT ![p] = [page[p] EXCEPT !.pc = "key",
                                 !.merchant = pairing[page[p].pairing].merchant]]
      BY <2>7 DEF Redeem, Redeemable
    <3>2. page'[q] = page[q]
      BY <1>0, <1>2, <3>1
    <3> QED
      BY <1>2, <2>7, <3>2
  <2> QED
    BY <2>2, <2>3, <2>4, <2>5, <2>6, <2>7
<1> QED
  BY <1>1, <1>2 DEF Held

LEMMA SpentStep ==
  ASSUME Granted!Inv, PairInv, [Next]_<<tokenVars, signInVars>>
  PROVE  Spent'
<1>0. /\ PageInv /\ Held /\ Spent /\ None \notin Pairings /\ Hosted \subseteq Sessions
      /\ redeemed \in [Hosted -> Pairings \cup {None}]
  BY SignInAssumption DEF PairInv, PageInv, SignInTypes, Sessions
<1>1. ASSUME NEW s \in Hosted, redeemed'[s] # None
      PROVE  /\ row'[s].state = "linked" /\ code'[s].state # "none"
             /\ pairing'[redeemed'[s]].state = "used"
             /\ code'[s].merchant = pairing'[redeemed'[s]].merchant
  <2>1. CASE redeemed'[s] = redeemed[s]
    <3> DEFINE x == redeemed[s]
    <3>1. /\ x \in Pairings /\ row[s].state = "linked" /\ code[s].state # "none"
          /\ pairing[x].state = "used" /\ code[s].merchant = pairing[x].merchant
      BY <1>0, <1>1, <2>1 DEF Spent
    <3>2. row'[s] = row[s]
      <4>1. row'[s] = row[s] \/ RowMove(s)
        BY <1>0, RowsMove
      <4> QED
        BY <3>1, <4>1 DEF RowMove
    <3>3. code'[s].state # "none" /\ code'[s].merchant = code[s].merchant
      BY <1>0, <3>1, GrantsMove DEF CodeMove
    <3>4. pairing'[x] = pairing[x]
      BY <3>1, UsedStays
    <3> QED
      BY <2>1, <3>1, <3>2, <3>3, <3>4
  <2>2. CASE RedeemedMove(s)
    <3>1. PICK p \in Pages :
            /\ page[p].pc = "approve" /\ page[p].session = s
            /\ redeemed'[s] = page[p].pairing /\ row'[s].state = "linked"
            /\ code'[s].state = "issued" /\ code'[s].merchant = page[p].merchant
      BY <2>2 DEF RedeemedMove
    <3>2. /\ page[p].pairing \in Pairings /\ pairing[page[p].pairing].state = "used"
          /\ pairing[page[p].pairing].merchant = page[p].merchant
      BY <1>0, <3>1 DEF Held, PageInv, Remembers
    <3>3. pairing'[page[p].pairing] = pairing[page[p].pairing]
      BY <3>2, UsedStays
    <3> QED
      BY <3>1, <3>2, <3>3
  <2> QED
    BY <1>0, <2>1, <2>2, HistoriesMove
<1>2. ASSUME NEW s \in Hosted, NEW r \in Hosted, RedeemedMove(s),
             redeemed'[s] = redeemed'[r]
      PROVE  s = r
  <2>1. PICK p \in Pages :
          /\ page[p].pc = "approve" /\ page[p].session = s /\ redeemed'[s] = page[p].pairing
    BY <1>2 DEF RedeemedMove
  <2>2. CASE redeemed'[r] = redeemed[r]
    BY <1>0, <1>2, <2>1, <2>2 DEF Held
  <2>3. CASE RedeemedMove(r)
    <3>1. PICK q \in Pages :
            /\ page[q].pc = "approve" /\ page[q].session = r /\ redeemed'[r] = page[q].pairing
      BY <2>3 DEF RedeemedMove
    <3>2. p = q
      BY <1>0, <1>2, <2>1, <3>1 DEF Held
    <3> QED
      BY <2>1, <3>1, <3>2
  <2> QED
    BY <1>0, <2>2, <2>3, HistoriesMove
<1>3. ASSUME NEW s \in Hosted, NEW r \in Hosted, redeemed'[s] # None,
             redeemed'[s] = redeemed'[r]
      PROVE  s = r
  <2>1. CASE RedeemedMove(s) \/ RedeemedMove(r)
    BY <1>2, <1>3, <2>1
  <2>2. CASE redeemed'[s] = redeemed[s] /\ redeemed'[r] = redeemed[r]
    <3>1. redeemed[s] # None /\ redeemed[s] = redeemed[r]
      BY <1>3, <2>2
    <3>2. \A u, v \in Hosted : redeemed[u] # None /\ redeemed[u] = redeemed[v] => u = v
      BY <1>0 DEF Spent
    <3> QED
      BY <3>1, <3>2
  <2> QED
    BY <1>0, <2>1, <2>2, HistoriesMove
<1> QED
  BY <1>1, <1>3 DEF Spent

---------------------------------------------------------------------------
(* The beginning, and the theorems.                                        *)

LEMMA SignInBegins ==
  ASSUME Init
  PROVE  PageInv /\ Signs /\ Made /\ Answered /\ Held /\ Spent /\ Current
<1>1. SignInTypes
  <2>1. page \in [Pages -> Page]
    BY BlankType DEF Init
  <2>2. row \in [Sessions -> Row]
    BY DEF Init, Row
  <2>3. pairing \in [Pairings -> Pairing]
    BY SignInAssumption DEF Init, Pairing
  <2> QED
    BY <2>1, <2>2, <2>3 DEF Init, SignInTypes
<1>2. \A p \in Pages : page[p].pc = "idle"
  BY DEF Init, Blank
<1>3. \A s \in Sessions : row[s].state = "none" /\ told[s] = {}
  BY DEF Init
<1>4. /\ \A s \in Hosted : code[s].state = "none" /\ redeemed[s] = None
      /\ \A x \in Pairings : pairing[x].state = "none"
      /\ \A m \in Merchants : by[m] = None
  BY DEF Init, Tokens!Init
<1>5. PageInv
  BY <1>1, <1>2, <1>3, <1>4 DEF PageInv, Remembers, Unapproved, Named
<1>6. Signs /\ Made /\ Answered
  BY <1>2, <1>3, <1>4 DEF Signs, Made, Answered
<1>7. Held /\ Spent /\ Current
  BY <1>2, <1>4 DEF Held, Spent, Current
<1> QED
  BY <1>5, <1>6, <1>7

LEMMA GrantsKept ==
  ASSUME Granted!Inv, PageInv, [Next]_<<tokenVars, signInVars>>
  PROVE  Granted!Inv'
<1>1. [Tokens!Next]_tokenVars
  BY GrantStep
<1>2. [Granted!Next]_tokenVars
  BY <1>1, SameNext
<1>3. [Granted!Next]_(Granted!tokenVars)
  BY <1>2 DEF tokenVars, Granted!tokenVars
<1> QED
  BY <1>3, Assumed, Granted!InvStep

AllInv == Granted!Inv /\ PageInv /\ Signs /\ Made /\ Answered /\ Held /\ Spent /\ Current

\* The invariant of the grants and of the pages.
LEMMA AllHold == Spec => []AllInv
<1>1. Init => AllInv
  <2>1. Init => Granted!Inv
    <3>1. Init => Granted!Init
      BY SameInit DEF Init
    <3> QED
      BY <3>1, Assumed, Granted!InvInit
  <2> QED
    BY <2>1, SignInBegins DEF AllInv
<1>2. AllInv /\ [Next]_<<tokenVars, signInVars>> => AllInv'
  <2> SUFFICES ASSUME AllInv, [Next]_<<tokenVars, signInVars>> PROVE AllInv'
    OBVIOUS
  <2>1. Granted!Inv /\ PageInv /\ SignInInv /\ PairInv
    BY DEF AllInv, SignInInv, PairInv
  <2>2. Granted!Inv' /\ PageInv'
    BY <2>1, GrantsKept, PageInvStep
  <2>3. Signs' /\ Made' /\ Answered'
    BY <2>1, SignsStep, MadeStep, AnsweredStep
  <2>4. Held' /\ Spent' /\ Current'
    BY <2>1, HeldStep, SpentStep, CurrentStep
  <2> QED
    BY <2>2, <2>3, <2>4 DEF AllInv
<1> QED
  BY <1>1, <1>2, PTL DEF Spec

\* Whatever the pages do, the grants behave as OAuthTokens says: a registration or
\* an approval is the one step that issues a code, and only for a session that has
\* none.
THEOREM SignInImplementsTokens == Spec => ImplementsTokens
<1>1. Init => Tokens!Init
  BY DEF Init
<1>2. AllInv /\ [Next]_<<tokenVars, signInVars>> => [Tokens!Next]_(Tokens!tokenVars)
  <2> SUFFICES ASSUME AllInv, [Next]_<<tokenVars, signInVars>>
               PROVE  [Tokens!Next]_tokenVars
    BY DEF tokenVars, Tokens!tokenVars
  <2> QED
    BY GrantStep DEF AllInv
<1> QED
  BY <1>1, <1>2, AllHold, PTL DEF Spec, ImplementsTokens, Tokens!Spec

\* The tables of the sign-in and of its grants keep their types.
THEOREM SignInTypeCorrect == Spec => []TypeOK
<1>1. AllInv => TypeOK
  BY DEF AllInv, Granted!Inv, PageInv, SignInTypes, TypeOK, Tokens!TypeOK, Granted!TypeOK,
     Tokens!Code, Granted!Code, Tokens!Call, Granted!Call, Tokens!Seen, Granted!Seen,
     Tokens!Numbers, Granted!Numbers
<1> QED
  BY <1>1, AllHold, PTL

\* A code or a family approved with a key does not outlive that key, in any
\* interleaving of the pages, the requests and the key changes.
THEOREM SignInGrantsDie == Spec => []GrantDiesWithKey
<1>1. AllInv => GrantDiesWithKey
  BY DEF AllInv, Granted!Inv, GrantDiesWithKey, Tokens!GrantDiesWithKey,
     Granted!GrantDiesWithKey
<1> QED
  BY <1>1, AllHold, PTL

\* A session told that it was canceled or lost its handle never makes a merchant or
\* gets a code, and one told it was confirmed made the merchant of its handle.
THEOREM AnswersStayTrue == Spec => []AnswersHold
<1>1. AllInv => AnswersHold
  <2> SUFFICES ASSUME AllInv, NEW s \in Sessions
               PROVE  /\ told[s] \cap {"canceled", "handle_taken"} # {} =>
                           /\ \A m \in Merchants : by[m] # s
                           /\ s \in Hosted => code[s].state = "none"
                      /\ "confirmed" \in told[s] =>
                           \E m \in Merchants : by[m] = s /\ key[m] > 0 /\ row[s].handle = m
    BY DEF AnswersHold
  <2>0. None \notin Sessions
    BY SignInAssumption DEF Sessions
  <2>1. ASSUME told[s] \cap {"canceled", "handle_taken"} # {}
        PROVE  /\ \A m \in Merchants : by[m] # s
               /\ s \in Hosted => code[s].state = "none"
    <3>1. row[s].state \in {"canceled", "swept", "staged"}
      BY <2>1 DEF AllInv, Answered, Over
    <3> QED
      BY <2>0, <3>1 DEF AllInv, Made, PageInv, Unapproved
  <2>2. ASSUME "confirmed" \in told[s]
        PROVE  \E m \in Merchants : by[m] = s /\ key[m] > 0 /\ row[s].handle = m
    <3>1. row[s].state = "confirmed"
      BY <2>2 DEF AllInv, Answered
    <3>2. row[s].handle \in Merchants /\ by[row[s].handle] = s /\ key[row[s].handle] > 0
      BY <3>1 DEF AllInv, PageInv, Named, Made
    <3> QED
      BY <3>2
  <2> QED
    BY <2>1, <2>2
<1> QED
  BY <1>1, AllHold, PTL

\* A pairing code approves one sign-in, for the merchant that minted it, and one
\* that can be redeemed was stored under the key the merchant has.
THEOREM PairingCodesApproveOnce == Spec => []PairsOnce
<1>1. AllInv => PairsOnce
  BY DEF AllInv, Spent, Current, PairsOnce
<1> QED
  BY <1>1, AllHold, PTL

LEMMA SignInGrants == Spec => Granted!Spec
<1>1. Init => Granted!Init
  BY SameInit DEF Init
<1>2. AllInv /\ [Next]_<<tokenVars, signInVars>> => [Granted!Next]_(Granted!tokenVars)
  <2> SUFFICES ASSUME AllInv, [Next]_<<tokenVars, signInVars>>
               PROVE  [Granted!Next]_(Granted!tokenVars)
    OBVIOUS
  <2>1. [Tokens!Next]_tokenVars
    BY GrantStep DEF AllInv
  <2> QED
    BY <2>1, SameNext DEF tokenVars, Granted!tokenVars
<1> QED
  BY <1>1, <1>2, AllHold, PTL DEF Spec, Granted!Spec

\* A code and a refresh token buy one pair each, and a family has one live token.
THEOREM SignInPairsOnce == Spec => []SpentOnce
<1>1. Granted!Spec => []Granted!SpentOnce
  BY Assumed, Granted!PairsBoughtOnce
<1>2. Granted!SpentOnce => SpentOnce
  BY DEF SpentOnce, Tokens!SpentOnce, Granted!SpentOnce, Tokens!Numbers, Granted!Numbers
<1> QED
  BY <1>1, <1>2, SignInGrants, PTL

\* Once a spent refresh token was presented and answered, its family is over.
THEOREM SignInReplaysEnd == Spec => []ReplayEndsFamily
<1>1. Granted!Spec => []Granted!ReplayEndsFamily
  BY Assumed, Granted!ReplaysEndFamilies
<1>2. Granted!ReplayEndsFamily => ReplayEndsFamily
  BY DEF ReplayEndsFamily, Tokens!ReplayEndsFamily, Granted!ReplayEndsFamily,
     Tokens!Alive, Granted!Alive
<1> QED
  BY <1>1, <1>2, SignInGrants, PTL
=============================================================================
