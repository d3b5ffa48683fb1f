---------------------------- MODULE PublicPages ----------------------------
(***************************************************************************)
(* The bounded views of the market, page by page: src/public-pagination.ts,*)
(* src/collection-routes.ts and src/purchase-history-routes.ts.            *)
(*                                                                         *)
(* Every page is one statement and sees one instant; between two pages the *)
(* society goes on.  The shelves hand out a position: where the last row   *)
(* stood.  The other views hand out the id of the last row, and the next   *)
(* page looks up where that row stands now.  A reader follows one view to  *)
(* its end.                                                                *)
(***************************************************************************)
EXTENDS Society, Sequences

CONSTANT PageLimit  \* bound: rows of a page

ASSUME PagesAssumption == PageLimit \in Nat \ {0}

VARIABLE reader     \* a reader following one view, and what he has seen

pages == <<reader, society>>

---------------------------------------------------------------------------
(* The views: their rows, and where each row stands.  A position is a      *)
(* tuple of numbers, the largest first.                                    *)

Pinned(l) == IF listing[l].pinned THEN 1 ELSE 0

\* GET /api/shelves, by sort.
ShelfRows == {l \in Listings : Live(l)}

ShelfPosition(sort, l) ==
  IF sort = "karma"
  THEN <<Pinned(l), listing[l].votes, listing[l].at, l>>
  ELSE <<Pinned(l), listing[l].at, l>>

\* GET /api/store/:handle.
StoreRows(m) == {l \in ShelfRows : Owner[l] = m}

StorePosition(l) == <<Pinned(l), listing[l].at, l>>

\* GET /api/me: one's own listings, whatever became of them, ...
MyListings(m) == {l \in Listings : Owner[l] = m /\ listing[l].state # "none"}

ListingPosition(l) == <<listing[l].at, l>>

\* ... the purchases of them, one's own purchases, ...
MySales(m) == {x \in Texts : purchases[x] # NoText /\ Owner[purchases[x].l] = m}

MyPurchases(m) == {x \in Texts : purchases[x].m = m}

PurchasePosition(x) == <<purchases[x].at, x>>

\* ... and what others say of one's listings.
MyReplies(m) ==
  {x \in Texts : comments[x] # NoText /\ Owner[comments[x].l] = m /\ comments[x].m # m}

ReplyPosition(x) == <<comments[x].at, x>>

\* GET /api/listing/:id: the comments, the oldest first.
CommentRows(l) == {x \in Texts : comments[x].l = l}

CommentPosition(x) == <<-comments[x].at, -x>>

\* GET /api/purchases: the purchases again, with what was bought.
History(m) == {x \in Texts : purchases[x].m = m}

HistoryPosition(x) == <<purchases[x].at, x>>

\* GET /api/events.
EventPosition(x) == <<x>>

\* GET /treasury: the fees.
FeePosition(x) == <<x>>

Shelves == {"new", "karma"}

\* The views, and whose or what listing's they are.
Views ==
  (Shelves \cup {"events", "treasury"}) \X {None}
  \cup {"store", "listings", "sales", "purchases", "history", "replies"} \X Merchants
  \cup {"comments"} \X Listings

Rows(v) ==
  CASE v[1] \in Shelves   -> ShelfRows
    [] v[1] = "store"     -> StoreRows(v[2])
    [] v[1] = "listings"  -> MyListings(v[2])
    [] v[1] = "sales"     -> MySales(v[2])
    [] v[1] = "purchases" -> MyPurchases(v[2])
    [] v[1] = "replies"   -> MyReplies(v[2])
    [] v[1] = "comments"  -> CommentRows(v[2])
    [] v[1] = "history"   -> History(v[2])
    [] v[1] = "events"    -> events
    [] v[1] = "treasury"  -> fees

Position(v, x) ==
  CASE v[1] \in Shelves                -> ShelfPosition(v[1], x)
    [] v[1] = "store"                  -> StorePosition(x)
    [] v[1] = "listings"               -> ListingPosition(x)
    [] v[1] \in {"sales", "purchases"} -> PurchasePosition(x)
    [] v[1] = "replies"                -> ReplyPosition(x)
    [] v[1] = "comments"               -> CommentPosition(x)
    [] v[1] = "history"                -> HistoryPosition(x)
    [] v[1] = "events"                 -> EventPosition(x)
    [] v[1] = "treasury"               -> FeePosition(x)

\* One position comes before another.
Ahead(p, q) ==
  \E i \in DOMAIN p : p[i] > q[i] /\ \A j \in 1..(i - 1) : p[j] = q[j]

---------------------------------------------------------------------------

\* The reader's cursor: the position of the last row, and its id.
NoCursor == [id |-> None, pos |-> <<>>]

IdleReader ==
  [pc |-> "idle", view |-> <<"none", None>>, cursor |-> NoCursor, kept |-> {},
   stood |-> <<>>, seen |-> {}, twice |-> {}, slid |-> FALSE]

PagesInit == SocietyInit /\ reader = IdleReader

\* Mutant of After: the shelves look up where the last row stands now.
AfterTheRow(v, cursor) ==
  IF cursor.id \in Rows(v) THEN Position(v, cursor.id) ELSE cursor.pos

\* Where the next page starts: the cursor of the shelves carries the position, and
\* is refused in a view of another scope (a reader keeps to his); of
\* the other views, the row is looked up.
After(v, cursor) ==
  IF v[1] \in Shelves THEN cursor.pos ELSE Position(v, cursor.id)

\* invalidPageCursor: the row of the cursor is not in the view.
Refused(v, cursor) ==
  v[1] \notin Shelves /\ cursor.id # None /\ cursor.id \notin Rows(v)

\* The rows after the cursor.
Rest(v, cursor) ==
  IF cursor.id = None THEN Rows(v)
  ELSE {x \in Rows(v) : Ahead(After(v, cursor), Position(v, x))}

\* finalizePage: the first n of them.
PageOf(v, rest, n) ==
  {x \in rest : Cardinality({y \in rest : Ahead(Position(v, y), Position(v, x))}) < n}

\* The reader's record after a page: which rows stood where they stood at every
\* page so far, and which of them he was given again.
Given(v, items) ==
  LET r == reader
      first == r.cursor.id = None
      stood == IF first THEN [x \in Rows(v) |-> Position(v, x)] ELSE r.stood
      looked == v[1] \notin Shelves /\ ~first
  IN
  [r EXCEPT !.view = v,
            !.stood = stood,
            !.kept = IF first THEN Rows(v)
                     ELSE {x \in @ \cap Rows(v) : Position(v, x) = stood[x]},
            !.seen = @ \cup items,
            !.twice = @ \cup (r.seen \cap items),
            !.slid = @ \/ (looked /\ Position(v, r.cursor.id) # r.cursor.pos)]

\* A page of a view, with a limit.
ReadPage(v, n) ==
  LET rest == Rest(v, reader.cursor)
      items == PageOf(v, rest, n)
      last == CHOOSE x \in items : \A y \in items : ~Ahead(Position(v, x), Position(v, y))
  IN
  /\ \/ reader.pc = "idle"
     \/ reader.pc = "more" /\ v = reader.view
  /\ reader' =
       IF Refused(v, reader.cursor) THEN [reader EXCEPT !.pc = "refused"]
       ELSE IF rest = items THEN [Given(v, items) EXCEPT !.pc = "done"]
       ELSE [Given(v, items) EXCEPT !.pc = "more",
                                    !.cursor = [id |-> last, pos |-> Position(v, last)]]
  /\ UNCHANGED society

\* A whole store, asked for without a limit.
ReadStore(m) ==
  /\ reader.pc = "idle"
  /\ reader' = [Given(<<"store", m>>, StoreRows(m)) EXCEPT !.pc = "done"]
  /\ UNCHANGED society

\* The reader starts again, or leaves.
StartAgain ==
  /\ reader.pc # "idle"
  /\ reader' = IdleReader
  /\ UNCHANGED society

PagesNext ==
  \/ \E v \in Views, n \in 1..PageLimit : ReadPage(v, n)
  \/ \E m \in Merchants : ReadStore(m)
  \/ StartAgain
  \/ SocietyNext /\ UNCHANGED reader

PagesSpec == PagesInit /\ [][PagesNext]_pages

---------------------------------------------------------------------------

\* A reader who was told there is no more has seen every row that was in the view,
\* at the same place, at each of his pages, however votes, pins, sales and new
\* rows moved the others; and none of those was given to him twice.  The one
\* exception is a page of a store whose last row was pinned or unpinned before the
\* next, and only there can the next page be refused.
PagesWhole ==
  /\ reader.pc = "done" /\ ~reader.slid => reader.kept \subseteq reader.seen
  /\ ~reader.slid => reader.kept \cap reader.twice = {}
  /\ reader.slid \/ reader.pc = "refused" => reader.view[1] = "store"
=============================================================================
