------------------------------- MODULE Paging -------------------------------
(***************************************************************************)
(* GET /admin/dlq and GET /admin/held (app.py, store/sqlite.py: list_dlq,  *)
(* list_held): a client walks a list page by page, newest first, while the *)
(* engine keeps changing it.  A page is one SELECT, so it is atomic; the   *)
(* walk is not.                                                            *)
(*                                                                         *)
(* The two lists differ in where a row may appear.  A row of dlq is        *)
(* inserted with the next id.  An event is held when its verdict comes, so *)
(* it appears at an id given out some time before, and leaves the list     *)
(* when it is released.                                                    *)
(***************************************************************************)
EXTENDS Integers, Sequences, FiniteSets, FiniteSetsExt, Functions

CONSTANTS
  LastId,         \* bound of the model: ids of the table
  Limits,         \* values of the query parameter limit
  DLQ_MAX_LIMIT,  \* the server's ceiling
  MaxPages,       \* bound of the model: requests of a walk, more than any walk needs
  NoCursor        \* before_id, or next_before_id, is None

ASSUME PagingAssumption ==
  /\ LastId \in Nat
  /\ Limits \subseteq Int
  /\ DLQ_MAX_LIMIT \in Nat \ {0} /\ MaxPages \in Nat
  /\ NoCursor \notin Int

VARIABLES
  route,    \* "held" or "dlq", the list the client walks
  listed,   \* ids the query would return with no limit
  next,     \* the id AUTOINCREMENT gives out next
  limit,    \* the parameter the client walks with
  cursor,   \* before_id of the next request
  pages,    \* responses so far: the ids of each page
  walk,     \* "idle", "walking" or "done"
  steady    \* history: ids that have been listed ever since the walk began

vars == <<route, listed, next, limit, cursor, pages, walk, steady>>

Id == 1..LastId

TypeOK ==
  /\ route \in {"held", "dlq"}
  /\ listed \subseteq Id
  /\ next \in 1..(LastId + 1)
  /\ limit \in Limits
  /\ cursor \in Id \cup {NoCursor}
  /\ pages \in Seq(Seq(Id))
  /\ walk \in {"idle", "walking", "done"}
  /\ steady \subseteq Id

Init ==
  /\ route \in {"held", "dlq"}
  /\ next \in 1..(LastId + 1)
  /\ listed \in SUBSET (1..(next - 1))
  /\ limit \in Limits
  /\ cursor = NoCursor
  /\ pages = <<>>
  /\ walk = "idle"
  /\ steady = {}

-----------------------------------------------------------------------------
(* The table, written by everyone else. *)

(* INSERT INTO dlq; for the other list, an event is stored, not yet held. *)
Insert ==
  /\ next <= LastId
  /\ next' = next + 1
  /\ listed' = IF route = "held" THEN listed ELSE listed \cup {next}
  /\ UNCHANGED <<route, limit, cursor, pages, walk, steady>>

(* mark_quarantined, once the detector has answered; a released event that *)
(* a redelivery screens again may come back.                               *)
Quarantine ==
  /\ route = "held"
  /\ \E i \in 1..(next - 1) \ listed : listed' = listed \cup {i}
  /\ UNCHANGED <<route, next, limit, cursor, pages, walk, steady>>

(* The sweep, the cascade of a swept event, or a release. *)
Remove ==
  /\ \E i \in listed :
       /\ listed' = listed \ {i}
       /\ steady' = steady \ {i}
  /\ UNCHANGED <<route, next, limit, cursor, pages, walk>>

-----------------------------------------------------------------------------
(* The request. *)

Effective(n) == Max({1, Min({n, DLQ_MAX_LIMIT})})

(* Mutant: the cursor includes the row it names. *)
AtOrBelow(rows, c) == IF c = NoCursor THEN rows ELSE {i \in rows : i <= c}

(* Mutant: OFFSET in place of the keyset. *)
AfterOffset(rows, c) ==
  {i \in rows : Cardinality({j \in rows : j > i}) >= Cardinality(UNION {Range(p) : p \in Range(pages)})}

(* WHERE id < before_id *)
Below(rows, c) == IF c = NoCursor THEN rows ELSE {i \in rows : i < c}

(* ORDER BY id DESC LIMIT n; a negative LIMIT is none. *)
Descending(rows) ==
  [k \in 1..Cardinality(rows) |-> CHOOSE i \in rows : Cardinality({j \in rows : j > i}) = k - 1]

Select(rows, c, n) ==
  LET sorted == Descending(Below(rows, c))
  IN  SubSeq(sorted, 1, IF n < 0 THEN Len(sorted) ELSE Min({n, Len(sorted)}))

(* A cursor on a full page, None on a short one. *)
NextCursor(page, n) == IF Len(page) = n THEN page[Len(page)] ELSE NoCursor

Start ==
  /\ walk = "idle"
  /\ walk' = "walking"
  /\ steady' = listed
  /\ UNCHANGED <<route, listed, next, limit, cursor, pages>>

(* One request and its response; the client stops when no cursor comes. *)
Page ==
  /\ walk = "walking" /\ Len(pages) < MaxPages
  /\ LET n == Effective(limit)
         page == Select(listed, cursor, n)
     IN  /\ pages' = Append(pages, page)
         /\ cursor' = NextCursor(page, n)
         /\ walk' = IF NextCursor(page, n) = NoCursor THEN "done" ELSE "walking"
  /\ UNCHANGED <<route, listed, next, limit, steady>>

Next == Insert \/ Quarantine \/ Remove \/ Start \/ Page

Spec == Init /\ [][Next]_vars

(* The client keeps asking while it is offered a cursor. *)
FairSpec == Spec /\ WF_vars(Start) /\ WF_vars(Page)

-----------------------------------------------------------------------------
(* Properties. *)

Seen == UNION {Range(p) : p \in Range(pages)}

(* "OFFSET would skip a row for every deletion behind the cursor"          *)
(* (sqlite.py:623): whatever is inserted, held, swept or released during   *)
(* the walk, a row that was listed all along is on some page.              *)
NothingSkipped == walk = "done" => steady \subseteq Seen

(* No row is shown twice, on one page or on two.                           *)
NothingRepeated ==
  \A p, q \in DOMAIN pages : \A k \in DOMAIN pages[p], l \in DOMAIN pages[q] :
    pages[p][k] = pages[q][l] => <<p, k>> = <<q, l>>

(* A walk ends although rows keep appearing: no client is made to "loop on *)
(* an empty result forever" (app.py:367).                                  *)
WalkEnds == (walk = "walking") ~> (walk = "done")
=============================================================================
