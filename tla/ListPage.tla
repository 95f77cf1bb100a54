------------------------------ MODULE ListPage ------------------------------
(***************************************************************************)
(* What the frontend's list pages share: a view of one page of a filtered  *)
(* list, the calls under way for it, and the pager below it.  A page of    *)
(* the frontend is one of the records below; its view changes by the       *)
(* operators of this module, which the modules that own a list apply.      *)
(***************************************************************************)
EXTENDS Integers, Sequences, FiniteSets

\* discards: the cleanup of the effect makes the answers of older calls void.
\* clears:   when an error alert goes away, on the next "ask", the next good
\*           "answer", or "never".
\* pager:    the pager is there also when the list is empty.
CatalogPage       == [discards |-> TRUE,  clears |-> "ask",    pager |-> FALSE]
OrdersPage        == [discards |-> TRUE,  clears |-> "ask",    pager |-> FALSE]
AdminOrdersPage   == [discards |-> TRUE,  clears |-> "answer", pager |-> FALSE]
NotificationsPage == [discards |-> TRUE,  clears |-> "never",  pager |-> FALSE]
AdminProductsPage == [discards |-> FALSE, clears |-> "answer", pager |-> TRUE]

Lesser(a, b) == IF a < b THEN a ELSE b
Greater(a, b) == IF a > b THEN a ELSE b

-----------------------------------------------------------------------------
(* The server's side of a list.                                            *)

\* The listed ids from the newest, which is the largest, to the oldest: the n-th has n-1
\* newer ones.  (The code sorts by the time of creation alone and leaves open how two
\* entries of one instant are ordered; here no two are of one instant.)
NewestFirst(ids) ==
    [n \in 1..Cardinality(ids) |-> CHOOSE x \in ids : Cardinality({y \in ids : y >= x}) = n]

\* Page `page` of a list, `limit` entries to a page.
Slice(list, page, limit) ==
    SubSeq(list, (page - 1) * limit + 1, Lesser(page * limit, Len(list)))

\* MongoDB: the entries and their number are two queries.  (A call has its
\* entries when read = TRUE, its total when counted = TRUE.)
EntriesRead(call, list, limit) ==
    [call EXCEPT !.read = TRUE, !.items = Slice(list, call.page, limit)]
Counted(call, list) == [call EXCEPT !.counted = TRUE, !.total = Len(list)]

\* SQL Server: COUNT(*) OVER() rides on every row, so a page without rows has total 0.
RowsRead(call, list, limit) ==
    LET rows == Slice(list, call.page, limit)
    IN  [call EXCEPT !.read = TRUE, !.items = rows, !.counted = TRUE,
                     !.total = IF rows = <<>> THEN 0 ELSE Len(list)]

Answered(call) == call.read /\ call.counted

-----------------------------------------------------------------------------
(* The view.                                                               *)

Key(x) == [page |-> x.page, filter |-> x.filter]

\* of: the page and filter the items shown belong to (page 0 before any answer).
NewView(filter) ==
    [page |-> 1, filter |-> filter, items |-> <<>>, total |-> 0,
     loading |-> TRUE, error |-> FALSE, of |-> [page |-> 0, filter |-> filter]]

NewCall(view) ==
    [page |-> view.page, filter |-> view.filter, items |-> <<>>, total |-> 0,
     read |-> FALSE, counted |-> FALSE]

\* The effect runs: one more call is under way, and the older ones count or not.
Asking(kind, view) ==
    [view EXCEPT !.loading = TRUE, !.error = IF kind.clears = "ask" THEN FALSE ELSE @]
CallsKept(kind, calls, view) == Append(calls, NewCall(view))
Calls(kind, calls, view) ==
    IF kind.discards THEN <<NewCall(view)>> ELSE CallsKept(kind, calls, view)

\* Another page, or another filter, which starts over at page 1.
Turned(kind, view, page) == Asking(kind, [view EXCEPT !.page = page])
Filtered(kind, view, filter) == Asking(kind, [view EXCEPT !.filter = filter, !.page = 1])

\* A call that counts is answered, or fails and leaves the old entries in place.
Shown(kind, view, call) ==
    [view EXCEPT !.items = call.items, !.total = call.total, !.of = Key(call),
                 !.loading = FALSE, !.error = IF kind.clears = "answer" THEN FALSE ELSE @]
Failed(view) == [view EXCEPT !.loading = FALSE, !.error = TRUE]

-----------------------------------------------------------------------------
(* The pager.                                                              *)

PageCount(total, limit) == Greater(1, (total + limit - 1) \div limit)

\* The pages its buttons lead to: five in a row around the current one, the first, the
\* last, and the neighbours; no buttons at all for a single page.
Offered(kind, view, limit) ==
    LET last  == PageCount(view.total, limit)
        start == Greater(1, view.page - 2)
        end   == Lesser(last, start + 4)
        buttons == start..end \cup {p \in {1} : start > 1} \cup {p \in {last} : end < last}
                    \cup {p \in {view.page - 1} : view.page > 1}
                    \cup {p \in {view.page + 1} : view.page < last}
    IN  IF view.loading \/ last = 1 \/ (view.items = <<>> /\ ~kind.pager) THEN {} ELSE buttons

\* What a view that is neither loading nor in error shows is the page and filter it names.
Settled(view) == ~view.loading /\ ~view.error
ShowsItsKey(view) == Settled(view) => view.of = Key(view)
=============================================================================
