----------------------------- MODULE OrderPages -----------------------------
(***************************************************************************)
(* The pages on which a signed-in user follows orders: the list of orders  *)
(* (the customer's or the admin's), the page of one order, which polls it, *)
(* and the notifications.  One of them is mounted at a time.  Behind the   *)
(* gateway orders move as OrderLifecycle says, notifications arrive as     *)
(* Inbox says, and any call may fail.                                      *)
(***************************************************************************)
EXTENDS ListPage, SequencesExt

CONSTANTS
    Me,             \* the user
    MaxOrders,      \* bound: orders placed; an order's id is its number
    Mine,           \* the orders that are the user's own
    Filters,        \* the status tabs of the order lists
    PageSize,       \* rows of a list page (10 or 15 in the code)
    MaxVisits,      \* bound: pages opened, turned or filtered
    MaxClicks,      \* bound: notifications clicked
    MaxInbox,       \* bound: notifications that arrive
    MaxFaults       \* bound: calls that fail

Orders == 1..MaxOrders

ASSUME OrderPagesConstants ==
    /\ MaxOrders \in Nat /\ Mine \subseteq 1..MaxOrders /\ PageSize \in Nat \ {0}
    /\ MaxVisits \in Nat /\ MaxClicks \in Nat /\ MaxInbox \in Nat /\ MaxFaults \in Nat

VARIABLES
    status, charge, \* the orders and their payments: see OrderLifecycle
    inbox,          \* the user's notifications: see Inbox
    admin,          \* the user is an admin
    route,          \* the page that is mounted
    view, calls,    \* a list page and the lists it has asked for: see ListPage
    detail,         \* the order page
    fetch,          \* the fetchOrder call of its tick
    timer,          \* its poll timer is armed
    cancel,         \* its cancelOrder call
    mark,           \* mark[k]: the k-th markNotificationRead call
    visits,         \* pages opened, turned or filtered so far
    faults          \* failures so far

server == <<status, charge, inbox>>
listPage == <<view, calls>>
orderPage == <<detail, fetch, timer, cancel>>
vars == <<status, charge, inbox, admin, route, view, calls, detail, fetch, timer, cancel,
          mark, visits, faults>>

Backend == INSTANCE OrderLifecycle
Mail == INSTANCE Inbox WITH Customers <- {Me}, Entry <- {"event"}

Fault == faults < MaxFaults /\ faults' = faults + 1

Polling == {"PENDING", "AWAITING_PAYMENT"}
Terminal == {"PAID", "PAYMENT_FAILED", "CANCELLED"}

\* order: the status shown, "NONE" before any; payment: the outcome shown, or "NONE".
NoDetail == [id |-> 0, order |-> "NONE", payment |-> "NONE", loading |-> TRUE, error |-> FALSE]
NoFetch == [step |-> "none", order |-> "NONE", payment |-> "NONE"]
Idle == [id |-> 0, phase |-> "unused"]
Over == [id |-> 0, phase |-> "done"]

Init ==
    /\ Backend!Init /\ Mail!Init
    /\ admin \in BOOLEAN
    /\ route = "elsewhere"
    /\ view = NewView("all") /\ calls = <<>>
    /\ detail = NoDetail /\ fetch = NoFetch /\ timer = FALSE /\ cancel = "none"
    /\ mark = [k \in 1..MaxClicks |-> Idle]
    /\ visits = 0
    /\ faults = 0

-----------------------------------------------------------------------------
(* What happens without the user's pages: checkouts, payments, another tab *)
(* or an admin who cancels; order ids are given in order.                  *)

OrderMoves ==
    /\ \E o \in Orders :
        \/ (\A p \in Orders : p < o => status[p] # "NONE") /\ Backend!Place(o)
        \/ Backend!Confirm(o) \/ Backend!Cancel(o) \/ Backend!Charge(o) \/ Backend!Settle(o)
    /\ UNCHANGED <<inbox, admin, route, listPage, orderPage, mark, visits, faults>>

MailArrives ==
    /\ Len(inbox[Me]) < MaxInbox
    /\ Mail!Deliver(Me, "event")
    /\ UNCHANGED <<status, charge, admin, route, listPage, orderPage, mark, visits, faults>>

-----------------------------------------------------------------------------
(* What order-, payment- and notification-service answer.                  *)

\* A customer finds the own orders, an admin all; the two ids are compared in lower
\* case, since SQL Server spells them in upper case.
FoundVerbatim(o) == status[o] # "NONE" /\ admin
Found(o) == status[o] # "NONE" /\ (admin \/ o \in Mine)

\* usp_Order_ListByCustomer: newest first.
Matching(filter) ==
    {o \in Orders : Found(o) /\ filter \in {"all", status[o]}}
OrderList(filter) == NewestFirst(Matching(filter))
Letters == Reverse([n \in DOMAIN inbox[Me] |-> [id |-> n, read |-> inbox[Me][n].read]])

\* sp_payment_get_by_order.
PaymentOfAny(o) == IF \E p \in Orders : charge[p] # "NONE"
                   THEN charge[CHOOSE p \in Orders : charge[p] # "NONE"] ELSE "NONE"
PaymentOf(o) == charge[o]

-----------------------------------------------------------------------------
(* Navigation: the page that is left takes its state with it.              *)

Lists == {"orders", "admin/orders", "notifications"}
Kind == CASE route' = "orders" -> OrdersPage
          [] route' = "admin/orders" -> AdminOrdersPage
          [] OTHER -> NotificationsPage

Visit == visits < MaxVisits /\ visits' = visits + 1

Ask(next) ==
    /\ view' = next
    /\ calls' = Calls(Kind, calls, next)

OpenList(to) ==
    /\ route # to
    /\ to = "admin/orders" => admin
    /\ Visit
    /\ route' = to
    /\ Ask(NewView("all"))
    /\ detail' = NoDetail /\ fetch' = NoFetch /\ timer' = FALSE /\ cancel' = "none"
    /\ UNCHANGED <<server, admin, mark, faults>>

\* From the list, from the checkout, or by its address (which may be another user's
\* order).  The effect's first tick.
OpenOrder(o) ==
    /\ route # "order" /\ status[o] # "NONE"
    /\ Visit
    /\ route' = "order"
    /\ view' = NewView("all") /\ calls' = <<>>
    /\ detail' = [NoDetail EXCEPT !.id = o]
    /\ fetch' = [NoFetch EXCEPT !.step = "order"]
    /\ UNCHANGED <<server, admin, timer, cancel, mark, faults>>

-----------------------------------------------------------------------------
(* The list pages.                                                         *)

TurnTo(page) ==
    /\ route \in Lists /\ UNCHANGED route
    /\ page \in Offered(Kind, view, PageSize) \ {view.page}
    /\ Visit
    /\ Ask(Turned(Kind, view, page))
    /\ UNCHANGED <<server, admin, orderPage, mark, faults>>

Choose(filter) ==
    /\ route \in Lists \ {"notifications"} /\ UNCHANGED route
    /\ Key(view) # [page |-> 1, filter |-> filter]
    /\ Visit
    /\ Ask(Filtered(Kind, view, filter))
    /\ UNCHANGED <<server, admin, orderPage, mark, faults>>

\* order-service reads rows and total in one query, notification-service in two.
ReadList(c) ==
    /\ IF route = "notifications"
       THEN \/ ~calls[c].read /\ calls' = [calls EXCEPT ![c] = EntriesRead(@, Letters, PageSize)]
            \/ ~calls[c].counted /\ calls' = [calls EXCEPT ![c] = Counted(@, Letters)]
       ELSE /\ ~Answered(calls[c])
            /\ calls' = [calls EXCEPT ![c] = RowsRead(@, OrderList(@.filter), PageSize)]
    /\ UNCHANGED <<server, admin, route, view, orderPage, mark, visits, faults>>

ShowList(c) ==
    /\ Answered(calls[c]) /\ UNCHANGED route
    /\ view' = Shown(Kind, view, calls[c]) /\ calls' = RemoveAt(calls, c)
    /\ UNCHANGED <<server, admin, orderPage, mark, visits, faults>>

ListFails(c) ==
    /\ Fault
    /\ view' = Failed(view) /\ calls' = RemoveAt(calls, c)
    /\ UNCHANGED <<server, admin, route, orderPage, mark, visits>>

-----------------------------------------------------------------------------
(* OrderDetailPage: tick, fetchOrder and the timer.                        *)

\* The gateway's findById: the order is found or not.  (The payment it adds, if
\* payment-service answers within three seconds, is not what the page shows.)
ReadOrder ==
    /\ fetch.step = "order"
    /\ fetch' = IF Found(detail.id) THEN [fetch EXCEPT !.step = "found", !.order = status[detail.id]]
                ELSE [fetch EXCEPT !.step = "refused"]
    /\ UNCHANGED <<server, admin, route, listPage, detail, timer, cancel, mark, visits, faults>>

\* The tick ends: a polled status arms the timer, anything else ends the polling.
TickedOnce(order) == fetch' = NoFetch /\ timer' = FALSE
Ticked(order) == fetch' = NoFetch /\ timer' = (order \in Polling)

\* The order is shown, and its payment asked for unless the order is still moving.
ShowOrder ==
    /\ fetch.step = "found"
    /\ IF fetch.order \in Polling
       THEN /\ detail' = [detail EXCEPT !.order = fetch.order, !.error = FALSE, !.loading = FALSE]
            /\ Ticked(fetch.order)
       ELSE /\ detail' = [detail EXCEPT !.order = fetch.order, !.error = FALSE]
            /\ fetch' = [fetch EXCEPT !.step = "payment"] /\ UNCHANGED timer
    /\ UNCHANGED <<server, admin, route, listPage, cancel, mark, visits, faults>>

ReadPayment ==
    /\ fetch.step = "payment"
    /\ fetch' = [fetch EXCEPT !.step = "paid", !.payment = PaymentOf(detail.id)]
    /\ UNCHANGED <<server, admin, route, listPage, detail, timer, cancel, mark, visits, faults>>

\* A payment that does not exist, and a call that fails, leave the old one shown.
EndWithPayment ==
    /\ \/ fetch.step = "paid" /\ UNCHANGED faults
       \/ fetch.step = "payment" /\ Fault
    /\ detail' = [detail EXCEPT !.loading = FALSE,
                                !.payment = IF fetch.payment = "NONE" THEN @ ELSE fetch.payment]
    /\ Ticked(fetch.order)
    /\ UNCHANGED <<server, admin, route, listPage, cancel, mark, visits>>

\* The order is refused or the call fails: the error is shown and nothing polls on.
EndWithError ==
    /\ \/ fetch.step = "refused" /\ UNCHANGED faults
       \/ fetch.step \in {"order", "found"} /\ Fault
    /\ detail' = [detail EXCEPT !.loading = FALSE, !.error = TRUE]
    /\ Ticked("NONE")
    /\ UNCHANGED <<server, admin, route, listPage, cancel, mark, visits>>

TimerFires ==
    /\ timer /\ timer' = FALSE
    /\ fetch' = [NoFetch EXCEPT !.step = "order"]
    /\ UNCHANGED <<server, admin, route, listPage, detail, cancel, mark, visits, faults>>

-----------------------------------------------------------------------------
(* handleCancel.  A call that outlives its page is the other tab's Cancel. *)

ClickCancel ==
    /\ ~detail.loading /\ detail.order \in Polling
    /\ cancel = "none" /\ cancel' = "asked"
    /\ UNCHANGED <<server, admin, route, listPage, detail, fetch, timer, mark, visits, faults>>

\* The dialog stays open, and its buttons work, when the order has moved on meanwhile.
AnswerDialog ==
    /\ cancel = "asked" /\ cancel' \in {"none", "sent"}
    /\ UNCHANGED <<server, admin, route, listPage, detail, fetch, timer, mark, visits, faults>>

\* usp_Order_Cancel, for the user's own PENDING order or, for an admin, for any.
CancelOrder ==
    /\ cancel = "sent"
    /\ IF Found(detail.id) /\ status[detail.id] = "PENDING"
       THEN Backend!Cancel(detail.id) /\ cancel' = "applied"
       ELSE UNCHANGED <<status, charge>> /\ cancel' = "refused"
    /\ UNCHANGED <<inbox, admin, route, listPage, detail, fetch, timer, mark, visits, faults>>

\* A cancelled order is shown as it is read back; a refusal is a toast.
CancelAnswered ==
    /\ cancel \in {"applied", "refused"} /\ cancel' = "none"
    /\ detail' = IF cancel = "applied" THEN [detail EXCEPT !.order = status[detail.id]] ELSE detail
    /\ UNCHANGED <<server, admin, route, listPage, fetch, timer, mark, visits, faults>>

CancelFails ==
    /\ cancel \in {"sent", "applied"} /\ cancel' = "none"
    /\ Fault
    /\ UNCHANGED <<server, admin, route, listPage, detail, fetch, timer, mark, visits>>

-----------------------------------------------------------------------------
(* NotificationsPage: handleMarkRead shows a notification read at once ... *)

ShowAs(id, read) ==
    [view EXCEPT !.items = [n \in DOMAIN @ |-> IF @[n].id = id THEN [@[n] EXCEPT !.read = read] ELSE @[n]]]
Listed == route = "notifications"

Click(k, n) ==
    /\ Listed /\ ~view.loading
    /\ mark[k] = Idle
    /\ ~view.items[n].read
    /\ view' = ShowAs(view.items[n].id, TRUE)
    /\ mark' = [mark EXCEPT ![k] = [id |-> view.items[n].id, phase |-> "sent"]]
    /\ UNCHANGED <<server, admin, route, calls, orderPage, visits, faults>>

\* ... while the server updates it, perhaps after the page has given up, ...
MarkRead(k) ==
    /\ mark[k].phase \in {"sent", "abandoned"}
    /\ Mail!MarkRead(Me, mark[k].id)
    /\ mark' = [mark EXCEPT ![k] = IF @.phase = "sent" THEN [@ EXCEPT !.phase = "applied"] ELSE Over]
    /\ UNCHANGED <<status, charge, admin, route, listPage, orderPage, visits, faults>>

MarkAnswered(k) ==
    /\ mark[k].phase = "applied"
    /\ mark' = [mark EXCEPT ![k] = Over]
    /\ UNCHANGED <<server, admin, route, listPage, orderPage, visits, faults>>

\* ... and unread again when the call fails, whatever the server has done.
RolledBackNever(id) == view
RolledBack(id) == IF Listed THEN ShowAs(id, FALSE) ELSE view

MarkFails(k) ==
    /\ mark[k].phase \in {"sent", "applied"}
    /\ Fault
    /\ view' = RolledBack(mark[k].id)
    /\ mark' = [mark EXCEPT ![k] = IF @.phase = "sent" THEN [@ EXCEPT !.phase = "abandoned"] ELSE Over]
    /\ UNCHANGED <<server, admin, route, calls, orderPage, visits>>

-----------------------------------------------------------------------------
ListStep ==
    \/ \E to \in Lists : OpenList(to)
    \/ \E page \in 1..Greater(MaxOrders, MaxInbox) : TurnTo(page)
    \/ \E filter \in Filters : Choose(filter)
    \/ \E c \in DOMAIN calls : ReadList(c) \/ ShowList(c) \/ ListFails(c)
OrderStep ==
    \/ \E o \in Orders : OpenOrder(o)
    \/ ReadOrder \/ ShowOrder \/ ReadPayment \/ EndWithPayment \/ EndWithError \/ TimerFires
    \/ ClickCancel \/ AnswerDialog \/ CancelOrder \/ CancelAnswered \/ CancelFails
MarkStep ==
    \E k \in 1..MaxClicks :
        \/ \E n \in DOMAIN view.items : Click(k, n)
        \/ MarkRead(k) \/ MarkAnswered(k) \/ MarkFails(k)

Next == OrderMoves \/ MailArrives \/ ListStep \/ OrderStep \/ MarkStep

\* Calls are answered or time out, timers fire; neither the user nor an order must move.
Fairness ==
    /\ WF_vars(ReadOrder \/ ShowOrder \/ ReadPayment \/ (fetch.step = "paid" /\ EndWithPayment)
               \/ (fetch.step = "refused" /\ EndWithError))
    /\ WF_vars(TimerFires)

Spec == Init /\ [][Next]_vars
FairSpec == Spec /\ Fairness

-----------------------------------------------------------------------------
(* Properties.                                                             *)

\* Every variable has its shape.
TypeOK ==
    /\ Backend!TypeOK
    /\ route \in Lists \cup {"order", "elsewhere"}
    /\ detail.id \in Orders \cup {0} /\ detail.order \in Backend!Status
    /\ detail.payment \in Backend!Outcome \cup {"NONE"}
    /\ fetch.step \in {"none", "order", "found", "refused", "payment", "paid"}
    /\ timer \in BOOLEAN /\ cancel \in {"none", "asked", "sent", "applied", "refused"}
    /\ visits \in 0..MaxVisits /\ faults \in 0..MaxFaults

\* A list that is neither loading nor in error is the page and the filter its tabs and
\* pager name, however the answers of earlier tabs and pages arrive.
ShowsItsList == route \in Lists => ShowsItsKey(view)

\* No page waits for an answer that cannot come.
NothingWaitsInVain ==
    /\ route \in Lists /\ view.loading => calls # <<>>
    /\ route = "order" /\ detail.loading => fetch # NoFetch

\* While the page shows an order that may still move, and no error, it is polled by one
\* call or one timer: a cancellation answered in between neither stops nor doubles it.
PolledOnce ==
    /\ route = "order" /\ detail.order \in Polling /\ ~detail.error => timer \/ fetch # NoFetch
    /\ ~(timer /\ fetch # NoFetch)

PageInv == TypeOK /\ NothingWaitsInVain /\ PolledOnce

\* A user is shown the own orders, an admin every order, and nobody is told of an own
\* order that it was not found, though its owner is spelt otherwise than the user's id.
FindsOwnOrders ==
    /\ route = "order" /\ detail.order # "NONE" => admin \/ detail.id \in Mine
    /\ route = "order" /\ detail.error /\ faults = 0 => ~admin /\ detail.id \notin Mine

\* An order and a payment that are shown together, though read from two services at two
\* times, agree: a settled order never appears with the other outcome.
ShownPaymentAgrees ==
    route = "order" /\ detail.payment # "NONE" =>
        /\ detail.order = "PAID" => detail.payment = "SUCCEEDED"
        /\ detail.order = "PAYMENT_FAILED" => detail.payment = "FAILED"

\* A notification is shown as read only if it is, or if a call that will make it so (or
\* take it back) is under way: through failures, late answers and other pages.
ShownReadIsRead ==
    Listed => \A n \in DOMAIN view.items : view.items[n].read =>
        \/ inbox[Me][view.items[n].id].read
        \/ \E k \in 1..MaxClicks : mark[k].id = view.items[n].id /\ mark[k].phase = "sent"

\* An order that has come to its end is shown so in the end, without a reload, unless
\* the page shows an error or is left: polling misses no change and ends only after it.
EndIsShown ==
    \A o \in Orders :
        route = "order" /\ detail.id = o /\ Found(o) /\ status[o] \in Terminal
            ~> route # "order" \/ detail.error \/ detail.order = status[o]
=============================================================================
