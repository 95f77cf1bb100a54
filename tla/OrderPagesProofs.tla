-------------------------- MODULE OrderPagesProofs --------------------------
(***************************************************************************)
(* Theorems about OrderPages: its pages show the list their tabs name, the *)
(* user's own orders, a payment that agrees with the order, and read marks *)
(* that are true; the order page polls once and waits for no answer that   *)
(* cannot come.                                                            *)
(***************************************************************************)
EXTENDS OrderPages, TLAPS

Seqs == INSTANCE SequenceTheorems

-----------------------------------------------------------------------------
(* The inductive invariant.                                                *)

Status == Backend!Status
Outcome == Backend!Outcome

\* A settled order was settled by its own charge.
LifeInv ==
    /\ Backend!TypeOK
    /\ \A o \in Orders :
        /\ status[o] = "PAID" => charge[o] = "SUCCEEDED"
        /\ status[o] = "PAYMENT_FAILED" => charge[o] = "FAILED"

InboxInv == inbox \in [{Me} -> Seq([entry : {"event"}, read : BOOLEAN])]
BoundInv == visits \in 0..MaxVisits /\ faults \in 0..MaxFaults /\ admin \in BOOLEAN

\* A list page has asked at most once for what it names, and waits exactly then.
Letter == [id : DOMAIN inbox[Me], read : BOOLEAN]
IsView(v) ==
    v = [page |-> v.page, filter |-> v.filter, items |-> v.items, total |-> v.total,
         loading |-> v.loading, error |-> v.error, of |-> v.of]
IsCall(c) ==
    c = [page |-> c.page, filter |-> c.filter, items |-> c.items, total |-> c.total,
         read |-> c.read, counted |-> c.counted]
Asked(c) == IsCall(c) /\ Key(c) = Key(view) /\ (Listed => c.items \in Seq(Letter))
ListInv ==
    /\ IsView(view) /\ view.page \in Nat \ {0}
    /\ view.loading \in BOOLEAN /\ view.error \in BOOLEAN
    /\ calls = <<>> \/ (calls = <<calls[1]>> /\ Asked(calls[1]) /\ view.loading)
    /\ route \notin Lists => calls = <<>>
    /\ route \in Lists /\ view.loading => calls # <<>>
    /\ Listed => view.items \in Seq(Letter)
    /\ ShowsItsList

\* What an answer says is read is read.
Mark == [id : Nat, phase : {"unused", "sent", "applied", "abandoned", "done"}]
ReadInv ==
    /\ mark \in [1..MaxClicks -> Mark]
    /\ ShownReadIsRead
    /\ Listed /\ calls # <<>> =>
        \A n \in DOMAIN calls[1].items :
            calls[1].items[n].read => inbox[Me][calls[1].items[n].id].read

\* The order page knows of its order nothing that is not true, or was until it moved on.
Detail == [id : Orders \cup {0}, order : Status, payment : Outcome \cup {"NONE"},
           loading : BOOLEAN, error : BOOLEAN]
Fetch == [step : {"none", "order", "found", "refused", "payment", "paid"},
          order : Status, payment : Outcome \cup {"NONE"}]
Away == detail = NoDetail /\ fetch = NoFetch /\ timer = FALSE /\ cancel = "none"
FetchInv ==
    /\ fetch.step = "none" => fetch = NoFetch
    /\ fetch.step = "refused" => ~admin /\ detail.id \notin Mine
    /\ fetch.step \in {"found", "payment", "paid"} => Found(detail.id) /\ fetch.order # "NONE"
    /\ fetch.order \in Terminal => status[detail.id] = fetch.order
    /\ fetch.step \in {"payment", "paid"} => fetch.order \in Terminal /\ detail.order = fetch.order
    /\ fetch.payment # "NONE" => charge[detail.id] = fetch.payment
DetailInv ==
    /\ detail.order # "NONE" => Found(detail.id)
    /\ detail.order \in Terminal => status[detail.id] = detail.order
    /\ detail.payment # "NONE" => charge[detail.id] = detail.payment
    /\ cancel = "applied" => Found(detail.id) /\ status[detail.id] = "CANCELLED"
    /\ detail.error /\ faults = 0 => ~admin /\ detail.id \notin Mine
    /\ detail.loading => fetch # NoFetch
    /\ PolledOnce
OrderInv ==
    /\ detail \in Detail /\ fetch \in Fetch /\ timer \in BOOLEAN
    /\ cancel \in {"none", "asked", "sent", "applied", "refused"}
    /\ route \in Lists \cup {"order", "elsewhere"}
    /\ route # "order" => Away
    /\ route = "order" =>
        /\ detail.id \in Orders /\ status[detail.id] # "NONE"
        /\ FetchInv /\ DetailInv

Inv == LifeInv /\ InboxInv /\ BoundInv /\ ListInv /\ ReadInv /\ OrderInv

-----------------------------------------------------------------------------
(* The orders and the inbox behind the pages.                              *)

\* What a page knows of the backend stays true: an order does not vanish, its end and its
\* charge are final.
Onward ==
    \A o \in Orders :
        /\ status[o] # "NONE" => status'[o] # "NONE"
        /\ status[o] \in Terminal => status'[o] = status[o]
        /\ charge[o] # "NONE" => charge'[o] = charge[o]

\* An order that moves was not at its end, and moves to one its charge allows.
LEMMA MoveKeeps ==
    ASSUME LifeInv, NEW o \in Orders, NEW from \in Status, NEW to \in Status,
           from \notin Terminal, to # "NONE", Backend!Move(o, from, to),
           to = "PAID" => charge[o] = "SUCCEEDED",
           to = "PAYMENT_FAILED" => charge[o] = "FAILED"
    PROVE  LifeInv' /\ Onward
<1>1. /\ status \in [Orders -> Status] /\ charge \in [Orders -> Outcome \cup {"NONE"}]
      /\ status[o] = from /\ status' = [status EXCEPT ![o] = to] /\ charge' = charge
  BY DEF LifeInv, Backend!TypeOK, Backend!Move, Status, Outcome
<1>2. Backend!TypeOK'
  BY <1>1 DEF Backend!TypeOK, Status, Outcome
<1>3. status'[o] = to /\ \A p \in Orders : p # o => status'[p] = status[p]
  BY <1>1
<1> QED
  BY <1>1, <1>2, <1>3 DEF LifeInv, Onward

\* An order is charged once, and nothing else changes.
LEMMA ChargeKeeps ==
    ASSUME LifeInv, NEW o \in Orders, Backend!Charge(o)
    PROVE  LifeInv' /\ Onward
<1>1. PICK outcome \in Outcome : charge' = [charge EXCEPT ![o] = outcome]
  BY DEF Backend!Charge, Outcome
<1>2. /\ status \in [Orders -> Status] /\ charge \in [Orders -> Outcome \cup {"NONE"}]
      /\ charge[o] = "NONE" /\ status' = status
  BY DEF LifeInv, Backend!TypeOK, Backend!Charge, Status, Outcome
<1>3. charge'[o] = outcome /\ \A p \in Orders : p # o => charge'[p] = charge[p]
  BY <1>1, <1>2
<1>4. Backend!TypeOK'
  BY <1>1, <1>2 DEF Backend!TypeOK, Status, Outcome
<1> QED
  BY <1>2, <1>3, <1>4 DEF LifeInv, Onward

\* Where no order moves, what is known of them stays true.
LEMMA UnmovedKeeps ==
    ASSUME LifeInv, UNCHANGED <<status, charge>>
    PROVE  LifeInv' /\ Onward
BY DEF LifeInv, Onward, Backend!TypeOK

\* Only a pending order is cancelled.
LEMMA CancelKeeps ==
    ASSUME LifeInv, NEW o \in Orders, Backend!Cancel(o)
    PROVE  LifeInv' /\ Onward
<1>1. "PENDING" \in Status /\ "CANCELLED" \in Status /\ "PENDING" \notin Terminal
  BY DEF Status, Backend!Status, Terminal
<1> QED
  BY <1>1, MoveKeeps DEF Backend!Cancel

\* Every step of the pages and of the backend is one of the lifecycle, or none.
LEMMA LifeStep ==
    ASSUME Inv, [Next]_vars
    PROVE  LifeInv' /\ Onward
<1>1. LifeInv
  BY DEF Inv
<1>2. CASE OrderMoves
  <2>1. PICK o \in Orders : Backend!Place(o) \/ Backend!Confirm(o) \/ Backend!Cancel(o)
                            \/ Backend!Charge(o) \/ Backend!Settle(o)
    BY <1>2 DEF OrderMoves
  <2>2. CASE Backend!Place(o)
    <3>1. "NONE" \in Status /\ "PENDING" \in Status /\ "NONE" \notin Terminal
      BY DEF Status, Backend!Status, Terminal
    <3> QED
      BY <1>1, <2>2, <3>1, MoveKeeps DEF Backend!Place
  <2>3. CASE Backend!Confirm(o)
    <3>1. "PENDING" \in Status /\ "AWAITING_PAYMENT" \in Status /\ "PENDING" \notin Terminal
      BY DEF Status, Backend!Status, Terminal
    <3> QED
      BY <1>1, <2>3, <3>1, MoveKeeps DEF Backend!Confirm
  <2>4. CASE Backend!Settle(o)
    <3> DEFINE to == Backend!StatusFor(charge[o])
    <3>1. "AWAITING_PAYMENT" \in Status /\ "AWAITING_PAYMENT" \notin Terminal
      BY DEF Status, Backend!Status, Terminal
    <3>2. /\ charge[o] \in {"SUCCEEDED", "FAILED"}
          /\ Backend!Move(o, "AWAITING_PAYMENT", to)
      BY <2>4 DEF Backend!Settle, Backend!Outcome
    <3>3. /\ to \in Status /\ to # "NONE"
          /\ to = "PAID" => charge[o] = "SUCCEEDED"
          /\ to = "PAYMENT_FAILED" => charge[o] = "FAILED"
      BY <3>2 DEF Status, Backend!Status, Backend!StatusFor
    <3> HIDE DEF to
    <3> QED
      BY <1>1, <3>1, <3>2, <3>3, MoveKeeps
  <2> QED
    BY <1>1, <2>1, <2>2, <2>3, <2>4, CancelKeeps, ChargeKeeps
<1>3. CASE CancelOrder
  <2>1. CASE UNCHANGED <<status, charge>>
    BY <1>1, <2>1, UnmovedKeeps
  <2>2. CASE Found(detail.id) /\ Backend!Cancel(detail.id)
    <3>1. detail.id \in Orders
      <4>1. cancel # "none"
        BY <1>3 DEF CancelOrder
      <4> QED
        BY <4>1 DEF Inv, OrderInv, Away
    <3> QED
      BY <1>1, <2>2, <3>1, CancelKeeps
  <2> QED
    BY <1>3, <2>1, <2>2 DEF CancelOrder
<1>4. CASE MailArrives \/ ListStep \/ MarkStep \/ UNCHANGED vars
  <2>1. UNCHANGED <<status, charge>>
    BY <1>4 DEF MailArrives, ListStep, OpenList, TurnTo, Choose, ReadList, ShowList, ListFails,
                MarkStep, Click, MarkRead, MarkAnswered, MarkFails, server, vars
  <2> QED
    BY <1>1, <2>1, UnmovedKeeps
<1>5. CASE OrderStep /\ ~CancelOrder
  <2>1. UNCHANGED <<status, charge>>
    BY <1>5 DEF OrderStep, OpenOrder, ReadOrder, ShowOrder, ReadPayment, EndWithPayment, EndWithError,
                TimerFires, ClickCancel, AnswerDialog, CancelAnswered, CancelFails, server
  <2> QED
    BY <1>1, <2>1, UnmovedKeeps
<1> QED
  BY <1>2, <1>3, <1>4, <1>5 DEF Next

\* The inbox only grows, and what is read stays read.
Read ==
    /\ InboxInv'
    /\ DOMAIN inbox[Me] \subseteq DOMAIN inbox'[Me]
    /\ \A n \in DOMAIN inbox[Me] : inbox[Me][n].read => inbox'[Me][n].read

\* An inbox that does not change.
LEMMA SameInboxReads ==
    ASSUME InboxInv, UNCHANGED inbox
    PROVE  Read
BY DEF InboxInv, Read

\* A notification that arrives is the newest, and unread.
LEMMA DeliverReads ==
    ASSUME InboxInv, Mail!Deliver(Me, "event")
    PROVE  Read
<1> DEFINE new == Mail!Unread("event")
           L == [entry : {"event"}, read : BOOLEAN]
<1>1. inbox[Me] \in Seq(L) /\ new \in L
  BY DEF InboxInv, Mail!Unread
<1>2. inbox' = [inbox EXCEPT ![Me] = Append(inbox[Me], new)]
  BY DEF Mail!Deliver
<1>3. inbox'[Me] = Append(inbox[Me], new)
  BY <1>2 DEF InboxInv
<1> HIDE DEF new, L
<1>4. /\ Append(inbox[Me], new) \in Seq(L) /\ DOMAIN inbox[Me] \subseteq DOMAIN Append(inbox[Me], new)
      /\ \A n \in DOMAIN inbox[Me] : Append(inbox[Me], new)[n] = inbox[Me][n]
  BY <1>1
<1>5. InboxInv'
  BY <1>2, <1>4 DEF InboxInv, L
<1> QED
  BY <1>3, <1>4, <1>5 DEF Read

\* A notification that is read stays where it is.
LEMMA MarkReadReads ==
    ASSUME InboxInv, NEW n, Mail!MarkRead(Me, n)
    PROVE  Read /\ n \in DOMAIN inbox[Me] /\ inbox'[Me][n].read
<1> DEFINE L == [entry : {"event"}, read : BOOLEAN]
           new == [inbox[Me][n] EXCEPT !.read = TRUE]
           box == [inbox[Me] EXCEPT ![n] = new]
<1>1. inbox[Me] \in Seq(L) /\ n \in DOMAIN inbox[Me] /\ inbox[Me][n] \in L
  <2>1. inbox[Me] \in Seq(L)
    BY DEF InboxInv
  <2>2. n \in DOMAIN inbox[Me]
    BY DEF Mail!MarkRead
  <2> HIDE DEF L
  <2> QED
    BY <2>1, <2>2
<1>2. new \in L /\ new.read
  BY <1>1
<1>3. inbox' = [inbox EXCEPT ![Me] = box]
  <2>1. inbox' = [inbox EXCEPT ![Me][n].read = TRUE]
    BY DEF Mail!MarkRead
  <2>2. inbox' = [inbox EXCEPT ![Me] = [inbox[Me] EXCEPT ![n] = [inbox[Me][n] EXCEPT !.read = TRUE]]]
    BY <2>1, Zenon
  <2> QED
    BY <2>2
<1> HIDE DEF new, L
<1>4. box \in Seq(L) /\ DOMAIN box = DOMAIN inbox[Me] /\ box[n] = new
      /\ \A m \in DOMAIN inbox[Me] : m # n => box[m] = inbox[Me][m]
  BY <1>1, <1>2
<1> HIDE DEF box
<1>5. inbox'[Me] = box
  BY <1>3 DEF InboxInv
<1>6. InboxInv'
  BY <1>3, <1>4 DEF InboxInv, L
<1> QED
  BY <1>1, <1>2, <1>4, <1>5, <1>6 DEF Read

\* Every step leaves the inbox's read notifications read.
LEMMA InboxStep ==
    ASSUME Inv, [Next]_vars
    PROVE  Read
<1>1. InboxInv
  BY DEF Inv
<1>2. CASE MailArrives
  BY <1>1, <1>2, DeliverReads DEF MailArrives
<1>3. CASE \E k \in 1..MaxClicks : MarkRead(k)
  BY <1>1, <1>3, MarkReadReads DEF MarkRead
<1>4. CASE UNCHANGED inbox
  BY <1>1, <1>4, SameInboxReads
<1>5. CASE MarkStep
  BY <1>3, <1>4, <1>5 DEF MarkStep, Click, MarkAnswered, MarkFails, server
<1>6. CASE OrderMoves \/ ListStep \/ UNCHANGED vars
  BY <1>4, <1>6 DEF OrderMoves, ListStep, OpenList, TurnTo, Choose, ReadList, ShowList, ListFails,
                    server, vars
<1>7. CASE OrderStep
  BY <1>4, <1>7
     DEF OrderStep, OpenOrder, ReadOrder, ShowOrder, ReadPayment, EndWithPayment, EndWithError,
         TimerFires, ClickCancel, AnswerDialog, CancelOrder, CancelAnswered, CancelFails, server
<1> QED
  BY <1>2, <1>5, <1>6, <1>7 DEF Next

-----------------------------------------------------------------------------
(* The order page.                                                         *)

\* What a status can be.
LEMMA Statuses ==
    /\ Status = {"NONE"} \cup Polling \cup Terminal /\ Polling \cap Terminal = {}
    /\ "NONE" \notin Polling \cup Terminal /\ "CANCELLED" \in Terminal
BY DEF Status, Backend!Status, Polling, Terminal

\* Nothing of the order page is there on another page.
LEMMA OnOrderPage ==
    ASSUME Inv, ~Away
    PROVE  /\ route = "order" /\ detail.id \in Orders /\ status[detail.id] # "NONE"
           /\ FetchInv /\ DetailInv
BY DEF Inv, OrderInv

\* The steps of other pages, and of the backend, leave what the page knows true.
LEMMA AsideKeeps ==
    ASSUME Inv, Onward, UNCHANGED <<detail, fetch, timer, cancel, admin, route>>,
           faults' \in Nat, faults <= faults'
    PROVE  OrderInv'
<1>1. OrderInv /\ faults \in Nat
  BY OrderPagesConstants DEF Inv, BoundInv
<1>2. CASE route # "order"
  <2>1. Away' /\ detail' \in Detail /\ fetch' \in Fetch
    BY <1>1, <1>2 DEF OrderInv, Away
  <2> QED
    BY <1>1, <1>2, <2>1 DEF OrderInv, Lists
<1>3. CASE route = "order"
  <2>1. /\ detail.id \in Orders /\ status[detail.id] # "NONE" /\ FetchInv /\ DetailInv
    BY <1>1, <1>3 DEF OrderInv
  <2>2. /\ status'[detail.id] # "NONE" /\ (Found(detail.id) => Found(detail.id)')
        /\ status[detail.id] \in Terminal => status'[detail.id] = status[detail.id]
        /\ charge[detail.id] # "NONE" => charge'[detail.id] = charge[detail.id]
    BY <2>1 DEF Onward, Found
  <2>3. FetchInv'
    BY <2>1, <2>2 DEF FetchInv, Found, Terminal, NoFetch
  <2>4. faults' = 0 => faults = 0
    BY <1>1
  <2>5. DetailInv'
    BY <2>1, <2>2, <2>4 DEF DetailInv, PolledOnce, Found, Terminal, Polling, NoFetch
  <2> QED
    BY <1>1, <1>3, <2>1, <2>2, <2>3, <2>5 DEF OrderInv, Lists, Detail, Fetch
<1> QED
  BY <1>2, <1>3

\* The gateway finds the order as it is, or refuses one that is not the user's.
LEMMA ReadOrderKeeps ==
    ASSUME Inv, ReadOrder
    PROVE  OrderInv'
<1>1. /\ fetch.step = "order" /\ fetch \in Fetch /\ detail \in Detail /\ OrderInv /\ LifeInv
      /\ UNCHANGED <<status, charge, admin, route, detail, timer, cancel, faults>>
  BY DEF Inv, OrderInv, ReadOrder, server
<1>2. route = "order" /\ detail.id \in Orders /\ status[detail.id] # "NONE" /\ FetchInv /\ DetailInv
  <2>1. fetch # NoFetch
    BY <1>1 DEF NoFetch
  <2> QED
    BY <2>1, OnOrderPage DEF Away
<1>3. status[detail.id] \in Status
  BY <1>1, <1>2 DEF LifeInv, Backend!TypeOK, Status
<1>4. CASE Found(detail.id)
  <2>1. fetch' = [fetch EXCEPT !.step = "found", !.order = status[detail.id]]
    BY <1>4 DEF ReadOrder
  <2>2. /\ fetch' \in Fetch /\ fetch'.step = "found" /\ fetch'.order = status[detail.id]
        /\ fetch'.payment = fetch.payment
    BY <1>1, <1>3, <2>1 DEF Fetch
  <2>3. FetchInv'
    BY <1>1, <1>2, <1>4, <2>2 DEF FetchInv, Found
  <2>4. DetailInv'
    BY <1>1, <1>2, <2>2 DEF DetailInv, PolledOnce, NoFetch, Found
  <2> QED
    BY <1>1, <1>2, <2>2, <2>3, <2>4 DEF OrderInv
<1>5. CASE ~Found(detail.id)
  <2>1. fetch' = [fetch EXCEPT !.step = "refused"]
    BY <1>5 DEF ReadOrder
  <2>2. /\ fetch' \in Fetch /\ fetch'.step = "refused" /\ fetch'.order = fetch.order
        /\ fetch'.payment = fetch.payment
    BY <1>1, <2>1 DEF Fetch
  <2>3. ~admin /\ detail.id \notin Mine
    BY <1>2, <1>5 DEF Found
  <2>4. FetchInv'
    BY <1>1, <1>2, <2>2, <2>3 DEF FetchInv
  <2>5. DetailInv'
    BY <1>1, <1>2, <2>2 DEF DetailInv, PolledOnce, NoFetch, Found
  <2> QED
    BY <1>1, <1>2, <2>2, <2>4, <2>5 DEF OrderInv
<1> QED
  BY <1>4, <1>5

\* A tick that ends leaves no call, and a timer only for an order that may still move.
LEMMA TickedIs ==
    ASSUME NEW order, Ticked(order)
    PROVE  fetch' = NoFetch /\ timer' = (order \in Polling) /\ fetch' \in Fetch /\ timer' \in BOOLEAN
BY DEF Ticked, NoFetch, Fetch, Status, Backend!Status, Outcome, Backend!Outcome

\* The order is shown; a settled one waits for its payment, any other for the timer.
LEMMA ShowOrderKeeps ==
    ASSUME Inv, ShowOrder
    PROVE  OrderInv'
<1>1. /\ fetch.step = "found" /\ fetch \in Fetch /\ detail \in Detail /\ OrderInv
      /\ UNCHANGED <<status, charge, admin, route, cancel, faults>>
  BY DEF Inv, OrderInv, ShowOrder, server
<1>2. route = "order" /\ detail.id \in Orders /\ status[detail.id] # "NONE" /\ FetchInv /\ DetailInv
  <2>1. fetch # NoFetch
    BY <1>1 DEF NoFetch
  <2> QED
    BY <2>1, OnOrderPage DEF Away
<1>3. /\ Found(detail.id) /\ fetch.order # "NONE" /\ fetch.order \in Status
      /\ fetch.order \in Terminal => status[detail.id] = fetch.order
  BY <1>1, <1>2 DEF FetchInv, Fetch
<1>4. CASE fetch.order \in Polling
  <2>1. /\ detail' = [detail EXCEPT !.order = fetch.order, !.error = FALSE, !.loading = FALSE]
        /\ Ticked(fetch.order)
    BY <1>4 DEF ShowOrder
  <2>2. /\ detail' \in Detail /\ detail'.id = detail.id /\ detail'.order = fetch.order
        /\ detail'.payment = detail.payment /\ detail'.error = FALSE /\ detail'.loading = FALSE
    BY <1>1, <1>3, <2>1 DEF Detail
  <2>3. fetch' = NoFetch /\ timer' = TRUE /\ fetch' \in Fetch
    BY <1>4, <2>1, TickedIs
  <2>4. FetchInv'
    BY <2>3 DEF FetchInv, NoFetch, Terminal
  <2>5. DetailInv'
    BY <1>1, <1>2, <1>3, <1>4, <2>2, <2>3, Statuses DEF DetailInv, PolledOnce, Found
  <2> QED
    BY <1>1, <1>2, <2>2, <2>3, <2>4, <2>5 DEF OrderInv
<1>5. CASE fetch.order \notin Polling
  <2>1. /\ detail' = [detail EXCEPT !.order = fetch.order, !.error = FALSE]
        /\ fetch' = [fetch EXCEPT !.step = "payment"] /\ timer' = timer
    BY <1>5 DEF ShowOrder
  <2>2. /\ detail' \in Detail /\ detail'.id = detail.id /\ detail'.order = fetch.order
        /\ detail'.payment = detail.payment /\ detail'.error = FALSE
    BY <1>1, <1>3, <2>1 DEF Detail
  <2>3. /\ fetch' \in Fetch /\ fetch'.step = "payment" /\ fetch'.order = fetch.order
        /\ fetch'.payment = fetch.payment
    BY <1>1, <2>1 DEF Fetch
  <2>4. fetch.order \in Terminal
    BY <1>3, <1>5, Statuses
  <2>5. FetchInv'
    BY <1>1, <1>2, <1>3, <2>2, <2>3, <2>4 DEF FetchInv, Found
  <2>6. ~timer
    BY <1>1, <1>2 DEF DetailInv, PolledOnce, NoFetch
  <2>7. DetailInv'
    BY <1>1, <1>2, <1>3, <2>1, <2>2, <2>3, <2>4, <2>6 DEF DetailInv, PolledOnce, Found, NoFetch
  <2> QED
    BY <1>1, <1>2, <2>1, <2>2, <2>3, <2>5, <2>7 DEF OrderInv
<1> QED
  BY <1>4, <1>5

\* The payment of a settled order is its charge, which is final.
LEMMA ReadPaymentKeeps ==
    ASSUME Inv, ReadPayment
    PROVE  OrderInv'
<1>1. /\ fetch.step = "payment" /\ fetch \in Fetch /\ detail \in Detail /\ OrderInv /\ LifeInv
      /\ UNCHANGED <<status, charge, admin, route, detail, timer, cancel, faults>>
  BY DEF Inv, OrderInv, ReadPayment, server
<1>2. route = "order" /\ detail.id \in Orders /\ status[detail.id] # "NONE" /\ FetchInv /\ DetailInv
  <2>1. fetch # NoFetch
    BY <1>1 DEF NoFetch
  <2> QED
    BY <2>1, OnOrderPage DEF Away
<1>3. charge[detail.id] \in Outcome \cup {"NONE"}
  BY <1>1, <1>2 DEF LifeInv, Backend!TypeOK, Outcome
<1>4. fetch' = [fetch EXCEPT !.step = "paid", !.payment = charge[detail.id]]
  BY DEF ReadPayment, PaymentOf
<1>5. /\ fetch' \in Fetch /\ fetch'.step = "paid" /\ fetch'.order = fetch.order
      /\ fetch'.payment = charge[detail.id]
  BY <1>1, <1>3, <1>4 DEF Fetch
<1>6. FetchInv'
  BY <1>1, <1>2, <1>5 DEF FetchInv, Found
<1>7. DetailInv'
  BY <1>1, <1>2, <1>5 DEF DetailInv, PolledOnce, NoFetch, Found
<1> QED
  BY <1>1, <1>2, <1>5, <1>6, <1>7 DEF OrderInv

\* A tick that ends well arms the timer only while the order may still move.
LEMMA EndWithPaymentKeeps ==
    ASSUME Inv, EndWithPayment
    PROVE  OrderInv'
<1>1. /\ fetch.step \in {"payment", "paid"} /\ fetch \in Fetch /\ detail \in Detail /\ OrderInv
      /\ UNCHANGED <<status, charge, admin, route, cancel>>
  BY DEF Inv, OrderInv, EndWithPayment, server
<1>2. route = "order" /\ detail.id \in Orders /\ status[detail.id] # "NONE" /\ FetchInv /\ DetailInv
  <2>1. fetch # NoFetch
    BY <1>1 DEF NoFetch
  <2> QED
    BY <2>1, OnOrderPage DEF Away
<1>3. /\ fetch.order \in Terminal /\ detail.order = fetch.order
      /\ fetch.payment # "NONE" => charge[detail.id] = fetch.payment
  BY <1>1, <1>2 DEF FetchInv
<1>4. faults' = 0 => faults = 0
  BY OrderPagesConstants DEF Inv, BoundInv, EndWithPayment, Fault
<1> DEFINE payment == IF fetch.payment = "NONE" THEN detail.payment ELSE fetch.payment
<1>5. detail' = [detail EXCEPT !.loading = FALSE, !.payment = payment] /\ Ticked(fetch.order)
  BY <1>1 DEF EndWithPayment, Detail
<1>6. payment \in Outcome \cup {"NONE"} /\ (payment # "NONE" => charge[detail.id] = payment)
  BY <1>1, <1>2, <1>3 DEF Detail, Fetch, DetailInv
<1> HIDE DEF payment
<1>7. /\ detail' \in Detail /\ detail'.id = detail.id /\ detail'.order = detail.order
      /\ detail'.payment = payment /\ detail'.error = detail.error /\ detail'.loading = FALSE
  BY <1>1, <1>5, <1>6 DEF Detail
<1>8. fetch' = NoFetch /\ timer' \in BOOLEAN /\ fetch' \in Fetch
  BY <1>5, TickedIs
<1>9. FetchInv'
  BY <1>8 DEF FetchInv, NoFetch, Terminal
<1>10. detail.order \notin Polling
  BY <1>3, Statuses
<1>11. DetailInv'
  BY <1>1, <1>2, <1>4, <1>6, <1>7, <1>8, <1>10 DEF DetailInv, PolledOnce, Found
<1> QED
  BY <1>1, <1>2, <1>7, <1>8, <1>9, <1>11 DEF OrderInv

\* A tick that fails shows the error and ends the polling.
LEMMA EndWithErrorKeeps ==
    ASSUME Inv, EndWithError
    PROVE  OrderInv'
<1>1. /\ fetch.step \in {"refused", "order", "found"} /\ fetch \in Fetch /\ detail \in Detail /\ OrderInv
      /\ UNCHANGED <<status, charge, admin, route, cancel>>
  BY DEF Inv, OrderInv, EndWithError, server
<1>2. route = "order" /\ detail.id \in Orders /\ status[detail.id] # "NONE" /\ FetchInv /\ DetailInv
  <2>1. fetch # NoFetch
    BY <1>1 DEF NoFetch
  <2> QED
    BY <2>1, OnOrderPage DEF Away
<1>3. faults' = 0 => fetch.step = "refused"
  BY OrderPagesConstants DEF Inv, BoundInv, EndWithError, Fault
<1>4. detail' = [detail EXCEPT !.loading = FALSE, !.error = TRUE] /\ Ticked("NONE")
  BY DEF EndWithError
<1>5. /\ detail' \in Detail /\ detail'.id = detail.id /\ detail'.order = detail.order
      /\ detail'.payment = detail.payment /\ detail'.error = TRUE /\ detail'.loading = FALSE
  BY <1>1, <1>4 DEF Detail
<1>6. fetch' = NoFetch /\ timer' \in BOOLEAN /\ fetch' \in Fetch
  BY <1>4, TickedIs
<1>7. FetchInv'
  BY <1>6 DEF FetchInv, NoFetch, Terminal
<1>8. faults' = 0 => ~admin /\ detail.id \notin Mine
  BY <1>2, <1>3 DEF FetchInv
<1>9. DetailInv'
  BY <1>1, <1>2, <1>5, <1>6, <1>8 DEF DetailInv, PolledOnce, Found
<1> QED
  BY <1>1, <1>2, <1>5, <1>6, <1>7, <1>9 DEF OrderInv

\* The timer hands over to the next tick.
LEMMA TimerFiresKeeps ==
    ASSUME Inv, TimerFires
    PROVE  OrderInv'
<1>1. /\ timer /\ fetch \in Fetch /\ detail \in Detail /\ OrderInv /\ timer' = FALSE
      /\ UNCHANGED <<status, charge, admin, route, detail, cancel, faults>>
  BY DEF Inv, OrderInv, TimerFires, server
<1>2. route = "order" /\ detail.id \in Orders /\ status[detail.id] # "NONE" /\ FetchInv /\ DetailInv
  BY <1>1, OnOrderPage DEF Away
<1>3. fetch' = [step |-> "order", order |-> "NONE", payment |-> "NONE"]
  BY DEF TimerFires, NoFetch
<1>4. fetch' \in Fetch /\ fetch'.step = "order" /\ fetch'.order = "NONE" /\ fetch'.payment = "NONE"
  BY <1>3 DEF Fetch, Status, Backend!Status
<1>5. FetchInv'
  BY <1>4 DEF FetchInv, Terminal
<1>6. DetailInv'
  BY <1>1, <1>2, <1>4 DEF DetailInv, PolledOnce, NoFetch, Found
<1> QED
  BY <1>1, <1>2, <1>4, <1>5, <1>6 DEF OrderInv

\* The dialog and the call of handleCancel; a cancellation that was applied is final.
LEMMA CancelStepsKeep ==
    ASSUME Inv, Onward, ClickCancel \/ AnswerDialog \/ CancelOrder \/ CancelFails
    PROVE  OrderInv'
<1>1. /\ fetch \in Fetch /\ detail \in Detail /\ OrderInv
      /\ UNCHANGED <<admin, route, detail, fetch, timer>>
      /\ cancel' \in {"none", "asked", "sent", "applied", "refused"}
  BY DEF Inv, OrderInv, ClickCancel, AnswerDialog, CancelOrder, CancelFails, server
<1>2. ~Away
  BY Statuses DEF Away, NoDetail, ClickCancel, AnswerDialog, CancelOrder, CancelFails
<1>3. route = "order" /\ detail.id \in Orders /\ status[detail.id] # "NONE" /\ FetchInv /\ DetailInv
  BY <1>2, OnOrderPage
<1>4. faults' = 0 => faults = 0
  BY OrderPagesConstants
     DEF Inv, BoundInv, ClickCancel, AnswerDialog, CancelOrder, CancelFails, Fault
<1>5. /\ status'[detail.id] # "NONE" /\ (Found(detail.id) => Found(detail.id)')
      /\ status[detail.id] \in Terminal => status'[detail.id] = status[detail.id]
      /\ charge[detail.id] # "NONE" => charge'[detail.id] = charge[detail.id]
  BY <1>1, <1>3 DEF Onward, Found
<1>6. cancel' = "applied" => Found(detail.id)' /\ status'[detail.id] = "CANCELLED"
  <2>1. cancel' = "applied" => CancelOrder /\ Found(detail.id) /\ Backend!Cancel(detail.id)
    BY DEF ClickCancel, AnswerDialog, CancelOrder, CancelFails
  <2>2. Backend!Cancel(detail.id) => status'[detail.id] = "CANCELLED"
    <3>1. status \in [Orders -> Status]
      BY DEF Inv, LifeInv, Backend!TypeOK, Status
    <3> QED
      BY <1>3, <3>1 DEF Backend!Cancel, Backend!Move
  <2> QED
    BY <1>5, <2>1, <2>2
<1>7. FetchInv'
  BY <1>1, <1>3, <1>5 DEF FetchInv, Found, Terminal, NoFetch
<1>8. DetailInv'
  BY <1>1, <1>3, <1>4, <1>5, <1>6 DEF DetailInv, PolledOnce, Found, Terminal, Polling, NoFetch
<1> QED
  BY <1>1, <1>3, <1>5, <1>7, <1>8 DEF OrderInv

\* The order is shown as it is read back: cancelled, and so no longer polled.
LEMMA CancelAnsweredKeeps ==
    ASSUME Inv, CancelAnswered
    PROVE  OrderInv'
<1>1. /\ fetch \in Fetch /\ detail \in Detail /\ OrderInv /\ cancel \in {"applied", "refused"}
      /\ UNCHANGED <<status, charge, admin, route, fetch, timer, faults>> /\ cancel' = "none"
  BY DEF Inv, OrderInv, CancelAnswered, server
<1>2. route = "order" /\ detail.id \in Orders /\ status[detail.id] # "NONE" /\ FetchInv /\ DetailInv
  BY <1>1, OnOrderPage DEF Away
<1>3. CASE cancel = "refused"
  <2>1. detail' = detail
    BY <1>3 DEF CancelAnswered
  <2> QED
    BY <1>1, <1>2, <2>1 DEF OrderInv, FetchInv, DetailInv, PolledOnce, Found, Lists
<1>4. CASE cancel = "applied"
  <2>1. detail' = [detail EXCEPT !.order = status[detail.id]]
    BY <1>4 DEF CancelAnswered
  <2>2. status[detail.id] = "CANCELLED" /\ Found(detail.id)
    BY <1>2, <1>4 DEF DetailInv
  <2>3. /\ detail' \in Detail /\ detail'.id = detail.id /\ detail'.order = "CANCELLED"
        /\ detail'.payment = detail.payment /\ detail'.error = detail.error
        /\ detail'.loading = detail.loading
    BY <1>1, <2>1, <2>2 DEF Detail, Status, Backend!Status
  <2>4. FetchInv'
    BY <1>1, <1>2, <2>2, <2>3 DEF FetchInv, Found
  <2>5. DetailInv'
    BY <1>1, <1>2, <2>2, <2>3, Statuses DEF DetailInv, PolledOnce, Found, Terminal, Polling
  <2> QED
    BY <1>1, <1>2, <2>3, <2>4, <2>5 DEF OrderInv, Lists
<1> QED
  BY <1>1, <1>3, <1>4

\* A page that is opened starts without the state of the one that is left.
LEMMA OpenKeeps ==
    ASSUME Inv
    PROVE  /\ \A to \in Lists : OpenList(to) => OrderInv'
           /\ \A o \in Orders : OpenOrder(o) => OrderInv'
<1>1. NoDetail \in Detail /\ NoFetch \in Fetch /\ OrderInv
  BY DEF Inv, NoDetail, NoFetch, Detail, Fetch, Status, Backend!Status
<1>2. ASSUME NEW to \in Lists, OpenList(to) PROVE OrderInv'
  BY <1>1, <1>2 DEF OpenList, OrderInv, Lists, Away
<1>3. ASSUME NEW o \in Orders, OpenOrder(o) PROVE OrderInv'
  <2>1. /\ Away /\ status[o] # "NONE" /\ route' = "order" /\ detail' = [NoDetail EXCEPT !.id = o]
        /\ fetch' = [NoFetch EXCEPT !.step = "order"]
        /\ UNCHANGED <<status, charge, admin, timer, cancel, faults>>
    BY <1>1, <1>3 DEF OpenOrder, OrderInv, server
  <2>2. /\ detail' \in Detail /\ detail'.id = o /\ detail'.order = "NONE" /\ detail'.payment = "NONE"
        /\ detail'.error = FALSE
    BY <1>1, <2>1 DEF Detail, NoDetail
  <2>3. fetch' \in Fetch /\ fetch'.step = "order" /\ fetch'.order = "NONE" /\ fetch'.payment = "NONE"
    BY <1>1, <2>1 DEF Fetch, NoFetch
  <2>4. timer' = FALSE /\ cancel' = "none"
    BY <2>1 DEF Away
  <2>5. FetchInv'
    BY <2>3 DEF FetchInv, Terminal
  <2>6. DetailInv'
    BY <2>2, <2>3, <2>4 DEF DetailInv, PolledOnce, NoFetch, Terminal, Polling
  <2> QED
    BY <2>1, <2>2, <2>3, <2>4, <2>5, <2>6 DEF OrderInv
<1> QED
  BY <1>2, <1>3

-----------------------------------------------------------------------------
(* The list pages.                                                         *)

\* A view that waits for what v names, and still shows the items of v.
AwaitsAs(new, v) ==
    /\ IsView(new) /\ new.loading = TRUE /\ new.error \in BOOLEAN
    /\ new.page = v.page /\ new.items = v.items

\* A list page that asks keeps its page and its items.
LEMMA AskingIs ==
    ASSUME NEW kind, NEW v, IsView(v), v.error \in BOOLEAN
    PROVE  AwaitsAs(Asking(kind, v), v)
<1>1. PICK e \in BOOLEAN : Asking(kind, v) = [v EXCEPT !.loading = TRUE, !.error = e]
  BY DEF Asking, IsView
<1> QED
  BY <1>1 DEF IsView, AwaitsAs

\* The view a list page is opened with.
LEMMA NewViewIs ==
    LET v == NewView("all")
    IN  /\ IsView(v) /\ v.loading = TRUE /\ v.error = FALSE /\ v.page = 1 /\ v.items = <<>>
BY DEF NewView, IsView

\* On these pages the answer of an older call never counts.
LEMMA Discards == route' \in Lists => Kind.discards = TRUE
<1>1. Kind \in {OrdersPage, AdminOrdersPage, NotificationsPage}
  BY DEF Kind
<1> QED
  BY <1>1 DEF OrdersPage, AdminOrdersPage, NotificationsPage

\* A list page that asks has that one call under way, for the page and filter it names.
LEMMA AskKeeps ==
    ASSUME Inv, route' \in Lists, NEW next, IsView(next), next.loading = TRUE,
           next.error \in BOOLEAN, next.page \in Nat \ {0}, Ask(next),
           route' = "notifications" => next.items \in Seq(Letter'), UNCHANGED mark, Read,
           route' = "notifications" =>
             next.items = <<>> \/ (Listed /\ next.items = view.items)
    PROVE  ListInv' /\ ReadInv'
<1> DEFINE new == NewCall(next)
<1>1. view' = next /\ calls' = <<new>>
  BY Discards DEF Ask, Calls
<1>2. IsCall(new) /\ Key(new) = Key(next) /\ new.items = <<>>
  BY DEF NewCall, IsCall, Key
<1> HIDE DEF new
<1>3. calls'[1] = new /\ calls' = <<calls'[1]>> /\ calls' # <<>>
  BY <1>1
<1>4. <<>> \in Seq(Letter')
  OBVIOUS
<1>5. ListInv'
  <2>1. Asked(calls[1])'
    BY <1>1, <1>2, <1>3, <1>4 DEF Asked, IsCall, Key
  <2>2. IsView(view)'
    BY <1>1 DEF IsView
  <2>3. ShowsItsList'
    BY <1>1 DEF ShowsItsList, ShowsItsKey, Settled
  <2> QED
    BY <1>1, <1>3, <2>1, <2>2, <2>3 DEF ListInv, Listed
<1>6. ShownReadIsRead'
  <2> SUFFICES ASSUME route' = "notifications", NEW n \in DOMAIN view'.items, view'.items[n].read
               PROVE  \/ inbox'[Me][view'.items[n].id].read
                      \/ \E k \in 1..MaxClicks :
                            mark'[k].id = view'.items[n].id /\ mark'[k].phase = "sent"
    BY DEF ShownReadIsRead, Listed
  <2>1. Listed /\ view'.items = view.items
    BY <1>1
  <2>2. view.items \in Seq(Letter) /\ view.items[n] \in Letter
    BY <2>1 DEF Inv, ListInv
  <2>3. view.items[n].id \in DOMAIN inbox[Me]
    BY <2>2 DEF Letter
  <2>4. \/ inbox[Me][view.items[n].id].read
        \/ \E k \in 1..MaxClicks : mark[k].id = view.items[n].id /\ mark[k].phase = "sent"
    BY <2>1 DEF Inv, ReadInv, ShownReadIsRead
  <2> QED
    BY <2>1, <2>3, <2>4 DEF Read
<1>7. mark \in [1..MaxClicks -> Mark]
  BY DEF Inv, ReadInv
<1>8. ReadInv'
  BY <1>2, <1>3, <1>6, <1>7 DEF ReadInv, Mark
<1> QED
  BY <1>5, <1>8

\* The letters of a growing inbox.
LEMMA LettersGrow ==
    ASSUME Read
    PROVE  Seq(Letter) \subseteq Seq(Letter')
<1>1. Letter \subseteq Letter'
  BY DEF Read, Letter
<1> QED
  BY <1>1, Seqs!SeqMonotonic

\* What a list page shows and waits for stays true while it does not move.
LEMMA StillKeeps ==
    ASSUME Inv, Read, UNCHANGED <<view, calls, route>>, mark' \in [1..MaxClicks -> Mark],
           \A k \in 1..MaxClicks : mark[k].phase = "sent" =>
                mark'[k] = mark[k]
                \/ (mark[k].id \in DOMAIN inbox[Me] => inbox'[Me][mark[k].id].read)
    PROVE  ListInv' /\ ReadInv'
<1>1. ListInv /\ ReadInv
  BY DEF Inv
<1>2. ListInv'
  <2>1. Seq(Letter) \subseteq Seq(Letter')
    BY LettersGrow
  <2>2. IsView(view)' /\ ShowsItsList'
    BY <1>1 DEF ListInv, IsView, ShowsItsList, ShowsItsKey, Settled, Key, Lists
  <2>3. calls = <<>> \/ (calls = <<calls[1]>> /\ Asked(calls[1])' /\ view.loading)
    BY <1>1, <2>1 DEF ListInv, Asked, IsCall, Key, Listed
  <2> QED
    BY <1>1, <2>1, <2>2, <2>3 DEF ListInv, Listed, Lists
<1>3. ASSUME Listed, NEW n \in DOMAIN view.items, view.items[n].read
      PROVE  \/ inbox'[Me][view.items[n].id].read
             \/ \E k \in 1..MaxClicks : mark'[k].id = view.items[n].id /\ mark'[k].phase = "sent"
  <2>1. view.items[n] \in Letter
    BY <1>1, <1>3 DEF ListInv
  <2>2. view.items[n].id \in DOMAIN inbox[Me]
    BY <2>1 DEF Letter
  <2>3. \/ inbox[Me][view.items[n].id].read
        \/ \E k \in 1..MaxClicks : mark[k].id = view.items[n].id /\ mark[k].phase = "sent"
    BY <1>1, <1>3 DEF ReadInv, ShownReadIsRead
  <2> QED
    BY <2>2, <2>3 DEF Read
<1>4. ASSUME Listed, calls # <<>>, NEW n \in DOMAIN calls[1].items, calls[1].items[n].read
      PROVE  inbox'[Me][calls[1].items[n].id].read
  <2>1. calls[1].items \in Seq(Letter)
    BY <1>1, <1>4 DEF ListInv, Asked
  <2>2. calls[1].items[n] \in Letter
    BY <1>4, <2>1
  <2>3. calls[1].items[n].id \in DOMAIN inbox[Me]
    BY <2>2 DEF Letter
  <2> QED
    BY <1>1, <1>4, <2>3 DEF ReadInv, Read
<1>5. ReadInv'
  BY <1>3, <1>4 DEF ReadInv, ShownReadIsRead, Listed, Mark
<1> QED
  BY <1>2, <1>5

\* An order page, or another one that lists nothing.
LEMMA NoListKeeps ==
    ASSUME Inv, route' \notin Lists, view' = NewView("all"), calls' = <<>>, UNCHANGED mark
    PROVE  ListInv' /\ ReadInv'
<1>1. mark \in [1..MaxClicks -> Mark]
  BY DEF Inv, ReadInv
<1>2. IsView(view)' /\ view'.loading = TRUE /\ view'.error = FALSE /\ view'.page = 1
  BY NewViewIs DEF IsView
<1>3. ListInv'
  <2>1. route' # "notifications" /\ ShowsItsList'
    BY DEF ShowsItsList, Lists
  <2>2. view'.loading \in BOOLEAN /\ view'.error \in BOOLEAN
    BY <1>2, Zenon
  <2>3. view'.page \in Nat \ {0} /\ IsView(view)'
    BY <1>2
  <2> QED
    BY <2>1, <2>2, <2>3, Zenon DEF ListInv, Listed
<1>4. ReadInv'
  BY <1>1 DEF ReadInv, ShownReadIsRead, Listed, Lists, Mark
<1> QED
  BY <1>3, <1>4

\* What notification-service answers: the user's letters, newest first.
LEMMA LettersAre ==
    ASSUME InboxInv
    PROVE  /\ Letters \in Seq(Letter)
           /\ \A n \in 1..Len(Letters) : Letters[n].read => inbox[Me][Letters[n].id].read
<1> DEFINE box == inbox[Me]
           N == Len(box)
           oldest == [n \in DOMAIN box |-> [id |-> n, read |-> box[n].read]]
<1>1. N \in Nat /\ DOMAIN box = 1..N /\ \A n \in 1..N : box[n].read \in BOOLEAN
  <2> DEFINE L == [entry : {"event"}, read : BOOLEAN]
  <2>1. box \in Seq(L)
    BY DEF InboxInv
  <2>3. \A r \in L : r.read \in BOOLEAN
    OBVIOUS
  <2> HIDE DEF box, L
  <2>2. \A n \in 1..Len(box) : box[n] \in L
    BY <2>1
  <2>4. Len(box) \in Nat /\ DOMAIN box = 1..Len(box)
    BY <2>1
  <2> QED
    BY <2>2, <2>3, <2>4, Zenon
<1>2. Letter = [id : 1..N, read : BOOLEAN]
  BY <1>1 DEF Letter
<1>3. Letters = Reverse(oldest)
  BY DEF Letters
<1> HIDE DEF box, N
<1>4. /\ oldest \in [1..N -> [id : 1..N, read : BOOLEAN]]
      /\ \A n \in 1..N : oldest[n].read = box[n].read /\ oldest[n].id = n
  BY <1>1
<1> HIDE DEF oldest
<1>5. Len(oldest) = N
  BY <1>1, <1>4
<1>6. Letters = [i \in 1..N |-> oldest[(N - i) + 1]]
  BY <1>3, <1>5 DEF Reverse
<1>7. \A i \in 1..N : (N - i) + 1 \in 1..N
  BY <1>1
<1>8. Letters \in [1..N -> [id : 1..N, read : BOOLEAN]]
  BY <1>4, <1>6, <1>7
<1>9. Letters \in Seq(Letter) /\ Len(Letters) = N
  <2>1. Letters \in [1..N -> Letter]
    BY <1>2, <1>8
  <2> QED
    BY <1>1, <2>1
<1>10. \A i \in 1..N : Letters[i].read => box[Letters[i].id].read
  BY <1>4, <1>6, <1>7
<1> QED
  BY <1>9, <1>10 DEF box

\* A page of a list holds entries of the list, also beyond its end.
LEMMA SliceKeeps ==
    ASSUME NEW X, NEW list \in Seq(X), NEW page \in Nat \ {0}, NEW limit \in Nat \ {0}
    PROVE  /\ Slice(list, page, limit) \in Seq(X)
           /\ \A n \in 1..Len(Slice(list, page, limit)) :
                \E m \in 1..Len(list) : Slice(list, page, limit)[n] = list[m]
<1> DEFINE first == (page - 1) * limit + 1
           last == Lesser(page * limit, Len(list))
<1>1. (page - 1) * limit \in Nat /\ page * limit \in Nat
  <2>1. page - 1 \in Nat
    OBVIOUS
  <2>2. \A a, b \in Nat : a * b \in Nat
    OBVIOUS
  <2> QED
    BY <2>1, <2>2
<1>2. first \in Nat /\ first >= 1 /\ last \in Nat /\ last <= Len(list)
  BY <1>1 DEF Lesser
<1>3. Slice(list, page, limit) = SubSeq(list, first, last)
  BY DEF Slice
<1> HIDE DEF first, last
<1>4. \A i \in first..last : list[i] \in X /\ i \in 1..Len(list)
  BY <1>2
<1>5. /\ SubSeq(list, first, last) \in Seq(X)
      /\ Len(SubSeq(list, first, last)) = IF first <= last THEN last - first + 1 ELSE 0
      /\ \A i \in 1..last - first + 1 : SubSeq(list, first, last)[i] = list[first + i - 1]
  BY <1>2, <1>4, Seqs!SubSeqProperties
<1>6. ASSUME NEW n \in 1..Len(SubSeq(list, first, last))
      PROVE  \E m \in 1..Len(list) : SubSeq(list, first, last)[n] = list[m]
  <2>1. n \in 1..last - first + 1 /\ first + n - 1 \in 1..Len(list)
    BY <1>2, <1>5, <1>6
  <2> QED
    BY <1>5, <2>1
<1> QED
  BY <1>3, <1>5, <1>6

\* The one call under way.
LEMMA OneCall ==
    ASSUME Inv, NEW c \in DOMAIN calls
    PROVE  /\ c = 1 /\ calls = <<calls[1]>> /\ Asked(calls[1]) /\ view.loading /\ route \in Lists
           /\ calls[1].page \in Nat \ {0}
<1>1. calls # <<>>
  OBVIOUS
<1>2. calls = <<calls[1]>> /\ Asked(calls[1]) /\ view.loading /\ route \in Lists
  BY <1>1 DEF Inv, ListInv
<1>3. c = 1
  <2> DEFINE call == calls[1]
  <2>1. calls = <<call>>
    BY <1>2
  <2> HIDE DEF call
  <2>2. DOMAIN <<call>> = 1..1
    OBVIOUS
  <2> QED
    BY <2>1, <2>2
<1>4. calls[1].page = view.page
  BY <1>2 DEF Asked, Key
<1> QED
  BY <1>2, <1>3, <1>4 DEF Inv, ListInv

\* A call that has heard more of its answer.
LEMMA HeardKeeps ==
    ASSUME Inv, NEW new, calls # <<>>, calls' = <<new>>, IsCall(new), Key(new) = Key(calls[1]),
           UNCHANGED <<view, route, mark, inbox>>,
           Listed => \/ new.items = calls[1].items
                     \/ /\ new.items \in Seq(Letter)
                        /\ \A n \in 1..Len(new.items) :
                             new.items[n].read => inbox[Me][new.items[n].id].read
    PROVE  ListInv' /\ ReadInv'
<1>1. /\ ListInv /\ ReadInv /\ InboxInv /\ calls'[1] = new /\ calls' # <<>>
      /\ calls = <<calls[1]>> /\ Asked(calls[1]) /\ view.loading /\ route \in Lists
  BY DEF Inv, ListInv
<1>2. Listed => new.items \in Seq(Letter)
  BY <1>1 DEF Asked
<1>3. Asked(new)
  BY <1>1, <1>2 DEF Asked
<1>4. Asked(calls[1])'
  BY <1>1, <1>3 DEF Asked, IsCall, Key, Letter, Listed
<1>5. Letter' = Letter /\ IsView(view)' /\ ShowsItsList'
  BY <1>1 DEF ListInv, Letter, IsView, ShowsItsList, ShowsItsKey, Settled, Key
<1>6. ListInv'
  BY <1>1, <1>4, <1>5 DEF ListInv, Listed
<1>7. ASSUME Listed, NEW n \in DOMAIN new.items, new.items[n].read
      PROVE  inbox[Me][new.items[n].id].read
  <2>1. DOMAIN new.items = 1..Len(new.items)
    BY <1>2, <1>7
  <2> QED
    BY <1>1, <1>7, <2>1 DEF ReadInv
<1>8. ReadInv'
  BY <1>1, <1>7 DEF ReadInv, ShownReadIsRead, Listed, Mark
<1> QED
  BY <1>6, <1>8

\* A service reads the page that was asked for, in one query or in two.
LEMMA ReadListKeeps ==
    ASSUME Inv, NEW c \in DOMAIN calls, ReadList(c)
    PROVE  ListInv' /\ ReadInv'
<1> DEFINE call == calls[1]
<1>1. /\ c = 1 /\ calls = <<call>> /\ Asked(call) /\ call.page \in Nat \ {0} /\ calls # <<>>
      /\ UNCHANGED <<view, route, mark, inbox>>
  BY OneCall DEF ReadList, server
<1>2. IsCall(call) /\ PageSize \in Nat \ {0} /\ InboxInv
  BY <1>1, OrderPagesConstants DEF Asked, Inv
<1>3. \A new : [calls EXCEPT ![c] = new] = <<new>>
  BY <1>1
<1>4. CASE route = "notifications" /\ calls' = [calls EXCEPT ![c] = EntriesRead(@, Letters, PageSize)]
  <2> DEFINE rows == Slice(Letters, call.page, PageSize)
             new == EntriesRead(call, Letters, PageSize)
  <2>1. calls' = <<new>>
    BY <1>1, <1>3, <1>4
  <2>2. new = [call EXCEPT !.read = TRUE, !.items = rows]
    BY DEF EntriesRead
  <2>3. /\ Letters \in Seq(Letter)
        /\ \A n \in 1..Len(Letters) : Letters[n].read => inbox[Me][Letters[n].id].read
    BY <1>2, LettersAre
  <2>4. /\ rows \in Seq(Letter)
        /\ \A n \in 1..Len(rows) : \E m \in 1..Len(Letters) : rows[n] = Letters[m]
    <3> DEFINE letters == Letters
               page == call.page
    <3>1. letters \in Seq(Letter) /\ page \in Nat \ {0} /\ PageSize \in Nat \ {0}
      BY <1>1, <1>2, <2>3
    <3> HIDE DEF letters, page
    <3>2. /\ Slice(letters, page, PageSize) \in Seq(Letter)
          /\ \A n \in 1..Len(Slice(letters, page, PageSize)) :
                \E m \in 1..Len(letters) : Slice(letters, page, PageSize)[n] = letters[m]
      BY <3>1, SliceKeeps
    <3> QED
      BY <3>2 DEF letters, page
  <2> HIDE DEF rows, new, call
  <2>5. IsCall(new) /\ Key(new) = Key(call) /\ new.items = rows
    BY <1>2, <2>2 DEF IsCall, Key
  <2>6. \A n \in 1..Len(rows) : rows[n].read => inbox[Me][rows[n].id].read
    BY <2>3, <2>4
  <2> QED
    BY <1>1, <2>1, <2>4, <2>5, <2>6, HeardKeeps DEF call
<1>5. CASE route = "notifications" /\ calls' = [calls EXCEPT ![c] = Counted(@, Letters)]
  <2> DEFINE new == Counted(call, Letters)
  <2>1. calls' = <<new>>
    BY <1>1, <1>3, <1>5
  <2>2. new = [call EXCEPT !.counted = TRUE, !.total = Len(Letters)]
    BY DEF Counted
  <2> HIDE DEF new, call
  <2>3. IsCall(new) /\ Key(new) = Key(call) /\ new.items = call.items
    BY <1>2, <2>2 DEF IsCall, Key
  <2> QED
    BY <1>1, <2>1, <2>3, HeardKeeps DEF call
<1>6. CASE /\ route # "notifications"
           /\ calls' = [calls EXCEPT ![c] = RowsRead(@, OrderList(@.filter), PageSize)]
  <2> DEFINE list == OrderList(call.filter)
             rows == Slice(list, call.page, PageSize)
             total == IF rows = <<>> THEN 0 ELSE Len(list)
             new == RowsRead(call, list, PageSize)
  <2>1. calls' = <<new>>
    BY <1>1, <1>3, <1>6
  <2>2. new = [call EXCEPT !.read = TRUE, !.items = rows, !.counted = TRUE, !.total = total]
    BY DEF RowsRead
  <2> HIDE DEF rows, total, new, call
  <2>3. IsCall(new) /\ Key(new) = Key(call)
    BY <1>2, <2>2 DEF IsCall, Key
  <2> QED
    BY <1>1, <1>6, <2>1, <2>3, HeardKeeps DEF Listed, call
<1> QED
  BY <1>4, <1>5, <1>6 DEF ReadList

\* The answer is the one the tabs and the pager stand on.
LEMMA ShowKeeps ==
    ASSUME Inv, NEW c \in DOMAIN calls, ShowList(c) \/ ListFails(c)
    PROVE  ListInv' /\ ReadInv'
<1> DEFINE call == calls[1]
<1>1. /\ c = 1 /\ calls = <<call>> /\ Asked(call) /\ view.loading /\ route \in Lists
      /\ UNCHANGED <<route, mark, inbox>> /\ ListInv /\ ReadInv
  BY OneCall DEF ShowList, ListFails, server, Inv
<1>2. calls' = <<>>
  <2>1. calls' = SubSeq(<<call>>, 1, 0) \o SubSeq(<<call>>, 2, 1)
    <3>1. calls' = RemoveAt(<<call>>, 1)
      BY <1>1 DEF ShowList, ListFails
    <3> HIDE DEF call
    <3>2. Len(<<call>>) = 1
      OBVIOUS
    <3> QED
      BY <3>1, <3>2 DEF RemoveAt
  <2> HIDE DEF call
  <2>2. SubSeq(<<call>>, 1, 0) = <<>> /\ SubSeq(<<call>>, 2, 1) = <<>>
    BY Seqs!SubSeqEmpty
  <2> QED
    BY <2>1, <2>2
<1>3. IsView(view) /\ view.page \in Nat \ {0} /\ view.error \in BOOLEAN
      /\ (Listed => view.items \in Seq(Letter)) /\ Letter' = Letter
  BY <1>1 DEF ListInv, Letter
<1>4. CASE ListFails(c)
  <2>1. view' = [view EXCEPT !.loading = FALSE, !.error = TRUE]
    BY <1>4 DEF ListFails, Failed
  <2>2. /\ IsView(view') /\ view'.page = view.page /\ view'.loading = FALSE /\ view'.error = TRUE
        /\ view'.items = view.items
    BY <1>3, <2>1 DEF IsView
  <2>3. IsView(view)' /\ ShowsItsList'
    BY <2>2 DEF IsView, ShowsItsList, ShowsItsKey, Settled
  <2>4. ListInv'
    BY <1>1, <1>2, <1>3, <2>2, <2>3 DEF ListInv, Listed
  <2>5. ReadInv'
    BY <1>1, <1>2, <2>2 DEF ReadInv, ShownReadIsRead, Listed, Mark
  <2> QED
    BY <2>4, <2>5
<1>5. CASE ShowList(c)
  <2>1. PICK kind : view' = Shown(kind, view, call)
    BY <1>1, <1>5 DEF ShowList
  <2>2. PICK e \in BOOLEAN :
            view' = [view EXCEPT !.items = call.items, !.total = call.total, !.of = Key(call),
                                 !.loading = FALSE, !.error = e]
    BY <1>3, <2>1 DEF Shown, IsView
  <2> HIDE DEF call
  <2>3. /\ IsView(view') /\ view'.page = view.page /\ view'.filter = view.filter
        /\ view'.loading = FALSE /\ view'.error \in BOOLEAN
        /\ view'.items = call.items /\ view'.of = Key(call)
    BY <1>3, <2>2 DEF IsView
  <2>4. Key(view)' = Key(call)
    BY <1>1, <2>3 DEF Asked, Key
  <2>5. IsView(view)' /\ ShowsItsList'
    BY <2>3, <2>4 DEF IsView, ShowsItsList, ShowsItsKey, Settled
  <2>6. Listed => call.items \in Seq(Letter)
    BY <1>1 DEF Asked
  <2>7. ListInv'
    BY <1>1, <1>2, <1>3, <2>3, <2>5, <2>6 DEF ListInv, Listed
  <2>10. calls # <<>>
    OBVIOUS
  <2>8. Listed => \A n \in DOMAIN call.items : call.items[n].read => inbox[Me][call.items[n].id].read
    BY <1>1, <2>10 DEF ReadInv, call
  <2>9. ReadInv'
    BY <1>1, <1>2, <2>3, <2>8 DEF ReadInv, ShownReadIsRead, Listed, Mark
  <2> QED
    BY <2>7, <2>9
<1> QED
  BY <1>4, <1>5

\* What a letter shows is changed for its id alone.
ShownAs(v, id, read) ==
    /\ IsView(v) /\ v.page = view.page /\ v.filter = view.filter
    /\ v.loading = view.loading /\ v.error = view.error /\ v.of = view.of
    /\ v.items \in Seq(Letter) /\ DOMAIN v.items = DOMAIN view.items
    /\ \A n \in DOMAIN v.items :
        /\ v.items[n].id = view.items[n].id
        /\ v.items[n].read = IF view.items[n].id = id THEN read ELSE view.items[n].read

\* Marking one letter leaves the view and the other letters as they were.
LEMMA ShowAsIs ==
    ASSUME Inv, Listed, NEW id, NEW read \in BOOLEAN
    PROVE  ShownAs(ShowAs(id, read), id, read)
<1> DEFINE old == view.items
           new == [n \in DOMAIN old |-> IF old[n].id = id THEN [old[n] EXCEPT !.read = read] ELSE old[n]]
           v == ShowAs(id, read)
<1>1. IsView(view) /\ old \in Seq(Letter)
  BY DEF Inv, ListInv
<1>2. v = [view EXCEPT !.items = new]
  BY <1>1 DEF ShowAs, IsView
<1> HIDE DEF old
<1>3. DOMAIN old = 1..Len(old) /\ Len(old) \in Nat /\ \A n \in DOMAIN old : old[n] \in Letter
  BY <1>1
<1>4. ASSUME NEW n \in DOMAIN old
      PROVE  new[n] \in Letter /\ new[n].id = old[n].id
             /\ new[n].read = IF old[n].id = id THEN read ELSE old[n].read
  <2>1. old[n] \in [id : DOMAIN inbox[Me], read : BOOLEAN]
    BY <1>3, <1>4 DEF Letter
  <2> QED
    BY <1>4, <2>1 DEF Letter
<1>5. DOMAIN new = DOMAIN old
  OBVIOUS
<1>6. new \in [1..Len(old) -> Letter]
  BY <1>3, <1>4
<1> HIDE DEF new, v
<1>7. new \in Seq(Letter)
  BY <1>3, <1>6
<1>8. /\ IsView(v) /\ v.page = view.page /\ v.filter = view.filter
      /\ v.loading = view.loading /\ v.error = view.error /\ v.of = view.of /\ v.items = new
  BY <1>1, <1>2 DEF IsView
<1> QED
  BY <1>4, <1>5, <1>7, <1>8 DEF v, old, ShownAs

\* A list page whose marks alone have changed.
LEMMA SameListed ==
    ASSUME Inv, Listed, IsView(view'), view'.page = view.page, view'.filter = view.filter,
           view'.loading = view.loading, view'.error = view.error, view'.of = view.of,
           view'.items \in Seq(Letter), UNCHANGED <<route, calls, inbox>>
    PROVE  ListInv'
<1>1. ListInv /\ Letter' = Letter /\ Key(view)' = Key(view)
  BY DEF Inv, Letter, Key
<1>2. calls = <<>> \/ (calls = <<calls[1]>> /\ Asked(calls[1])' /\ view'.loading)
  BY <1>1 DEF ListInv, Asked, Listed, IsCall
<1>3. IsView(view)' /\ ShowsItsList'
  BY <1>1 DEF ListInv, IsView, ShowsItsList, ShowsItsKey, Settled
<1> QED
  BY <1>1, <1>2, <1>3 DEF ListInv, Listed

\* A list page of which nothing has changed.
LEMMA StillListed ==
    ASSUME ListInv, UNCHANGED <<view, route, calls, inbox>>
    PROVE  ListInv'
<1>1. Letter' = Letter
  BY DEF Letter
<1>2. calls = <<>> \/ (calls = <<calls[1]>> /\ Asked(calls[1])' /\ view'.loading)
  BY <1>1 DEF ListInv, Asked, Listed, IsCall, Key
<1>3. IsView(view)' /\ ShowsItsList'
  BY DEF ListInv, IsView, ShowsItsList, ShowsItsKey, Settled, Key
<1> QED
  BY <1>1, <1>2, <1>3 DEF ListInv, Listed

\* A click shows a letter read, and its call is under way.
LEMMA ClickKeeps ==
    ASSUME Inv, NEW k \in 1..MaxClicks, NEW n \in DOMAIN view.items, Click(k, n)
    PROVE  ListInv' /\ ReadInv'
<1> DEFINE id == view.items[n].id
<1>1. /\ Listed /\ view.loading = FALSE /\ ListInv /\ ReadInv /\ mark[k] = Idle
      /\ UNCHANGED <<route, calls, inbox>> /\ view' = ShowAs(id, TRUE)
      /\ mark' = [mark EXCEPT ![k] = [id |-> id, phase |-> "sent"]]
  BY DEF Inv, ListInv, Click, server
<1>2. view.items \in Seq(Letter) /\ view.items[n] \in Letter /\ id \in Nat
  <2>1. view.items \in Seq(Letter)
    BY <1>1 DEF ListInv
  <2>2. view.items[n] \in Letter
    <3> DEFINE L == Letter
    <3>1. view.items \in Seq(L)
      BY <2>1
    <3> HIDE DEF L
    <3>2. view.items[n] \in L
      BY <3>1
    <3> QED
      BY <3>2 DEF L
  <2>3. DOMAIN inbox[Me] \subseteq Nat
    <3> DEFINE L == [entry : {"event"}, read : BOOLEAN]
    <3>1. inbox[Me] \in Seq(L)
      BY DEF Inv, InboxInv
    <3> HIDE DEF L
    <3> QED
      BY <3>1
  <2> QED
    BY <2>1, <2>2, <2>3 DEF Letter
<1> HIDE DEF id
<1>3. /\ IsView(view') /\ view'.page = view.page /\ view'.filter = view.filter
      /\ view'.loading = view.loading /\ view'.error = view.error /\ view'.of = view.of
      /\ view'.items \in Seq(Letter) /\ DOMAIN view'.items = DOMAIN view.items
      /\ \A m \in DOMAIN view'.items :
           /\ view'.items[m].id = view.items[m].id
           /\ view'.items[m].read = IF view.items[m].id = id THEN TRUE ELSE view.items[m].read
  <2>1. ShownAs(ShowAs(id, TRUE), id, TRUE)
    BY <1>1, ShowAsIs, Zenon
  <2>2. ShownAs(view', id, TRUE)
    BY <1>1, <2>1
  <2> QED
    BY <2>2 DEF ShownAs
<1>4. ListInv'
  BY <1>1, <1>3, SameListed
<1>5. mark' \in [1..MaxClicks -> Mark] /\ mark'[k].id = id /\ mark'[k].phase = "sent"
      /\ \A j \in 1..MaxClicks : mark[j].phase = "sent" => mark'[j] = mark[j]
  BY <1>1, <1>2 DEF ReadInv, Mark, Idle
<1>6. ShownReadIsRead'
  <2> SUFFICES ASSUME NEW m \in DOMAIN view'.items, view'.items[m].read
               PROVE  \/ inbox[Me][view'.items[m].id].read
                      \/ \E j \in 1..MaxClicks :
                            mark'[j].id = view'.items[m].id /\ mark'[j].phase = "sent"
    BY <1>1 DEF ShownReadIsRead, Listed
  <2>1. CASE view.items[m].id = id
    BY <1>3, <1>5, <2>1
  <2>2. CASE view.items[m].id # id
    <3>1. m \in DOMAIN view.items /\ view'.items[m].id = view.items[m].id
      BY <1>3
    <3>2. view.items[m].read
      <4>1. view'.items[m].read = view.items[m].read
        BY <1>3, <2>2
      <4> QED
        BY <4>1, Zenon
    <3>3. \/ inbox[Me][view.items[m].id].read
          \/ \E j \in 1..MaxClicks : mark[j].id = view.items[m].id /\ mark[j].phase = "sent"
      BY <1>1, <3>1, <3>2 DEF ReadInv, ShownReadIsRead
    <3> QED
      BY <1>5, <3>1, <3>3
  <2> QED
    BY <2>1, <2>2
<1> QED
  BY <1>1, <1>4, <1>5, <1>6 DEF ReadInv, Listed, Mark

\* The server reads a letter.
LEMMA MarkReadKeeps ==
    ASSUME Inv, Read, NEW k \in 1..MaxClicks, MarkRead(k)
    PROVE  ListInv' /\ ReadInv'
<1>1. /\ UNCHANGED <<view, calls, route>> /\ InboxInv /\ mark \in [1..MaxClicks -> Mark]
      /\ mark' = [mark EXCEPT ![k] =
            IF mark[k].phase = "sent" THEN [mark[k] EXCEPT !.phase = "applied"] ELSE Over]
      /\ Mail!MarkRead(Me, mark[k].id)
  BY DEF Inv, ReadInv, MarkRead, listPage
<1>2. inbox'[Me][mark[k].id].read
  BY <1>1, MarkReadReads
<1>3. mark' \in [1..MaxClicks -> Mark] /\ \A j \in 1..MaxClicks : j # k => mark'[j] = mark[j]
  BY <1>1 DEF Mark, Over
<1> QED
  BY <1>1, <1>2, <1>3, StillKeeps

\* The page hears that it has.
LEMMA MarkAnsweredKeeps ==
    ASSUME Inv, Read, NEW k \in 1..MaxClicks, MarkAnswered(k)
    PROVE  ListInv' /\ ReadInv'
<1>1. /\ UNCHANGED <<view, calls, route>> /\ mark \in [1..MaxClicks -> Mark]
      /\ mark' = [mark EXCEPT ![k] = Over] /\ mark[k].phase = "applied"
  BY DEF Inv, ReadInv, MarkAnswered, listPage
<1>2. /\ mark' \in [1..MaxClicks -> Mark]
      /\ \A j \in 1..MaxClicks : mark[j].phase = "sent" => mark'[j] = mark[j]
  BY <1>1 DEF Mark, Over
<1> QED
  BY <1>1, <1>2, StillKeeps

\* A call that fails takes back what it showed, on the notifications page.
LEMMA MarkFailsKeeps ==
    ASSUME Inv, Read, NEW k \in 1..MaxClicks, MarkFails(k)
    PROVE  ListInv' /\ ReadInv'
<1> DEFINE id == mark[k].id
<1>1. /\ ListInv /\ ReadInv /\ mark \in [1..MaxClicks -> Mark]
      /\ UNCHANGED <<route, calls, inbox>> /\ view' = RolledBack(id)
      /\ mark' = [mark EXCEPT ![k] =
            IF mark[k].phase = "sent" THEN [mark[k] EXCEPT !.phase = "abandoned"] ELSE Over]
  BY DEF Inv, ReadInv, MarkFails, server
<1>2. mark' \in [1..MaxClicks -> Mark] /\ \A j \in 1..MaxClicks : j # k => mark'[j] = mark[j]
  BY <1>1 DEF Mark, Over
<1> HIDE DEF id
<1>3. CASE Listed
  <2>1. /\ IsView(view') /\ view'.page = view.page /\ view'.filter = view.filter
        /\ view'.loading = view.loading /\ view'.error = view.error /\ view'.of = view.of
        /\ view'.items \in Seq(Letter) /\ DOMAIN view'.items = DOMAIN view.items
        /\ \A m \in DOMAIN view'.items :
             /\ view'.items[m].id = view.items[m].id
             /\ view'.items[m].read = IF view.items[m].id = id THEN FALSE ELSE view.items[m].read
    <3>1. ShownAs(ShowAs(id, FALSE), id, FALSE)
      BY <1>3, ShowAsIs, Zenon
    <3>2. ShownAs(view', id, FALSE)
      BY <1>1, <1>3, <3>1 DEF RolledBack
    <3> QED
      BY <3>2 DEF ShownAs
  <2>2. ListInv'
    BY <1>1, <1>3, <2>1, SameListed
  <2>3. ShownReadIsRead'
    <3> SUFFICES ASSUME NEW m \in DOMAIN view'.items, view'.items[m].read
                 PROVE  \/ inbox[Me][view'.items[m].id].read
                        \/ \E j \in 1..MaxClicks :
                              mark'[j].id = view'.items[m].id /\ mark'[j].phase = "sent"
      BY <1>1 DEF ShownReadIsRead, Listed
    <3>4. m \in DOMAIN view.items /\ view'.items[m].id = view.items[m].id
          /\ view'.items[m].read = IF view.items[m].id = id THEN FALSE ELSE view.items[m].read
      BY <2>1
    <3>1. view.items[m].id # id /\ view.items[m].read /\ m \in DOMAIN view.items
      <4>1. CASE view.items[m].id = id
        BY <3>4, <4>1, Zenon
      <4>2. CASE view.items[m].id # id
        BY <3>4, <4>2, Zenon
      <4> QED
        BY <4>1, <4>2
    <3>2. \/ inbox[Me][view.items[m].id].read
          \/ \E j \in 1..MaxClicks : mark[j].id = view.items[m].id /\ mark[j].phase = "sent"
      BY <1>1, <1>3, <3>1 DEF ReadInv, ShownReadIsRead
    <3>3. \A j \in 1..MaxClicks : mark[j].id = view.items[m].id => j # k
      BY <3>1 DEF id
    <3> QED
      BY <1>2, <2>1, <3>2, <3>3
  <2> QED
    BY <1>1, <1>2, <2>2, <2>3 DEF ReadInv, Listed, Mark
<1>4. CASE ~Listed
  <2>1. view' = view
    BY <1>1, <1>4 DEF RolledBack
  <2>2. ListInv' /\ mark' \in [1..MaxClicks -> Mark] /\ ~Listed'
    BY <1>1, <1>2, <1>4, <2>1, StillListed DEF Listed
  <2> QED
    BY <2>2 DEF ReadInv, ShownReadIsRead, Mark
<1> QED
  BY <1>3, <1>4

-----------------------------------------------------------------------------
(* Every step.                                                             *)

\* A list page that is opened, turned or filtered.
LEMMA NavigationKeeps ==
    ASSUME Inv, Read,
           \/ \E to \in Lists : OpenList(to)
           \/ \E page \in Nat \ {0} : TurnTo(page)
           \/ \E filter \in Filters : Choose(filter)
    PROVE  ListInv' /\ ReadInv'
<1>1. IsView(view) /\ view.error \in BOOLEAN /\ (Listed => view.items \in Seq(Letter))
  BY DEF Inv, ListInv
<1>2. Seq(Letter) \subseteq Seq(Letter') /\ <<>> \in Seq(Letter')
  BY LettersGrow
<1>3. CASE \E to \in Lists : OpenList(to)
  <2> DEFINE next == NewView("all")
  <2>1. route' \in Lists /\ Ask(next) /\ UNCHANGED mark
    BY <1>3 DEF OpenList
  <2>2. IsView(next) /\ next.loading = TRUE /\ next.error = FALSE /\ next.page = 1 /\ next.items = <<>>
    BY NewViewIs
  <2>3. next.error \in BOOLEAN /\ next.page \in Nat \ {0}
    <3>1. next.error \in BOOLEAN
      BY <2>2, Zenon
    <3> QED
      BY <2>2, <3>1
  <2> HIDE DEF next
  <2> QED
    BY <1>2, <2>1, <2>2, <2>3, AskKeeps
<1>4. CASE \E page \in Nat \ {0} : TurnTo(page)
  <2>1. PICK page \in Nat \ {0} : TurnTo(page)
    BY <1>4
  <2> DEFINE v == [view EXCEPT !.page = page]
  <2>2. IsView(v) /\ v.error \in BOOLEAN /\ v.page = page /\ v.items = view.items
    BY <1>1 DEF IsView
  <2> HIDE DEF v
  <2> DEFINE kind == Kind
             next == Asking(kind, v)
  <2>3. route' = route /\ route' \in Lists /\ Ask(next) /\ UNCHANGED mark
    BY <2>1 DEF TurnTo, Turned, v
  <2>4. /\ IsView(next) /\ next.loading = TRUE /\ next.error \in BOOLEAN
        /\ next.page \in Nat \ {0} /\ next.items = view.items
    <3>1. IsView(v) /\ v.error \in BOOLEAN
      BY <2>2
    <3> HIDE DEF kind
    <3>2. AwaitsAs(next, v)
      BY <3>1, AskingIs, Zenon
    <3> QED
      BY <2>2, <3>2 DEF AwaitsAs
  <2> HIDE DEF next
  <2> QED
    BY <1>1, <1>2, <2>3, <2>4, AskKeeps DEF Listed
<1>5. CASE \E filter \in Filters : Choose(filter)
  <2>1. PICK filter \in Filters : Choose(filter)
    BY <1>5
  <2> DEFINE v == [view EXCEPT !.filter = filter, !.page = 1]
  <2>2. IsView(v) /\ v.error \in BOOLEAN /\ v.page = 1 /\ v.items = view.items
    <3> DEFINE w == [view EXCEPT !.filter = filter]
    <3>1. IsView(w) /\ w.error = view.error /\ w.items = view.items
      BY <1>1 DEF IsView
    <3>2. v = [w EXCEPT !.page = 1]
      BY <1>1 DEF IsView
    <3> HIDE DEF w, v
    <3>3. IsView(v) /\ v.error = w.error /\ v.page = 1 /\ v.items = w.items
      BY <3>1, <3>2 DEF IsView
    <3> QED
      BY <1>1, <3>1, <3>3
  <2> HIDE DEF v
  <2> DEFINE kind == Kind
             next == Asking(kind, v)
  <2>3. route' = route /\ route' \in Lists /\ Ask(next) /\ UNCHANGED mark
    BY <2>1 DEF Choose, Filtered, v
  <2>4. /\ IsView(next) /\ next.loading = TRUE /\ next.error \in BOOLEAN
        /\ next.page \in Nat \ {0} /\ next.items = view.items
    <3>1. IsView(v) /\ v.error \in BOOLEAN
      BY <2>2
    <3> HIDE DEF kind
    <3>2. AwaitsAs(next, v)
      BY <3>1, AskingIs, Zenon
    <3> QED
      BY <2>2, <3>2 DEF AwaitsAs
  <2> HIDE DEF next
  <2> QED
    BY <1>1, <1>2, <2>3, <2>4, AskKeeps DEF Listed
<1> QED
  BY <1>3, <1>4, <1>5

\* Every step leaves the lists and the marks as they should be.
LEMMA ListReadStep ==
    ASSUME Inv, [Next]_vars
    PROVE  ListInv' /\ ReadInv'
<1>1. Read /\ mark \in [1..MaxClicks -> Mark]
  BY InboxStep DEF Inv, ReadInv
<1>2. ASSUME UNCHANGED <<view, calls, route, mark>>
      PROVE  ListInv' /\ ReadInv'
  BY <1>1, <1>2, StillKeeps
<1>3. CASE ListStep
  <2>1. CASE \E page \in 1..Greater(MaxOrders, MaxInbox) : TurnTo(page)
    <3>1. \E page \in Nat \ {0} : TurnTo(page)
      BY <2>1
    <3> QED
      BY <1>1, <3>1, NavigationKeeps
  <2>2. CASE (\E to \in Lists : OpenList(to)) \/ (\E filter \in Filters : Choose(filter))
    BY <1>1, <2>2, NavigationKeeps
  <2>3. CASE \E c \in DOMAIN calls : ReadList(c) \/ ShowList(c) \/ ListFails(c)
    BY <2>3, ReadListKeeps, ShowKeeps
  <2> QED
    BY <1>3, <2>1, <2>2, <2>3 DEF ListStep
<1>4. CASE MarkStep
  BY <1>1, <1>4, ClickKeeps, MarkReadKeeps, MarkAnsweredKeeps, MarkFailsKeeps DEF MarkStep
<1>5. CASE \E o \in Orders : OpenOrder(o)
  BY <1>5, NoListKeeps DEF OpenOrder, Lists
<1>6. CASE OrderMoves \/ MailArrives \/ UNCHANGED vars
  BY <1>2, <1>6 DEF OrderMoves, MailArrives, listPage, vars
<1>7. CASE ReadOrder \/ ShowOrder \/ ReadPayment \/ EndWithPayment \/ EndWithError \/ TimerFires
  BY <1>2, <1>7
     DEF ReadOrder, ShowOrder, ReadPayment, EndWithPayment, EndWithError, TimerFires, listPage
<1>8. CASE ClickCancel \/ AnswerDialog \/ CancelOrder \/ CancelAnswered \/ CancelFails
  BY <1>2, <1>8
     DEF ClickCancel, AnswerDialog, CancelOrder, CancelAnswered, CancelFails, listPage
<1> QED
  BY <1>3, <1>4, <1>5, <1>6, <1>7, <1>8 DEF Next, OrderStep

\* Every step stays within the bounds, and failures only add up.
LEMMA BoundStep ==
    ASSUME Inv, [Next]_vars
    PROVE  BoundInv' /\ faults' \in Nat /\ faults <= faults'
<1>1. /\ visits \in 0..MaxVisits /\ faults \in 0..MaxFaults /\ admin \in BOOLEAN
      /\ MaxVisits \in Nat /\ MaxFaults \in Nat
  BY OrderPagesConstants DEF Inv, BoundInv
<1>2. ASSUME UNCHANGED admin, visits' = visits \/ Visit, faults' = faults \/ Fault
      PROVE  BoundInv' /\ faults' \in Nat /\ faults <= faults'
  <2>1. visits' \in 0..MaxVisits
    BY <1>1, <1>2 DEF Visit
  <2>2. faults' \in 0..MaxFaults /\ faults' \in Nat /\ faults <= faults'
    BY <1>1, <1>2 DEF Fault
  <2>3. admin' \in BOOLEAN
    BY <1>1, <1>2, Zenon
  <2> QED
    BY <2>1, <2>2, <2>3 DEF BoundInv
<1>3. CASE ListStep
  BY <1>2, <1>3 DEF ListStep, OpenList, TurnTo, Choose, ReadList, ShowList, ListFails
<1>4. CASE MarkStep
  BY <1>2, <1>4 DEF MarkStep, Click, MarkRead, MarkAnswered, MarkFails
<1>5. CASE OrderMoves \/ MailArrives \/ UNCHANGED vars \/ \E o \in Orders : OpenOrder(o)
  BY <1>2, <1>5 DEF OrderMoves, MailArrives, OpenOrder, vars
<1>6. CASE ReadOrder \/ ShowOrder \/ ReadPayment \/ EndWithPayment \/ EndWithError \/ TimerFires
  BY <1>2, <1>6 DEF ReadOrder, ShowOrder, ReadPayment, EndWithPayment, EndWithError, TimerFires
<1>7. CASE ClickCancel \/ AnswerDialog \/ CancelOrder \/ CancelAnswered \/ CancelFails
  BY <1>2, <1>7 DEF ClickCancel, AnswerDialog, CancelOrder, CancelAnswered, CancelFails
<1> QED
  BY <1>3, <1>4, <1>5, <1>6, <1>7 DEF Next, OrderStep

\* Every step leaves what the order page knows true.
LEMMA OrderPageStep ==
    ASSUME Inv, [Next]_vars
    PROVE  OrderInv'
<1>1. Onward /\ faults' \in Nat /\ faults <= faults'
  BY LifeStep, BoundStep
<1>2. ASSUME UNCHANGED <<detail, fetch, timer, cancel, admin, route>>
      PROVE  OrderInv'
  BY <1>1, <1>2, AsideKeeps
<1>3. CASE ListStep
  <2>1. CASE \E to \in Lists : OpenList(to)
    BY <2>1, OpenKeeps
  <2> QED
    BY <1>2, <1>3, <2>1 DEF ListStep, TurnTo, Choose, ReadList, ShowList, ListFails, orderPage
<1>4. CASE MarkStep
  BY <1>2, <1>4 DEF MarkStep, Click, MarkRead, MarkAnswered, MarkFails, orderPage
<1>5. CASE OrderMoves \/ MailArrives \/ UNCHANGED vars
  BY <1>2, <1>5 DEF OrderMoves, MailArrives, orderPage, vars
<1>6. CASE OrderStep
  BY <1>1, <1>6, OpenKeeps, ReadOrderKeeps, ShowOrderKeeps, ReadPaymentKeeps, EndWithPaymentKeeps,
     EndWithErrorKeeps, TimerFiresKeeps, CancelStepsKeep, CancelAnsweredKeeps DEF OrderStep
<1> QED
  BY <1>3, <1>4, <1>5, <1>6 DEF Next

-----------------------------------------------------------------------------
(* The theorems.                                                           *)

\* No page is open, no order placed, no notification there.
LEMMA InitHolds == Init => Inv
<1> SUFFICES ASSUME Init
             PROVE  Inv
  OBVIOUS
<1>1. LifeInv
  BY DEF Init, Backend!Init, LifeInv, Backend!TypeOK, Backend!Status, Backend!Outcome
<1>2. InboxInv
  <2>1. inbox = [c \in {Me} |-> <<>>]
    BY DEF Init, Mail!Init
  <2>2. <<>> \in Seq([entry : {"event"}, read : BOOLEAN])
    OBVIOUS
  <2> QED
    BY <2>1, <2>2 DEF InboxInv
<1>3. BoundInv
  BY OrderPagesConstants DEF Init, BoundInv
<1>4. ListInv
  <2>1. /\ IsView(view) /\ view.loading = TRUE /\ view.error = FALSE /\ view.page = 1
        /\ calls = <<>> /\ route = "elsewhere"
    BY NewViewIs DEF Init
  <2>2. view.loading \in BOOLEAN /\ view.error \in BOOLEAN
    BY <2>1, Zenon
  <2> QED
    BY <2>1, <2>2 DEF ListInv, Listed, Lists, ShowsItsList
<1>5. ReadInv
  BY DEF Init, ReadInv, ShownReadIsRead, Listed, Mark, Idle
<1>6. OrderInv
  BY DEF Init, OrderInv, Away, Detail, Fetch, NoDetail, NoFetch, Lists, Status, Backend!Status
<1> QED
  BY <1>1, <1>2, <1>3, <1>4, <1>5, <1>6 DEF Inv

\* Every state of the specification satisfies the inductive invariant: the pages, their
\* calls and the backend fit one another.
THEOREM PagesFit == Spec => []Inv
<1>1. Inv /\ [Next]_vars => Inv'
  <2> SUFFICES ASSUME Inv, [Next]_vars
               PROVE  Inv'
    OBVIOUS
  <2>1. LifeInv' /\ InboxInv' /\ BoundInv'
    BY LifeStep, InboxStep, BoundStep DEF Read
  <2>2. ListInv' /\ ReadInv' /\ OrderInv'
    BY ListReadStep, OrderPageStep
  <2> QED
    BY <2>1, <2>2 DEF Inv
<1> QED
  BY InitHolds, <1>1, PTL DEF Spec

\* The order page polls an order that may still move by one call or one timer, never by
\* both, and no page waits for an answer that cannot come.
THEOREM PollingIsKept == Spec => []PageInv
<1>1. Inv => PageInv
  <2> SUFFICES ASSUME Inv
               PROVE  PageInv
    OBVIOUS
  <2>1. LifeInv /\ BoundInv /\ ListInv /\ OrderInv
    BY DEF Inv
  <2>2. TypeOK
    BY <2>1 DEF TypeOK, LifeInv, BoundInv, OrderInv, Detail, Fetch, Status, Outcome
  <2>3. NothingWaitsInVain
    BY <2>1 DEF NothingWaitsInVain, ListInv, OrderInv, DetailInv
  <2>4. PolledOnce
    BY <2>1 DEF PolledOnce, OrderInv, DetailInv, Away
  <2> QED
    BY <2>2, <2>3, <2>4 DEF PageInv
<1> QED
  BY PagesFit, <1>1, PTL

\* A list page that is neither loading nor in error shows the page and the filter its
\* tabs and pager name, in whatever order answers, clicks and failures come.
THEOREM ListsShowTheirKey == Spec => []ShowsItsList
<1>1. Inv => ShowsItsList
  BY DEF Inv, ListInv
<1> QED
  BY PagesFit, <1>1, PTL

\* A user is shown the own orders only, an admin all, and no owner is told that an own
\* order was not found.
THEOREM OwnersSeeTheirOrders == Spec => []FindsOwnOrders
<1>1. Inv => FindsOwnOrders
  BY DEF Inv, OrderInv, DetailInv, FindsOwnOrders, Found
<1> QED
  BY PagesFit, <1>1, PTL

\* A settled order never appears with the other outcome of its payment.
THEOREM OrderAndPaymentAgree == Spec => []ShownPaymentAgrees
<1>1. Inv => ShownPaymentAgrees
  <2> SUFFICES ASSUME Inv, route = "order", detail.payment # "NONE"
               PROVE  /\ detail.order = "PAID" => detail.payment = "SUCCEEDED"
                      /\ detail.order = "PAYMENT_FAILED" => detail.payment = "FAILED"
    BY DEF ShownPaymentAgrees
  <2>1. detail.id \in Orders /\ DetailInv /\ LifeInv
    BY DEF Inv, OrderInv
  <2>2. /\ detail.order \in Terminal => status[detail.id] = detail.order
        /\ charge[detail.id] = detail.payment
    BY <2>1 DEF DetailInv
  <2> QED
    BY <2>1, <2>2 DEF LifeInv, Terminal
<1> QED
  BY PagesFit, <1>1, PTL

\* What is shown as read is read, or a call that makes it so is under way.
THEOREM MarksAreTrue == Spec => []ShownReadIsRead
<1>1. Inv => ShownReadIsRead
  BY DEF Inv, ReadInv
<1> QED
  BY PagesFit, <1>1, PTL

-----------------------------------------------------------------------------
(* The services the pages stand on: OrderLifecycle and Inbox.              *)

\* A page moves an order only as the lifecycle allows: the one page that does, cancels a
\* pending order that exists.
LEMMA BackendStep ==
    ASSUME Inv, [Next]_vars
    PROVE  [Backend!Next]_(Backend!vars)
<1>1. ASSUME UNCHANGED <<status, charge>> PROVE UNCHANGED Backend!vars
  BY <1>1 DEF Backend!vars
<1>2. CASE OrderMoves
  BY <1>2 DEF OrderMoves, Backend!Next
<1>3. CASE CancelOrder
  <2>1. detail.id \in Orders
    <3>1. cancel # "none"
      BY <1>3 DEF CancelOrder
    <3> QED
      BY <3>1 DEF Inv, OrderInv, Away
  <2> QED
    BY <1>1, <1>3, <2>1 DEF CancelOrder, Backend!Next
<1>4. CASE MailArrives \/ ListStep \/ MarkStep \/ UNCHANGED vars
  BY <1>1, <1>4
     DEF MailArrives, ListStep, OpenList, TurnTo, Choose, ReadList, ShowList, ListFails,
         MarkStep, Click, MarkRead, MarkAnswered, MarkFails, server, vars
<1>5. CASE OrderStep /\ ~CancelOrder
  BY <1>1, <1>5
     DEF OrderStep, OpenOrder, ReadOrder, ShowOrder, ReadPayment, EndWithPayment, EndWithError,
         TimerFires, ClickCancel, AnswerDialog, CancelAnswered, CancelFails, server
<1> QED
  BY <1>2, <1>3, <1>4, <1>5 DEF Next

\* A page changes the inbox only by reading one of its notifications.
LEMMA MailStep ==
    ASSUME [Next]_vars
    PROVE  [Mail!Next]_inbox
<1>1. CASE MailArrives
  BY <1>1 DEF MailArrives, Mail!Next
<1>2. ASSUME NEW k \in 1..MaxClicks, MarkRead(k) PROVE Mail!Next
  <2>1. Mail!MarkRead(Me, mark[k].id) /\ mark[k].id \in DOMAIN inbox[Me]
    BY <1>2 DEF MarkRead, Mail!MarkRead
  <2> QED
    BY <2>1 DEF Mail!Next
<1>3. CASE MarkStep
  BY <1>2, <1>3 DEF MarkStep, Click, MarkAnswered, MarkFails, server
<1>4. CASE OrderMoves \/ ListStep \/ UNCHANGED vars
  BY <1>4 DEF OrderMoves, ListStep, OpenList, TurnTo, Choose, ReadList, ShowList, ListFails,
              server, vars
<1>5. CASE OrderStep
  BY <1>5
     DEF OrderStep, OpenOrder, ReadOrder, ShowOrder, ReadPayment, EndWithPayment, EndWithError,
         TimerFires, ClickCancel, AnswerDialog, CancelOrder, CancelAnswered, CancelFails, server
<1> QED
  BY <1>1, <1>3, <1>4, <1>5 DEF Next

\* Whatever the pages do, the orders behind them move as OrderLifecycle says and the
\* notifications as Inbox says: a late, repeated or refused Cancel or a click that its
\* page has given up makes no other change than the promises allow.
THEOREM PagesKeepPromises == Spec => Backend!Spec /\ Mail!Spec
<1>1. Init => Backend!Init /\ Mail!Init
  BY DEF Init
<1>2. Inv /\ [Next]_vars => [Backend!Next]_(Backend!vars) /\ [Mail!Next]_inbox
  BY BackendStep, MailStep
<1> QED
  BY <1>1, <1>2, PagesFit, PTL DEF Spec, Backend!Spec, Mail!Spec

-----------------------------------------------------------------------------
(* The pages of a list.                                                    *)

\* Division by a page size: the quotient and what is left.
LEMMA Quotient ==
    ASSUME NEW x \in Nat, NEW d \in Nat \ {0}
    PROVE  x \div d \in Nat /\ (x \div d) * d <= x /\ x < (x \div d) * d + d
  OBVIOUS

\* Multiples of different numbers are a page apart.
LEMMA Multiples ==
    ASSUME NEW a \in Int, NEW b \in Int, NEW d \in Nat \ {0}, a < b
    PROVE  a * d + d <= b * d /\ a * d \in Int /\ b * d \in Int
  <1>1. PICK e \in Nat : b = a + 1 + e
    <2>1. b - a - 1 \in Nat /\ b = a + 1 + (b - a - 1)
      OBVIOUS
    <2> QED BY <2>1
  <1>2. b * d = a * d + d + e * d
    BY <1>1
  <1>3. e * d \in Nat
    BY <1>1
  <1> QED BY <1>2, <1>3

\* The place in the list of row k of a page.
Position(page, k, limit) == (page - 1) * limit + k

\* How many pages there are, and the page an entry is on.
LEMMA PageOfEntry ==
    ASSUME NEW total \in Nat, NEW limit \in Nat \ {0}, NEW n \in 1..total
    PROVE  LET page == (n - 1) \div limit + 1
           IN  /\ page \in 1..PageCount(total, limit)
               /\ (page - 1) * limit < n /\ n <= page * limit
               /\ (page - 1) * limit \in Nat /\ page * limit \in Nat
  <1> DEFINE q == (n - 1) \div limit
  <1> DEFINE r == (total + limit - 1) \div limit
  <1>1. q \in Nat /\ q * limit <= n - 1 /\ n - 1 < q * limit + limit /\ q * limit \in Nat
    <2> DEFINE x == n - 1
    <2>1. x \in Nat
      OBVIOUS
    <2> HIDE DEF x
    <2>2. x \div limit \in Nat /\ (x \div limit) * limit <= x /\ x < (x \div limit) * limit + limit
      BY <2>1, Quotient
    <2>3. (x \div limit) * limit \in Nat
      BY <2>2
    <2> QED BY <2>2, <2>3 DEF x
  <1>2. r \in Nat /\ total + limit - 1 < r * limit + limit /\ r * limit \in Nat
    <2> DEFINE x == total + limit - 1
    <2>1. x \in Nat
      OBVIOUS
    <2> HIDE DEF x
    <2>2. x \div limit \in Nat /\ x < (x \div limit) * limit + limit
      BY <2>1, Quotient
    <2>3. (x \div limit) * limit \in Nat
      BY <2>2
    <2> QED BY <2>2, <2>3 DEF x
  <1>3. PageCount(total, limit) = Greater(1, r)
    BY DEF PageCount
  <1> HIDE DEF q, r
  <1>4. q * limit < r * limit
    BY <1>1, <1>2
  <1>5. q < r
    <2> SUFFICES ASSUME r <= q PROVE FALSE
      BY <1>1, <1>2
    <2>1. CASE r = q
      BY <1>1, <1>2, <1>4, <2>1
    <2>2. CASE r < q
      <3>1. r * limit + limit <= q * limit
        BY <1>1, <1>2, <2>2, Multiples
      <3> QED BY <1>1, <1>2, <1>4, <3>1
    <2> QED BY <1>1, <1>2, <2>1, <2>2
  <1>6. q + 1 \in 1..PageCount(total, limit)
    BY <1>1, <1>2, <1>3, <1>5 DEF Greater
  <1>7. (q + 1 - 1) * limit = q * limit /\ (q + 1) * limit = q * limit + limit
    BY <1>1
  <1>8. /\ q + 1 \in 1..PageCount(total, limit)
        /\ (q + 1 - 1) * limit < n /\ n <= (q + 1) * limit
        /\ (q + 1 - 1) * limit \in Nat /\ (q + 1) * limit \in Nat
    BY <1>1, <1>6, <1>7
  <1> QED BY <1>8 DEF q

\* The rows of a page are the entries at its places.
LEMMA SliceRows ==
    ASSUME NEW S, NEW list \in Seq(S), NEW limit \in Nat \ {0}, NEW page \in Nat \ {0}
    PROVE  /\ DOMAIN Slice(list, page, limit)
                = {k \in 1..limit : Position(page, k, limit) <= Len(list)}
           /\ \A k \in DOMAIN Slice(list, page, limit) :
                Slice(list, page, limit)[k] = list[Position(page, k, limit)]
  <1> DEFINE skip == (page - 1) * limit
  <1> DEFINE upto == page * limit
  <1> DEFINE last == Lesser(upto, Len(list))
  <1>1. skip \in Nat /\ upto = skip + limit
    <2>1. PICK b \in Nat : page = b + 1
      <3>1. page - 1 \in Nat /\ page = page - 1 + 1
        OBVIOUS
      <3> QED BY <3>1
    <2>2. skip = b * limit /\ b * limit \in Nat
      BY <2>1
    <2>3. upto = b * limit + limit
      BY <2>1
    <2> QED BY <2>2, <2>3
  <1>2. Slice(list, page, limit) = SubSeq(list, skip + 1, last)
    BY DEF Slice
  <1>3. \A k : Position(page, k, limit) = skip + k
    BY DEF Position
  <1> HIDE DEF skip, upto
  <1>4. /\ Len(list) \in Nat /\ last \in Nat /\ last <= Len(list) /\ skip + 1 \in Nat
        /\ \A k \in Nat : k <= last <=> (k <= skip + limit /\ k <= Len(list))
    BY <1>1 DEF Lesser
  <1> HIDE DEF last
  <1> QED BY <1>1, <1>2, <1>3, <1>4

\* Paging loses and repeats nothing: of a list that does not change while it is read,
\* every entry is a row of a page the pager counts, of that page only, and once; and no
\* page has more rows than fit.
THEOREM PagesPartitionAList ==
    ASSUME NEW S, NEW list \in Seq(S), NEW limit \in Nat \ {0}
    PROVE  LET Pages == 1..PageCount(Len(list), limit)
               Rows(page) == DOMAIN Slice(list, page, limit)
           IN  /\ \A n \in DOMAIN list : \E page \in Pages : \E k \in Rows(page) :
                    /\ Position(page, k, limit) = n
                    /\ Slice(list, page, limit)[k] = list[n]
               /\ \A p, q \in Pages : \A j \in Rows(p), k \in Rows(q) :
                    Position(p, j, limit) = Position(q, k, limit) => p = q /\ j = k
               /\ \A page \in Pages : Rows(page) \subseteq 1..limit
  <1> DEFINE Pages == 1..PageCount(Len(list), limit)
  <1> DEFINE Rows(page) == DOMAIN Slice(list, page, limit)
  <1>1. Len(list) \in Nat /\ DOMAIN list = 1..Len(list)
    OBVIOUS
  <1>2. \A page \in Pages : page \in Nat \ {0}
    OBVIOUS
  <1>3. ASSUME NEW n \in DOMAIN list
        PROVE  \E page \in Pages : \E k \in Rows(page) :
                    /\ Position(page, k, limit) = n
                    /\ Slice(list, page, limit)[k] = list[n]
    <2> DEFINE page == (n - 1) \div limit + 1
    <2> DEFINE skip == (page - 1) * limit
    <2> DEFINE upto == page * limit
    <2>1. page \in Pages /\ skip < n /\ n <= upto /\ skip \in Nat /\ upto \in Nat
      BY <1>1, PageOfEntry
    <2> HIDE DEF page
    <2>2. upto = skip + limit
      <3>1. page \in Nat \ {0}
        BY <1>2, <2>1
      <3>2. PICK b \in Nat : page = b + 1
        <4>1. page - 1 \in Nat /\ page = page - 1 + 1
          BY <3>1
        <4> QED BY <4>1
      <3>3. skip = b * limit /\ upto = b * limit + limit
        BY <3>2
      <3> QED BY <3>3
    <2>3. n - skip \in 1..limit /\ Position(page, n - skip, limit) = n
      <3>1. Position(page, n - skip, limit) = skip + (n - skip)
        BY DEF Position
      <3> HIDE DEF skip, upto
      <3> QED BY <1>1, <2>1, <2>2, <3>1
    <2> HIDE DEF skip, upto
    <2>4. n - skip \in Rows(page) /\ Slice(list, page, limit)[n - skip] = list[n]
      <3>1. page \in Nat \ {0} /\ n <= Len(list)
        BY <1>1, <1>2, <2>1
      <3>2. DOMAIN Slice(list, page, limit) = {k \in 1..limit : Position(page, k, limit) <= Len(list)}
        BY <3>1, SliceRows
      <3>3. n - skip \in DOMAIN Slice(list, page, limit)
        BY <2>3, <3>1, <3>2
      <3>4. \A k \in DOMAIN Slice(list, page, limit) :
              Slice(list, page, limit)[k] = list[Position(page, k, limit)]
        BY <3>1, SliceRows
      <3>5. Slice(list, page, limit)[n - skip] = list[Position(page, n - skip, limit)]
        BY <3>3, <3>4
      <3> QED BY <2>3, <3>3, <3>5
    <2> QED BY <2>1, <2>3, <2>4
  <1>4. ASSUME NEW page \in Pages PROVE Rows(page) \subseteq 1..limit
    <2>1. page \in Nat \ {0}
      BY <1>2
    <2>2. DOMAIN Slice(list, page, limit) = {k \in 1..limit : Position(page, k, limit) <= Len(list)}
      BY <2>1, SliceRows
    <2> QED BY <2>2
  <1>5. ASSUME NEW p \in Pages, NEW q \in Pages, NEW j \in Rows(p), NEW k \in Rows(q),
               Position(p, j, limit) = Position(q, k, limit)
        PROVE  p = q /\ j = k
    <2> DEFINE a == p - 1
    <2> DEFINE b == q - 1
    <2>1. a \in Int /\ b \in Int /\ j \in 1..limit /\ k \in 1..limit /\ p = a + 1 /\ q = b + 1
      BY <1>2, <1>4
    <2>2. a * limit + j = b * limit + k
      BY <1>5 DEF Position
    <2> HIDE DEF a, b
    <2>3. CASE a = b
      BY <2>1, <2>2, <2>3
    <2>4. CASE a < b
      <3>1. a * limit + limit <= b * limit /\ a * limit \in Int /\ b * limit \in Int
        BY <2>1, <2>4, Multiples
      <3> QED BY <2>1, <2>2, <3>1
    <2>5. CASE b < a
      <3>1. b * limit + limit <= a * limit /\ b * limit \in Int /\ a * limit \in Int
        BY <2>1, <2>5, Multiples
      <3> QED BY <2>1, <2>2, <3>1
    <2> QED BY <2>1, <2>3, <2>4, <2>5
  <1> QED BY <1>3, <1>4, <1>5
=============================================================================
