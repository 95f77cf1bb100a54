----------------------------- MODULE OrderSaga -----------------------------
(***************************************************************************)
(* The checkout saga of order-service and payment-service: one checkout    *)
(* call per order, the two transactional outboxes with their publishers,   *)
(* the two SQS queues between the services with redelivery and dead        *)
(* letters, the two idempotent consumers, cancellation, and the failures   *)
(* of each step.  Stock is reserved before the first step of this module.  *)
(*                                                                         *)
(* A service is named by the database it owns.  The publisher of service s *)
(* sends to the queue its peer consumes (01-bootstrap.sh: order-events to  *)
(* payment-svc-order-queue, payment-events to order-svc-payment-queue).    *)
(***************************************************************************)
EXTENDS Integers, Sequences, FiniteSets

CONSTANTS
    Orders,         \* checkout calls, each named by the order it creates
    Amounts,        \* order totals, in cents
    DeclineLimit,   \* the largest total the simulated provider accepts
    BatchSize,      \* rows one publisher tick claims (20 in the code)
    ReceiveLimit,   \* messages one ReceiveMessage returns (10 in the code)
    MaxReceive,     \* maxReceiveCount of the redrive policy (5 in the code)
    MaxFaults       \* bound: crashes and failed calls in one behaviour

ASSUME AmountsAssumption == Amounts \subseteq Nat /\ DeclineLimit \in Nat
ASSUME BoundsAssumption ==
    /\ BatchSize \in Nat \ {0} /\ ReceiveLimit \in Nat \ {0}
    /\ MaxReceive \in Nat \ {0} /\ MaxFaults \in Nat

VARIABLES
    call,       \* call[o]: progress of OrdersService.create for order o
    reply,      \* reply[o]: the status the checkout answered with
    status,     \* status[o]: dbo.Orders.Status
    total,      \* total[o]: dbo.Orders.TotalAmount
    payment,    \* payment[o]: the row of payments for order o
    ledger,     \* ledger[s]: ids of the peer's events in s's processed-events table
    outbox,     \* outbox[s]: the rows of s's outbox table; a row's index is its id
    published,  \* published[s]: ids of the rows committed as published
    tick,       \* tick[s]: the publisher's open transaction
    messages,   \* messages[s]: the messages of the queue s consumes, and its DLQ
    refused,    \* orders whose result was acknowledged with INVALID_TRANSITION
    faults      \* failures so far

checkoutVars == <<call, reply>>
eventVars == <<ledger, outbox>>
relayVars == <<published, tick>>
vars == <<call, reply, status, total, payment, ledger, outbox, published, tick,
          messages, refused, faults>>

-----------------------------------------------------------------------------
Services == {"order", "payment"}
Peer(s) == IF s = "order" THEN "payment" ELSE "order"

Status == {"NONE", "PENDING", "AWAITING_PAYMENT", "PAID", "PAYMENT_FAILED", "CANCELLED"}
Outcome == {"SUCCEEDED", "FAILED"}
EventType == {"ORDER_CREATED", "PAYMENT_SUCCEEDED", "PAYMENT_FAILED"}

StatusForFulfilled(outcome) == IF outcome = "SUCCEEDED" THEN "FULFILLED" ELSE "PAYMENT_FAILED"
StatusFor(outcome) == IF outcome = "SUCCEEDED" THEN "PAID" ELSE "PAYMENT_FAILED"
EventFor(outcome) == IF outcome = "SUCCEEDED" THEN "PAYMENT_SUCCEEDED" ELSE "PAYMENT_FAILED"
OutcomeOfAny(type) == "SUCCEEDED"
OutcomeOf(type) == IF type = "PAYMENT_SUCCEEDED" THEN "SUCCEEDED" ELSE "FAILED"

\* The simulated provider: totals above the limit are declined.
Decide(amount) == IF amount <= DeclineLimit THEN "SUCCEEDED" ELSE "FAILED"

Row == [type : EventType, order : Orders, amount : Nat]

\* deriveEventId hashes the service and the row id: equal rows, equal ids.  The
\* copy is the count of failures when the message was sent, which tells apart
\* the copies of a row: it is sent again only after a tick that failed.
Message == [event : Nat \ {0}, copy : 0..MaxFaults, receives : 0..MaxReceive,
            at : {"queue", "batch", "handled", "dlq"}]

NoTick == [open |-> FALSE, todo |-> {}, marked |-> {}]
Tick == [open : BOOLEAN, todo : SUBSET (Nat \ {0}), marked : SUBSET (Nat \ {0})]

NoPayment == [status |-> "NONE", amount |-> 0]
Payment == [status : Outcome \cup {"NONE"}, amount : Nat]

Unpublished(s) == DOMAIN outbox[s] \ published[s]
Held(s) == {m \in messages[s] : m.at \in {"batch", "handled"}}
At(place, m) == [m EXCEPT !.at = place]
ReceivedAgain(m) == [m EXCEPT !.at = "batch", !.receives = @ + 1]

\* The queue of s with message m moved to another place.
Moved(s, m, place) ==
    [messages EXCEPT ![s] = (@ \ {m}) \cup {At(place, m)}]

Fault == faults < MaxFaults /\ faults' = faults + 1

-----------------------------------------------------------------------------
Init ==
    /\ call = [o \in Orders |-> "idle"]
    /\ reply = [o \in Orders |-> "NONE"]
    /\ status = [o \in Orders |-> "NONE"]
    /\ total = [o \in Orders |-> 0]
    /\ payment = [o \in Orders |-> NoPayment]
    /\ ledger = [s \in Services |-> {}]
    /\ outbox = [s \in Services |-> <<>>]
    /\ published = [s \in Services |-> {}]
    /\ tick = [s \in Services |-> NoTick]
    /\ messages = [s \in Services |-> {}]
    /\ refused = {}
    /\ faults = 0

-----------------------------------------------------------------------------
(* OrdersService.create, one awaited database call after the other.        *)

\* usp_Order_Create: the order and its outbox row in one transaction.
CreateOrder(o) ==
    /\ call[o] = "idle"
    /\ \E amount \in Amounts :
        /\ total' = [total EXCEPT ![o] = amount]
        /\ outbox' = [outbox EXCEPT !["order"] =
                        Append(@, [type |-> "ORDER_CREATED", order |-> o, amount |-> amount])]
    /\ status' = [status EXCEPT ![o] = "PENDING"]
    /\ call' = [call EXCEPT ![o] = "created"]
    /\ UNCHANGED <<reply, payment, ledger, relayVars, messages, refused, faults>>

\* usp_Order_ConfirmAwaitingPayment: an UPDATE of its own, for a PENDING order.
ConfirmedUnguarded(o) == [status EXCEPT ![o] = "AWAITING_PAYMENT"]
ConfirmedNever(o) == status
Confirmed(o) ==
    IF status[o] = "PENDING" THEN [status EXCEPT ![o] = "AWAITING_PAYMENT"] ELSE status

ConfirmAwaitingPayment(o) ==
    /\ call[o] = "created"
    /\ status' = Confirmed(o)
    /\ call' = [call EXCEPT ![o] = "confirmed"]
    /\ UNCHANGED <<reply, total, payment, eventVars, relayVars, messages, refused, faults>>

\* The getById that ends the call: the answer carries the status it reads.
AnswerCall(o) ==
    /\ call[o] = "confirmed"
    /\ reply' = [reply EXCEPT ![o] = status[o]]
    /\ call' = [call EXCEPT ![o] = "answered"]
    /\ UNCHANGED <<status, total, payment, eventVars, relayVars, messages, refused, faults>>

\* A query after usp_Order_Create throws: the caller gets an error.
AbortCall(o) ==
    /\ call[o] \in {"created", "confirmed"}
    /\ Fault
    /\ call' = [call EXCEPT ![o] = "failed"]
    /\ UNCHANGED <<reply, status, total, payment, eventVars, relayVars, messages, refused>>

\* usp_Order_Cancel by the owner or an admin; another status is INVALID_TRANSITION.
Cancel(o) ==
    /\ status[o] = "PENDING"
    /\ status' = [status EXCEPT ![o] = "CANCELLED"]
    /\ UNCHANGED <<checkoutVars, total, payment, eventVars, relayVars, messages, refused, faults>>

-----------------------------------------------------------------------------
(* The outbox publisher of each service.  A tick is one transaction: what  *)
(* it marks is visible only when it commits.                               *)

\* The n smallest ids of a set.
Oldest(ids, n) == {i \in ids : Cardinality({j \in ids : j < i}) < n}

ClaimBatch(s) ==
    /\ ~tick[s].open
    /\ Unpublished(s) # {}
    /\ tick' = [tick EXCEPT ![s] = [open |-> TRUE, marked |-> {},
                                    todo |-> Oldest(Unpublished(s), BatchSize)]]
    /\ UNCHANGED <<checkoutVars, status, total, payment, eventVars, published,
                   messages, refused, faults>>

Sent(s, i) ==
    [messages EXCEPT ![Peer(s)] = @ \cup
        {[event |-> i, copy |-> faults, receives |-> 0, at |-> "queue"]}]

\* The row whose turn it is in the claimed batch.
NextRow(s, i) == tick[s].todo # {} /\ i \in Oldest(tick[s].todo, 1)

\* SNS accepts the event and the row is marked inside the open transaction.
PublishNext(s) ==
    \E i \in tick[s].todo :
        /\ NextRow(s, i)
        /\ messages' = Sent(s, i)
        /\ tick' = [tick EXCEPT ![s].todo = @ \ {i}, ![s].marked = @ \cup {i}]
        /\ UNCHANGED <<checkoutVars, status, total, payment, eventVars, published,
                       refused, faults>>

\* The rows a committed tick leaves published: the ones it marked.
MarkedAll(s) == DOMAIN outbox[s]
Marked(s) == tick[s].marked

Commit(s) ==
    /\ tick[s].open
    /\ tick[s].todo = {}
    /\ published' = [published EXCEPT ![s] = @ \cup Marked(s)]
    /\ tick' = [tick EXCEPT ![s] = NoTick]
    /\ UNCHANGED <<checkoutVars, status, total, payment, eventVars, messages,
                   refused, faults>>

\* A publish, a mark or the commit throws: every mark of the tick is undone.  A
\* publish whose answer is lost has delivered its event all the same.
Rollback(s) ==
    /\ tick[s].open
    /\ Fault
    /\ \/ UNCHANGED messages
       \/ \E i \in tick[s].todo : NextRow(s, i) /\ messages' = Sent(s, i)
    /\ tick' = [tick EXCEPT ![s] = NoTick]
    /\ UNCHANGED <<checkoutVars, status, total, payment, eventVars, published, refused>>

-----------------------------------------------------------------------------
(* The consumer of each service: SqsConsumerBase receives a batch, handles *)
(* its messages one after the other and deletes each one handled.          *)

Receive(s) ==
    /\ Held(s) = {}
    /\ \E batch \in SUBSET {m \in messages[s] : m.at = "queue" /\ m.receives < MaxReceive} :
        /\ batch # {}
        /\ Cardinality(batch) <= ReceiveLimit
        /\ messages' = [messages EXCEPT ![s] = (@ \ batch) \cup
                {ReceivedAgain(m) : m \in batch}]
    /\ UNCHANGED <<checkoutVars, status, total, payment, eventVars, relayVars, refused, faults>>

\* The redrive policy moves a message received too often to the DLQ.
DeadLetter(s) ==
    /\ \E m \in messages[s] :
        /\ m.at = "queue"
        /\ m.receives = MaxReceive
        /\ messages' = Moved(s, m, "dlq")
    /\ UNCHANGED <<checkoutVars, status, total, payment, eventVars, relayVars, refused, faults>>

\* The consumer's ledger already holds the event.
AlreadyProcessedNever(s, m) == FALSE
AlreadyProcessed(s, m) == m.event \in ledger[s]

\* The message the loop hands to handleEvent next.
Handles(s, m) ==
    /\ m.at = "batch"
    /\ \A other \in messages[s] : other.at # "handled"

\* sp_payment_process past its ledger check: charge, result row and ledger row.
\* ON DUPLICATE KEY UPDATE status = status keeps the payments row an order has.
ChargeOrder(event, row) ==
    LET outcome == Decide(row.amount)
    IN  /\ payment' = IF payment[row.order] # NoPayment THEN payment
                      ELSE [payment EXCEPT ![row.order] =
                                [status |-> outcome, amount |-> row.amount]]
        /\ outbox' = [outbox EXCEPT !["payment"] = Append(@,
                [type |-> EventFor(outcome), order |-> row.order, amount |-> row.amount])]
        /\ ledger' = [ledger EXCEPT !["payment"] = @ \cup {event}]

\* The consumer of payment-svc-order-queue; ALREADY_PROCESSED changes nothing.
Charges(m) ==
    /\ Handles("payment", m)
    /\ messages' = Moved("payment", m, "handled")
    /\ \/ AlreadyProcessed("payment", m) /\ UNCHANGED <<payment, eventVars>>
       \/ ~AlreadyProcessed("payment", m) /\ ChargeOrder(m.event, outbox["order"][m.event])

ProcessOrderCreated ==
    /\ \E m \in messages["payment"] : Charges(m)
    /\ UNCHANGED <<checkoutVars, status, total, relayVars, refused, faults>>

\* usp_Order_ApplyPaymentResult by the consumer of order-svc-payment-queue.  An order
\* that is not awaiting its payment makes it roll back, so the event stays out of
\* the ledger; the consumer only logs INVALID_TRANSITION, and acknowledges.
Settles(m) ==
    LET row == outbox["payment"][m.event]
    IN  /\ Handles("order", m)
        /\ messages' = Moved("order", m, "handled")
        /\ \/ /\ AlreadyProcessed("order", m)
              /\ UNCHANGED <<status, ledger, refused>>
           \/ /\ ~AlreadyProcessed("order", m)
              /\ status[row.order] # "AWAITING_PAYMENT"
              /\ refused' = refused \cup {row.order}
              /\ UNCHANGED <<status, ledger>>
           \/ /\ ~AlreadyProcessed("order", m)
              /\ status[row.order] = "AWAITING_PAYMENT"
              /\ status' = [status EXCEPT ![row.order] = StatusFor(OutcomeOf(row.type))]
              /\ ledger' = [ledger EXCEPT !["order"] = @ \cup {m.event}]
              /\ UNCHANGED refused

ApplyPaymentResult ==
    /\ \E m \in messages["order"] : Settles(m)
    /\ UNCHANGED <<checkoutVars, total, payment, outbox, relayVars, faults>>

\* handleEvent throws (INTERNAL_ERROR): the message shows up again.
AfterFailureDeleted(s, m) == [messages EXCEPT ![s] = @ \ {m}]
AfterFailure(s, m) == Moved(s, m, "queue")

HandlerFails(s) ==
    /\ Fault
    /\ \E m \in messages[s] : Handles(s, m) /\ messages' = AfterFailure(s, m)
    /\ UNCHANGED <<checkoutVars, status, total, payment, eventVars, relayVars, refused>>

\* DeleteMessageCommand, once handleEvent has resolved.
DeletedNever(s, m) == Moved(s, m, "queue")
Deleted(s, m) == [messages EXCEPT ![s] = @ \ {m}]

DeleteMessage(s) ==
    /\ \E m \in messages[s] : m.at = "handled" /\ messages' = Deleted(s, m)
    /\ UNCHANGED <<checkoutVars, status, total, payment, eventVars, relayVars, refused, faults>>

\* The delete is lost: the handled message is redelivered.
DeleteFails(s) ==
    /\ Fault
    /\ \E m \in messages[s] : m.at = "handled" /\ messages' = Moved(s, m, "queue")
    /\ UNCHANGED <<checkoutVars, status, total, payment, eventVars, relayVars, refused>>

-----------------------------------------------------------------------------
(* The process of service s stops and is started again: its checkout calls *)
(* end, its open transaction rolls back, what it held becomes visible.     *)
Crash(s) ==
    /\ Fault
    /\ call' = [o \in Orders |->
            IF s = "order" /\ call[o] \in {"created", "confirmed"} THEN "failed" ELSE call[o]]
    /\ tick' = [tick EXCEPT ![s] = NoTick]
    /\ messages' = [messages EXCEPT ![s] = (@ \ Held(s)) \cup {At("queue", m) : m \in Held(s)}]
    /\ UNCHANGED <<reply, status, total, payment, eventVars, published, refused>>

CheckoutStep(o) ==
    CreateOrder(o) \/ ConfirmAwaitingPayment(o) \/ AnswerCall(o) \/ AbortCall(o) \/ Cancel(o)

RelayStep(s) == ClaimBatch(s) \/ PublishNext(s) \/ Commit(s) \/ Rollback(s)

QueueStep(s) ==
    Receive(s) \/ DeadLetter(s) \/ HandlerFails(s) \/ DeleteMessage(s) \/ DeleteFails(s)

Next ==
    \/ \E o \in Orders : CheckoutStep(o)
    \/ \E s \in Services : RelayStep(s) \/ QueueStep(s) \/ Crash(s)
    \/ ProcessOrderCreated
    \/ ApplyPaymentResult

\* The interval timer, the poll loop and the running calls are always scheduled
\* again; nobody has to check out, to cancel, or to fail.
Fairness ==
    /\ \A o \in Orders : WF_vars(ConfirmAwaitingPayment(o)) /\ WF_vars(AnswerCall(o))
    /\ \A s \in Services :
        /\ WF_vars(ClaimBatch(s)) /\ WF_vars(PublishNext(s)) /\ WF_vars(Commit(s))
        /\ WF_vars(Receive(s)) /\ WF_vars(DeleteMessage(s)) /\ WF_vars(DeadLetter(s))
    /\ WF_vars(ProcessOrderCreated)
    /\ WF_vars(ApplyPaymentResult)

Spec == Init /\ [][Next]_vars
FairSpec == Spec /\ Fairness

-----------------------------------------------------------------------------
(* Properties.                                                             *)

\* Every variable holds values of the shape the tables and the processes give it.
TypeOK ==
    /\ call \in [Orders -> {"idle", "created", "confirmed", "answered", "failed"}]
    /\ reply \in [Orders -> Status]
    /\ status \in [Orders -> Status]
    /\ total \in [Orders -> Nat]
    /\ payment \in [Orders -> Payment]
    /\ ledger \in [Services -> SUBSET Nat]
    /\ outbox \in [Services -> Seq(Row)]
    /\ published \in [Services -> SUBSET Nat]
    /\ tick \in [Services -> Tick]
    /\ messages \in [Services -> SUBSET Message]
    /\ refused \in SUBSET Orders
    /\ faults \in 0..MaxFaults

Charged(o) == payment[o] # NoPayment

\* A PAID order was charged, successfully and for its own total; a PAYMENT_FAILED
\* one was declined for it.  The two facts live in two databases and meet only
\* through events that may be sent twice, late, or after a restart.
SettledByPayment ==
    \A o \in Orders : \A outcome \in Outcome :
        status[o] = StatusFor(outcome)
            => payment[o] = [status |-> outcome, amount |-> total[o]]

\* However often ORDER_CREATED is delivered, payment-service writes one result
\* event per order (the ledger, not the payments key, is what ensures it: the
\* key only keeps the first row and lets the outbox insert go on).
OneResultPerOrder ==
    \A i, j \in DOMAIN outbox["payment"] :
        outbox["payment"][i].order = outbox["payment"][j].order => i = j

\* The event of row i of s is with the peer: in its queue or DLQ, recorded in
\* its ledger, or acknowledged with INVALID_TRANSITION.
WithPeer(s, i) ==
    \/ \E m \in messages[Peer(s)] : m.event = i
    \/ i \in ledger[Peer(s)]
    \/ s = "payment" /\ outbox[s][i].order \in refused

\* No event is lost between two services: a row the publisher will not send again
\* is with the peer.  Crashes and failed calls at any point keep this.
NoEventLost ==
    \A s \in Services : \A i \in published[s] : WithPeer(s, i)

\* A message is received again, and in the end dead-lettered, only for failures
\* that happened after it was sent: a duplicate, an early or an unwanted result
\* is acknowledged and never uses up the receives the redrive policy allows.
ReceivesAreFailures ==
    \A s \in Services : \A m \in messages[s] :
        m.receives <= faults - m.copy + (IF m.at \in {"batch", "handled"} THEN 1 ELSE 0)

\* The answer of a checkout that succeeded never shows the intermediate PENDING,
\* though the order may be cancelled, charged or settled while the call runs.
AnswerNotPending ==
    \A o \in Orders : call[o] = "answered" => reply[o] \notin {"NONE", "PENDING"}

\* The saga implements the lifecycle of OrderLifecycle.tla: one charge per order
\* and no status change but the ones its diagram has, duplicates and crashes or not.
Lifecycle == INSTANCE OrderLifecycle
    WITH charge <- [o \in Orders |-> payment[o].status]
ImplementsLifecycle == Lifecycle!Spec

DeadLettered(s, o) ==
    \E m \in messages[s] : m.at = "dlq" /\ outbox[Peer(s)][m.event].order = o

\* An order that exists is charged in the end, unless its event is dead-lettered:
\* the outbox, the retries and the redelivery overcome every finite run of failures.
EveryOrderCharged ==
    \A o \in Orders :
        status[o] # "NONE" ~> Charged(o) \/ DeadLettered("payment", o)

\* A charge reaches the order in the end, unless its result is dead-lettered or
\* was refused because the order was not awaiting it.
EveryChargeReachesOrder ==
    \A o \in Orders :
        Charged(o) ~> \/ status[o] \in {"PAID", "PAYMENT_FAILED"}
                      \/ o \in refused
                      \/ DeadLettered("order", o)

\* So an order goes all the way: it is charged, and the charge reaches it, by polling
\* loops alone and through every finite run of crashes, lost answers and redeliveries.
EveryOrderGoesThrough == EveryOrderCharged /\ EveryChargeReachesOrder

-----------------------------------------------------------------------------
(* The strengthening that makes the invariants above inductive.            *)

\* Publishers, queues and ledgers refer to rows that exist.
RowsExist ==
    \A s \in Services :
        /\ tick[s].todo \cup tick[s].marked \cup published[s] \subseteq DOMAIN outbox[s]
        /\ ledger[Peer(s)] \subseteq DOMAIN outbox[s]
        /\ \A m \in messages[s] : m.event \in DOMAIN outbox[Peer(s)]

\* An order exists from usp_Order_Create on, with one ORDER_CREATED row for its total.
OneRowPerOrder ==
    /\ \A o \in Orders : call[o] = "idle" <=> status[o] = "NONE"
    /\ \A i \in DOMAIN outbox["order"] :
        LET row == outbox["order"][i]
        IN  /\ status[row.order] # "NONE"
            /\ row.amount = total[row.order]
            /\ \A j \in DOMAIN outbox["order"] : outbox["order"][j].order = row.order => j = i

\* A result row tells the order's charge, and a charge is for the order's total.
ResultsTellCharges ==
    \A i \in DOMAIN outbox["payment"] :
        LET row == outbox["payment"][i]
        IN  /\ status[row.order] # "NONE"
            /\ payment[row.order] = [status |-> OutcomeOf(row.type), amount |-> total[row.order]]

\* The order behind an ORDER_CREATED event is charged exactly when the ledger has
\* the event, and an order that does not exist is not charged.
LedgerTellsCharges ==
    /\ \A i \in DOMAIN outbox["order"] :
        i \in ledger["payment"] <=> Charged(outbox["order"][i].order)
    /\ \A o \in Orders : Charged(o) => status[o] # "NONE"

\* What a tick has marked and what a consumer has handled is not lost either.
NothingDropped ==
    \A s \in Services :
        /\ \A i \in published[s] \cup tick[s].marked : WithPeer(s, i)
        /\ \A m \in messages[s] : m.at = "handled" =>
            \/ m.event \in ledger[s]
            \/ s = "order" /\ outbox["payment"][m.event].order \in refused

\* The inductive invariant the proofs use.
SagaInv ==
    /\ TypeOK /\ RowsExist /\ OneRowPerOrder /\ ResultsTellCharges /\ LedgerTellsCharges
    /\ OneResultPerOrder /\ SettledByPayment /\ NothingDropped

-----------------------------------------------------------------------------
(* What the repository says of the system and the code does not do.        *)

\* OrderDetailPage: "If payment has already completed, cancellation will be rejected."
CancelRejectedOncePaid ==
    [][\A o \in Orders :
        payment[o].status = "SUCCEEDED" /\ status[o] # "CANCELLED" => status'[o] # "CANCELLED"]_vars

\* architecture.md: the result event takes the order to PAID or PAYMENT_FAILED.
AwaitingIsSettled ==
    \A o \in Orders : status[o] = "AWAITING_PAYMENT" ~> status[o] \in {"PAID", "PAYMENT_FAILED"}
=============================================================================
