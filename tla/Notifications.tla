--------------------------- MODULE Notifications ---------------------------
(***************************************************************************)
(* notification-service.  Two consumers, one per queue and without a       *)
(* ledger, turn events into notifications; the one of payment results asks *)
(* order-service whom to tell.  The process may run several times over the *)
(* same queues, and a slow batch may outlast its visibility timeout.       *)
(* Customers list their notifications and mark them read.                  *)
(***************************************************************************)
EXTENDS Integers, Sequences, FiniteSets

CONSTANTS
    Orders, Customers,
    Owner,          \* Owner[o]: the customer of order o
    Outcome,        \* Outcome[o]: the type of its payment event
    Instances,      \* processes of notification-service
    MaxReceive,     \* maxReceiveCount of the redrive policy (5 in the code)
    MaxFaults,      \* bound: failures of any kind
    MaxCopies,      \* bound: times a message is sent again
    MaxMarks        \* bound: calls of markRead

ASSUME NotificationConstants ==
    /\ Owner \in [Orders -> Customers]
    /\ Outcome \in [Orders -> {"PAYMENT_SUCCEEDED", "PAYMENT_FAILED"}]
    /\ MaxReceive \in Nat \ {0} /\ MaxFaults \in Nat /\ MaxCopies \in Nat /\ MaxMarks \in Nat

VARIABLES
    message,    \* message[m]: where a message is and how often it was received
    hold,       \* hold[i]: the messages instance i has received and not dealt with
    stored,     \* the notifications collection in order of creation
    marks,      \* markRead calls so far
    faults      \* failures so far

vars == <<message, hold, stored, marks, faults>>

Fault == faults < MaxFaults /\ faults' = faults + 1

\* The messages of an order's events, one on each queue, and the copies that a
\* publisher sends of them (one more per tick that fails after sending).
Queue == {"order", "payment"}
Message == [order : Orders, queue : Queue, copy : 0..MaxCopies]
Place == {"unsent", "visible", "hidden", "dlq", "deleted"}

\* A user id in the two spellings it has: SQL Server gives it in upper case.
FromSql(c) == [customer |-> c, upper |-> TRUE]
Sub(c) == [customer |-> c, upper |-> FALSE]
AsGiven(id) == id
ToLowerCase(id) == [id EXCEPT !.upper = FALSE]

Entry == [order : Orders, type : {"ORDER_PLACED", "PAYMENT_SUCCEEDED", "PAYMENT_FAILED"}]
EntryOf(m) ==
    [order |-> m.order, type |-> IF m.queue = "order" THEN "ORDER_PLACED" ELSE Outcome[m.order]]

Init ==
    /\ message = [m \in Message |-> [at |-> "unsent", receives |-> 0]]
    /\ hold = [i \in Instances |-> {}]
    /\ stored = <<>>
    /\ marks = 0
    /\ faults = 0

-----------------------------------------------------------------------------
(* The publishers of order- and payment-service.                           *)

Sent(m) == message[m].at # "unsent"

\* A message is sent; again when the tick that sent it did not commit.  There is no
\* payment before the order.
Publish(m) ==
    /\ ~Sent(m)
    /\ IF m.copy = 0 THEN UNCHANGED faults ELSE Sent([m EXCEPT !.copy = @ - 1]) /\ Fault
    /\ m.queue = "payment" => Sent([m EXCEPT !.queue = "order", !.copy = 0])
    /\ message' = [message EXCEPT ![m].at = "visible"]
    /\ UNCHANGED <<hold, stored, marks>>

-----------------------------------------------------------------------------
(* SqsConsumerBase, one loop per queue in every instance.                  *)

\* A message in hand, with the number of the receive that gave it.
Taken(m) == [message |-> m, nth |-> message[m].receives + 1, step |-> "received"]
Batch(i, q) == {h \in hold[i] : h.message.queue = q}

\* ReceiveMessage, when the last batch is through.
Receive(i, q) ==
    /\ Batch(i, q) = {}
    /\ \E batch \in SUBSET {m \in Message : m.queue = q /\ message[m].at = "visible"
                                              /\ message[m].receives < MaxReceive} :
        /\ batch # {}
        /\ hold' = [hold EXCEPT ![i] = @ \cup {Taken(m) : m \in batch}]
        /\ message' = [m \in Message |->
                IF m \in batch THEN [at |-> "hidden", receives |-> message[m].receives + 1]
                ELSE message[m]]
    /\ UNCHANGED <<stored, marks, faults>>

\* The messages of a batch are handled one after the other.
UnderWay(i, h) == \A g \in Batch(i, h.message.queue) : g.step # "received" => g = h
Drop(i, h) == hold' = [hold EXCEPT ![i] = @ \ {h}]
To(i, h, step) == hold' = [hold EXCEPT ![i] = (@ \ {h}) \cup {[h EXCEPT !.step = step]}]

\* order-service names the customer of the order a payment result is about.
GetCustomerId(i, h) ==
    /\ h.message.queue = "payment" /\ h.step = "received" /\ UnderWay(i, h)
    /\ To(i, h, "resolved")
    /\ UNCHANGED <<message, stored, marks, faults>>

\* NotificationsService.create.
Notification(m) ==
    [user |-> ToLowerCase(FromSql(Owner[m.order])), entry |-> EntryOf(m), read |-> FALSE]

\* An insert without a key: an event told again is told by a notification of its own.
StoredOnce(n) ==
    LET same == {k \in DOMAIN stored : stored[k].entry = n.entry}
    IN  IF same = {} THEN Append(stored, n) ELSE [k \in DOMAIN stored |-> IF k \in same THEN n ELSE stored[k]]
Stored(n) == Append(stored, n)

Create(i, h) ==
    /\ h.step = (IF h.message.queue = "order" THEN "received" ELSE "resolved") /\ UnderWay(i, h)
    /\ stored' = Stored(Notification(h.message))
    /\ To(i, h, "written")
    /\ UNCHANGED <<message, marks, faults>>

\* A message is deleted once its event is handled.  A receipt that is not the latest
\* one of the message may delete it or not.
HandledEarly(h) == h.step # "received"
Handled(h) == h.step = "written"

DeletedNever(m) == message
Deleted(m) == [message EXCEPT ![m].at = "deleted"]

DeleteMessage(i, h) ==
    /\ Handled(h)
    /\ \/ message' = Deleted(h.message)
       \/ h.nth # message[h.message].receives /\ UNCHANGED message
    /\ Drop(i, h)
    /\ UNCHANGED <<stored, marks, faults>>

\* The lookup times out, the insert fails, or the delete does: the message stays.
HandlerFails(i, h) ==
    /\ UnderWay(i, h)
    /\ Fault
    /\ Drop(i, h)
    /\ UNCHANGED <<message, stored, marks>>

Crash(i) ==
    /\ Fault
    /\ hold' = [hold EXCEPT ![i] = {}]
    /\ UNCHANGED <<message, stored, marks>>

\* The visibility timeout of a message ends after a failure ...
InHand(m) == \E i \in Instances : \E h \in hold[i] : h.message = m
Reappear(m) ==
    /\ message[m].at = "hidden" /\ ~InHand(m)
    /\ message' = [message EXCEPT ![m].at = "visible"]
    /\ UNCHANGED <<hold, stored, marks, faults>>

\* ... or while the message still waits for its turn in a slow batch.
Overdue(m) ==
    /\ message[m].at = "hidden" /\ InHand(m)
    /\ Fault
    /\ message' = [message EXCEPT ![m].at = "visible"]
    /\ UNCHANGED <<hold, stored, marks>>

DeadLetter(m) ==
    /\ message[m].at = "visible" /\ message[m].receives = MaxReceive
    /\ message' = [message EXCEPT ![m].at = "dlq"]
    /\ UNCHANGED <<hold, stored, marks, faults>>

-----------------------------------------------------------------------------
(* list and markRead, which name their notifications by the token's sub.   *)

Matches(c, n) == stored[n].user = Sub(c)

\* The update matches the id and the user; without a match nothing is changed.
MarkRead(c, n) ==
    /\ marks < MaxMarks /\ marks' = marks + 1
    /\ Matches(c, n)
    /\ stored' = [stored EXCEPT ![n].read = TRUE]
    /\ UNCHANGED <<message, hold, faults>>

-----------------------------------------------------------------------------
MessageStep(m) == Publish(m) \/ Reappear(m) \/ Overdue(m) \/ DeadLetter(m)
ConsumerStep(i) ==
    \/ \E q \in Queue : Receive(i, q)
    \/ \E h \in hold[i] : GetCustomerId(i, h) \/ Create(i, h) \/ DeleteMessage(i, h) \/ HandlerFails(i, h)
    \/ Crash(i)

Next ==
    \/ \E m \in Message : MessageStep(m)
    \/ \E i \in Instances : ConsumerStep(i)
    \/ \E c \in Customers, n \in DOMAIN stored : MarkRead(c, n)

\* The poll loops go on, hidden messages become visible again and full receive counts
\* are redriven; nobody has to place an order or read anything.
Handle(i) == \E h \in hold[i] : GetCustomerId(i, h) \/ Create(i, h) \/ DeleteMessage(i, h)
Fairness ==
    /\ WF_vars(\E i \in Instances, q \in Queue : Receive(i, q))
    /\ WF_vars(\E i \in Instances : Handle(i))
    /\ WF_vars(\E m \in Message : Reappear(m) \/ DeadLetter(m))

Spec == Init /\ [][Next]_vars
FairSpec == Spec /\ Fairness

-----------------------------------------------------------------------------
(* Properties.                                                             *)

\* Every variable has its shape.
TypeOK ==
    /\ message \in [Message -> [at : Place, receives : 0..MaxReceive]]
    /\ hold \in [Instances -> SUBSET [message : Message, nth : 1..MaxReceive,
                                      step : {"received", "resolved", "written"}]]
    /\ stored \in Seq([user : [customer : Customers, upper : BOOLEAN], entry : Entry, read : BOOLEAN])
    /\ marks \in 0..MaxMarks /\ faults \in 0..MaxFaults

Told(m) == {n \in DOMAIN stored : stored[n].entry = EntryOf(m)}

\* A message leaves its queue for good only when a notification of its event is
\* stored (or it is dead-lettered): no crash or failure between the two loses it, ...
DeletedIsTold == \A m \in Message : message[m].at = "deleted" => Told(m) # {}

\* ... because a handler is past its write, or its message still comes back.
WrittenIsTold ==
    \A i \in Instances : \A h \in hold[i] : h.step = "written" => Told(h.message) # {}
DeliveryInv == TypeOK /\ DeletedIsTold /\ WrittenIsTold

\* With no ledger an event may be told more than once, but each further time is a
\* failure: a copy, a crash, a failed delete or an overrun of the visibility timeout.
DuplicatesAreFailures ==
    \A m \in Message : Cardinality(Told(m)) <= faults + 1

\* What the list query of a customer finds are the notifications of that customer's
\* orders, all of them and no others, although the id was spelt otherwise in the event
\* and in the answer of order-service than in the token the query takes it from.
OwnersFindTheirs ==
    \A c \in Customers : \A n \in DOMAIN stored :
        Matches(c, n) <=> Owner[stored[n].entry.order] = c

\* The k-th smallest of a set of numbers has k of them that are not larger.
Rank(numbers, n) == Cardinality({k \in numbers : k <= n})
Nth(numbers, k) == CHOOSE n \in numbers : Rank(numbers, n) = k

\* Towards its customers the service is an Inbox: redelivery may add notifications,
\* and never takes one away or makes a read one unread.
Theirs(c) == {n \in DOMAIN stored : Matches(c, n)}
Listed(c) ==
    [k \in 1..Cardinality(Theirs(c)) |->
        LET found == stored[Nth(Theirs(c), k)] IN [entry |-> found.entry, read |-> found.read]]
Promise == INSTANCE Inbox WITH inbox <- [c \in Customers |-> Listed(c)]
ImplementsInbox == Promise!Spec

\* Every event sent is told to its customer in the end, or is in the dead-letter queue.
EveryEventTold ==
    \A m \in Message : Sent(m) ~> Told(m) # {} \/ message[m].at = "dlq"
=============================================================================
