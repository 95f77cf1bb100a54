-------------------------- MODULE OrderSagaProofs --------------------------
(***************************************************************************)
(* Theorems about OrderSaga for any set of orders, any totals and any      *)
(* number of failures, and their proofs.                                   *)
(***************************************************************************)
EXTENDS OrderSaga, FiniteSetTheorems, TLAPS

Places == {"queue", "batch", "handled", "dlq"}

\* A message keeps its shape wherever it is moved.
LEMMA AtType ==
    ASSUME NEW m \in Message, NEW place \in Places
    PROVE  At(place, m) \in Message
  BY DEF At, Message, Places

\* A message below the receive limit keeps its shape when it is received again.
LEMMA ReceivedType ==
    ASSUME NEW m \in Message, m.receives < MaxReceive
    PROVE  /\ ReceivedAgain(m) \in Message
           /\ ReceivedAgain(m).event = m.event
           /\ ReceivedAgain(m).at = "batch"
  <1>1. m.receives + 1 \in 0..MaxReceive
    BY BoundsAssumption DEF Message
  <1> QED BY <1>1 DEF ReceivedAgain, Message

\* Moving one message of a queue keeps every queue a set of messages.
LEMMA MovedType ==
    ASSUME messages \in [Services -> SUBSET Message],
           NEW s \in Services, NEW m \in messages[s], NEW place \in Places
    PROVE  Moved(s, m, place) \in [Services -> SUBSET Message]
  <1>1. m \in Message
    OBVIOUS
  <1>2. At(place, m) \in Message
    BY <1>1, AtType
  <1> QED BY <1>2 DEF Moved

\* Sending an event adds one well-formed message to the peer's queue.
LEMMA SentType ==
    ASSUME messages \in [Services -> SUBSET Message], faults \in 0..MaxFaults,
           NEW s \in Services, NEW i \in Nat \ {0}
    PROVE  Sent(s, i) \in [Services -> SUBSET Message]
  <1>1. [event |-> i, copy |-> faults, receives |-> 0, at |-> "queue"] \in Message
    BY BoundsAssumption DEF Message
  <1> QED BY <1>1 DEF Sent, Services, Peer

-----------------------------------------------------------------------------
\* TypeOK is inductive: the tables, queues and processes keep their shape.

LEMMA TypeInit == Init => TypeOK
  BY BoundsAssumption DEF Init, TypeOK, Status, Payment, NoPayment, NoTick, Tick, Services

LEMMA TypeStep ==
    ASSUME TypeOK, RowsExist, [Next]_vars
    PROVE  TypeOK'
  <1> USE DEF TypeOK
  <1>1. ASSUME NEW o \in Orders, CreateOrder(o) PROVE TypeOK'
    <2> PICK amount \in Amounts : outbox' = [outbox EXCEPT !["order"] =
                Append(@, [type |-> "ORDER_CREATED", order |-> o, amount |-> amount])]
            /\ total' = [total EXCEPT ![o] = amount]
      BY <1>1 DEF CreateOrder
    <2>1. amount \in Nat
      BY AmountsAssumption
    <2>2. [type |-> "ORDER_CREATED", order |-> o, amount |-> amount] \in Row
      BY <2>1 DEF Row, EventType
    <2>3. outbox' \in [Services -> Seq(Row)]
      BY <2>2 DEF Services
    <2> QED BY <1>1, <2>1, <2>3 DEF CreateOrder, Status, relayVars
  <1>2. ASSUME NEW o \in Orders, ConfirmAwaitingPayment(o) PROVE TypeOK'
    BY <1>2 DEF ConfirmAwaitingPayment, Confirmed, Status, eventVars, relayVars
  <1>3. ASSUME NEW o \in Orders, AnswerCall(o) PROVE TypeOK'
    BY <1>3 DEF AnswerCall, eventVars, relayVars
  <1>4. ASSUME NEW o \in Orders, AbortCall(o) PROVE TypeOK'
    BY <1>4, BoundsAssumption DEF AbortCall, Fault, eventVars, relayVars
  <1>5. ASSUME NEW o \in Orders, Cancel(o) PROVE TypeOK'
    BY <1>5 DEF Cancel, Status, checkoutVars, eventVars, relayVars
  <1>6. ASSUME NEW s \in Services, ClaimBatch(s) PROVE TypeOK'
    <2>1. Oldest(Unpublished(s), BatchSize) \in SUBSET (Nat \ {0})
      BY DEF Oldest, Unpublished
    <2>2. [open |-> TRUE, marked |-> {}, todo |-> Oldest(Unpublished(s), BatchSize)] \in Tick
      BY <2>1 DEF Tick
    <2> QED BY <1>6, <2>2 DEF ClaimBatch, checkoutVars, eventVars
  <1>7. ASSUME NEW s \in Services, PublishNext(s) PROVE TypeOK'
    <2> PICK i \in tick[s].todo :
            /\ messages' = Sent(s, i)
            /\ tick' = [tick EXCEPT ![s].todo = @ \ {i}, ![s].marked = @ \cup {i}]
            /\ UNCHANGED <<checkoutVars, status, total, payment, eventVars, published,
                           refused, faults>>
      BY <1>7 DEF PublishNext
    <2>1. tick[s] \in Tick
      OBVIOUS
    <2>2. i \in Nat \ {0}
      BY <2>1 DEF Tick
    <2>3. messages' \in [Services -> SUBSET Message]
      BY <2>2, SentType
    <2>4. tick' \in [Services -> Tick]
      BY <2>1, <2>2 DEF Tick
    <2> QED BY <2>3, <2>4 DEF checkoutVars, eventVars
  <1>8. ASSUME NEW s \in Services, Commit(s) PROVE TypeOK'
    <2>1. tick[s] \in Tick /\ NoTick \in Tick
      BY DEF Tick, NoTick
    <2>2. tick[s].marked \in SUBSET Nat
      BY <2>1 DEF Tick
    <2> QED BY <1>8, <2>1, <2>2 DEF Commit, Marked, checkoutVars, eventVars
  <1>9. ASSUME NEW s \in Services, Rollback(s) PROVE TypeOK'
    <2>1. tick[s] \in Tick /\ NoTick \in Tick
      BY DEF Tick, NoTick
    <2>2. messages' \in [Services -> SUBSET Message]
      <3>1. CASE UNCHANGED messages
        BY <3>1
      <3>2. ASSUME NEW i \in tick[s].todo, messages' = Sent(s, i)
            PROVE  messages' \in [Services -> SUBSET Message]
        BY <2>1, <3>2, SentType DEF Tick
      <3> QED BY <1>9, <3>1, <3>2 DEF Rollback
    <2>3. tick' \in [Services -> Tick]
      BY <1>9, <2>1 DEF Rollback
    <2>4. faults' \in 0..MaxFaults
      BY <1>9, BoundsAssumption DEF Rollback, Fault
    <2> QED BY <1>9, <2>2, <2>3, <2>4 DEF Rollback, checkoutVars, eventVars
  <1>10. ASSUME NEW s \in Services, Receive(s) PROVE TypeOK'
    <2> PICK batch \in SUBSET {m \in messages[s] : m.at = "queue" /\ m.receives < MaxReceive} :
            messages' = [messages EXCEPT ![s] = (@ \ batch) \cup {ReceivedAgain(m) : m \in batch}]
      BY <1>10 DEF Receive
    <2>1. \A m \in batch : ReceivedAgain(m) \in Message
      BY ReceivedType
    <2>2. messages[s] \in SUBSET Message
      OBVIOUS
    <2>3. (messages[s] \ batch) \cup {ReceivedAgain(m) : m \in batch} \in SUBSET Message
      BY <2>1, <2>2
    <2>4. messages' \in [Services -> SUBSET Message]
      BY <2>3
    <2> QED BY <1>10, <2>4 DEF Receive, checkoutVars, eventVars, relayVars
  <1>11. ASSUME NEW s \in Services, DeadLetter(s) PROVE TypeOK'
    <2>1. messages' \in [Services -> SUBSET Message]
      BY <1>11, MovedType DEF DeadLetter, Places
    <2> QED BY <1>11, <2>1 DEF DeadLetter, checkoutVars, eventVars, relayVars
  <1>12. ASSUME NEW s \in Services, HandlerFails(s) PROVE TypeOK'
    <2>1. messages' \in [Services -> SUBSET Message]
      BY <1>12, MovedType DEF HandlerFails, AfterFailure, Places
    <2> QED BY <1>12, <2>1, BoundsAssumption
            DEF HandlerFails, Fault, checkoutVars, eventVars, relayVars
  <1>13. ASSUME NEW s \in Services, DeleteMessage(s) PROVE TypeOK'
    BY <1>13 DEF DeleteMessage, Deleted, checkoutVars, eventVars, relayVars
  <1>14. ASSUME NEW s \in Services, DeleteFails(s) PROVE TypeOK'
    <2>1. messages' \in [Services -> SUBSET Message]
      BY <1>14, MovedType DEF DeleteFails, Places
    <2> QED BY <1>14, <2>1, BoundsAssumption
            DEF DeleteFails, Fault, checkoutVars, eventVars, relayVars
  <1>15. ASSUME NEW s \in Services, Crash(s) PROVE TypeOK'
    <2>1. ASSUME NEW m \in Held(s) PROVE At("queue", m) \in Message
      BY AtType DEF Held, Places
    <2>2. messages' \in [Services -> SUBSET Message]
      BY <1>15, <2>1 DEF Crash
    <2>3. NoTick \in Tick
      BY DEF Tick, NoTick
    <2> QED BY <1>15, <2>2, <2>3, BoundsAssumption DEF Crash, Fault, eventVars
  <1>16. ASSUME ProcessOrderCreated PROVE TypeOK'
    <2> PICK m \in messages["payment"] : Charges(m)
      BY <1>16 DEF ProcessOrderCreated
    <2> DEFINE row == outbox["order"][m.event]
    <2>1. messages' \in [Services -> SUBSET Message]
      BY MovedType DEF Charges, Services, Places
    <2>2. row \in Row
      BY DEF RowsExist, Services, Peer
    <2>3. CASE UNCHANGED <<payment, eventVars>>
      BY <1>16, <2>1, <2>3 DEF ProcessOrderCreated, eventVars, checkoutVars, relayVars
    <2>4. CASE ChargeOrder(m.event, row)
      <3> DEFINE outcome == Decide(row.amount)
                 result == [type |-> EventFor(outcome), order |-> row.order,
                            amount |-> row.amount]
      <3>1. outcome \in Outcome /\ row.order \in Orders /\ row.amount \in Nat
        BY <2>2 DEF Row, Decide, Outcome
      <3>2. [status |-> outcome, amount |-> row.amount] \in Payment
        BY <3>1 DEF Payment
      <3>3. result \in Row
        BY <3>1 DEF Row, EventFor, EventType
      <3>4. payment' \in [Orders -> Payment]
        BY <2>4, <3>2 DEF ChargeOrder
      <3>5. outbox' \in [Services -> Seq(Row)]
        BY <2>4, <3>3 DEF ChargeOrder, Services
      <3>6. m.event \in Nat
        BY DEF Message, Services
      <3>7. ledger' \in [Services -> SUBSET Nat]
        BY <2>4, <3>6 DEF ChargeOrder, Services
      <3> QED BY <1>16, <2>1, <3>4, <3>5, <3>7 DEF ProcessOrderCreated, checkoutVars, relayVars
    <2> QED BY <2>3, <2>4 DEF Charges
  <1>17. ASSUME ApplyPaymentResult PROVE TypeOK'
    <2> PICK m \in messages["order"] : Settles(m)
      BY <1>17 DEF ApplyPaymentResult
    <2> DEFINE row == outbox["payment"][m.event]
    <2>1. messages' \in [Services -> SUBSET Message]
      BY MovedType DEF Settles, Services, Places
    <2>2. row \in Row
      BY DEF RowsExist, Services, Peer
    <2>3. row.order \in Orders /\ m.event \in Nat
      BY <2>2 DEF Row, Message, Services
    <2>4. StatusFor(OutcomeOf(row.type)) \in Status
      BY DEF StatusFor, Status
    <2> DEFINE new == StatusFor(OutcomeOf(row.type))
    <2>5. status' \in [Orders -> Status]
      <3>1. UNCHANGED status \/ status' = [status EXCEPT ![row.order] = new]
        BY DEF Settles
      <3> HIDE DEF new
      <3> QED BY <2>3, <2>4, <3>1 DEF new
    <2>6. ledger' \in [Services -> SUBSET Nat]
      <3>1. UNCHANGED ledger \/ ledger' = [ledger EXCEPT !["order"] = @ \cup {m.event}]
        BY DEF Settles
      <3> QED BY <2>3, <3>1 DEF Services
    <2>7. refused' \in SUBSET Orders
      <3>1. UNCHANGED refused \/ refused' = refused \cup {row.order}
        BY DEF Settles
      <3> QED BY <2>3, <3>1
    <2> QED BY <1>17, <2>1, <2>5, <2>6, <2>7 DEF ApplyPaymentResult, checkoutVars, relayVars
  <1>18. CASE UNCHANGED vars
    BY <1>18 DEF vars
  <1> QED
    BY <1>1, <1>2, <1>3, <1>4, <1>5, <1>6, <1>7, <1>8, <1>9, <1>10, <1>11, <1>12,
       <1>13, <1>14, <1>15, <1>16, <1>17, <1>18
       DEF Next, CheckoutStep, RelayStep, QueueStep

-----------------------------------------------------------------------------
(* What a step can do to each part of the state.                           *)

\* The relay and the queues touch no order, payment, ledger, outbox or call.
LEMMA QuietStep ==
    ASSUME NEW s \in Services, RelayStep(s) \/ QueueStep(s)
    PROVE  UNCHANGED <<call, status, total, payment, ledger, outbox, refused>>
  BY DEF RelayStep, QueueStep, ClaimBatch, PublishNext, Commit, Rollback, Receive, DeadLetter,
         HandlerFails, DeleteMessage, DeleteFails, checkoutVars, eventVars

\* Only a checkout and a charge write to an outbox, one row at its end.
LEMMA OutboxStep ==
    ASSUME TypeOK, RowsExist, [Next]_vars
    PROVE  \/ UNCHANGED outbox
           \/ \E s \in Services : \E row \in Row : outbox' = [outbox EXCEPT ![s] = Append(@, row)]
  <1>1. ASSUME NEW o \in Orders, CreateOrder(o)
        PROVE  \E row \in Row : outbox' = [outbox EXCEPT !["order"] = Append(@, row)]
    <2>1. ASSUME NEW amount \in Amounts
          PROVE  [type |-> "ORDER_CREATED", order |-> o, amount |-> amount] \in Row
      BY AmountsAssumption DEF Row, EventType
    <2> QED BY <1>1, <2>1 DEF CreateOrder
  <1>2. ASSUME NEW o \in Orders, CheckoutStep(o), ~CreateOrder(o) PROVE UNCHANGED outbox
    BY <1>2 DEF CheckoutStep, ConfirmAwaitingPayment, AnswerCall, AbortCall, Cancel, eventVars
  <1>3. ASSUME NEW s \in Services, Crash(s) PROVE UNCHANGED outbox
    BY <1>3 DEF Crash, eventVars
  <1>4. ASSUME ProcessOrderCreated
        PROVE  \/ UNCHANGED outbox
               \/ \E row \in Row : outbox' = [outbox EXCEPT !["payment"] = Append(@, row)]
    <2> PICK m \in messages["payment"] : Charges(m)
      BY <1>4 DEF ProcessOrderCreated
    <2> DEFINE row == outbox["order"][m.event]
               result == [type |-> EventFor(Decide(row.amount)), order |-> row.order,
                          amount |-> row.amount]
    <2>1. row \in Row
      BY DEF TypeOK, RowsExist, Services, Peer
    <2>2. result \in Row
      BY <2>1 DEF Row, EventFor, EventType
    <2> QED BY <2>2 DEF Charges, ChargeOrder, eventVars
  <1>5. ASSUME ApplyPaymentResult PROVE UNCHANGED outbox
    BY <1>5 DEF ApplyPaymentResult
  <1>6. CASE UNCHANGED vars
    BY <1>6 DEF vars
  <1> QED BY <1>1, <1>2, <1>3, <1>4, <1>5, <1>6, QuietStep DEF Next, Services

\* Outbox rows are never changed or removed.
LEMMA RowsKept ==
    ASSUME TypeOK, RowsExist, [Next]_vars, NEW s \in Services, NEW i \in DOMAIN outbox[s]
    PROVE  i \in DOMAIN outbox'[s] /\ outbox'[s][i] = outbox[s][i]
  <1>1. ASSUME NEW t \in Services, NEW row \in Row,
               outbox' = [outbox EXCEPT ![t] = Append(@, row)]
        PROVE  i \in DOMAIN outbox'[s] /\ outbox'[s][i] = outbox[s][i]
    <2>1. outbox[s] \in Seq(Row) /\ i \in 1..Len(outbox[s])
      BY DEF TypeOK
    <2>2. CASE s = t
      <3>1. outbox'[s] = Append(outbox[s], row)
        BY <1>1, <2>2 DEF TypeOK
      <3> QED BY <2>1, <3>1
    <2>3. CASE s # t
      BY <1>1, <2>3 DEF TypeOK
    <2> QED BY <2>2, <2>3
  <1> QED BY <1>1, OutboxStep

\* Ledgers and refusals only grow, and a ledger grows by an event of its queue.
LEMMA LedgersGrow ==
    ASSUME TypeOK, [Next]_vars, NEW s \in Services
    PROVE  /\ ledger[s] \subseteq ledger'[s]
           /\ refused \subseteq refused'
           /\ \A i \in ledger'[s] \ ledger[s] : \E m \in messages[s] : m.event = i
  <1>1. ASSUME NEW o \in Orders, CheckoutStep(o) PROVE UNCHANGED <<ledger, refused>>
    BY <1>1 DEF CheckoutStep, CreateOrder, ConfirmAwaitingPayment, AnswerCall, AbortCall,
                Cancel, eventVars
  <1>2. ASSUME NEW t \in Services, Crash(t) PROVE UNCHANGED <<ledger, refused>>
    BY <1>2 DEF Crash, eventVars
  <1>3. ASSUME ProcessOrderCreated
        PROVE  /\ UNCHANGED refused
               /\ \/ UNCHANGED ledger
                  \/ \E m \in messages["payment"] :
                        ledger' = [ledger EXCEPT !["payment"] = @ \cup {m.event}]
    BY <1>3 DEF ProcessOrderCreated, Charges, ChargeOrder, eventVars
  <1>4. ASSUME ApplyPaymentResult
        PROVE  /\ refused \subseteq refused'
               /\ \/ UNCHANGED ledger
                  \/ \E m \in messages["order"] :
                        ledger' = [ledger EXCEPT !["order"] = @ \cup {m.event}]
    BY <1>4 DEF ApplyPaymentResult, Settles
  <1>5. \/ UNCHANGED ledger
        \/ \E t \in Services : \E m \in messages[t] :
                ledger' = [ledger EXCEPT ![t] = @ \cup {m.event}]
    BY <1>1, <1>2, <1>3, <1>4, QuietStep DEF Next, vars, Services
  <1>6. refused \subseteq refused'
    BY <1>1, <1>2, <1>3, <1>4, QuietStep DEF Next, vars
  <1>7. ledger \in [Services -> SUBSET Nat]
    BY DEF TypeOK
  <1> QED BY <1>5, <1>6, <1>7

\* What a tick marks it has published, and what it publishes it has claimed.
LEMMA TickStep ==
    ASSUME TypeOK, [Next]_vars, NEW s \in Services
    PROVE  /\ tick'[s].todo \subseteq tick[s].todo \cup DOMAIN outbox[s]
           /\ published'[s] \subseteq published[s] \cup tick[s].marked
           /\ \A i \in tick'[s].marked :
                \/ i \in tick[s].marked
                \/ i \in tick[s].todo /\ \E m \in messages'[Peer(s)] : m.event = i
  <1> USE DEF TypeOK
  <1>0. tick \in [Services -> Tick] /\ published \in [Services -> SUBSET Nat]
        /\ messages \in [Services -> SUBSET Message]
    OBVIOUS
  <1>1. ASSUME NEW o \in Orders, CheckoutStep(o) PROVE UNCHANGED relayVars
    BY <1>1 DEF CheckoutStep, CreateOrder, ConfirmAwaitingPayment, AnswerCall, AbortCall, Cancel
  <1>2. ASSUME NEW t \in Services, QueueStep(t) PROVE UNCHANGED relayVars
    BY <1>2 DEF QueueStep, Receive, DeadLetter, HandlerFails, DeleteMessage, DeleteFails
  <1>3. ASSUME ProcessOrderCreated \/ ApplyPaymentResult PROVE UNCHANGED relayVars
    BY <1>3 DEF ProcessOrderCreated, ApplyPaymentResult
  <1>4. ASSUME UNCHANGED relayVars
        PROVE  UNCHANGED <<tick, published>>
    BY <1>4 DEF relayVars
  <1>5. ASSUME NEW t \in Services, ClaimBatch(t)
        PROVE  /\ UNCHANGED published
               /\ tick'[s] = tick[s] \/ (tick'[s].marked = {}
                                         /\ tick'[s].todo \subseteq DOMAIN outbox[s])
    <2>1. Oldest(Unpublished(t), BatchSize) \subseteq DOMAIN outbox[t]
      BY DEF Oldest, Unpublished
    <2> QED BY <1>0, <1>5, <2>1 DEF ClaimBatch
  <1>6. ASSUME NEW t \in Services, PublishNext(t)
        PROVE  /\ UNCHANGED published
               /\ \/ tick'[s] = tick[s]
                  \/ \E i \in tick[s].todo :
                        /\ tick'[s].todo = tick[s].todo \ {i}
                        /\ tick'[s].marked = tick[s].marked \cup {i}
                        /\ \E m \in messages'[Peer(s)] : m.event = i
    <2> PICK i \in tick[t].todo :
            /\ messages' = Sent(t, i)
            /\ tick' = [tick EXCEPT ![t].todo = @ \ {i}, ![t].marked = @ \cup {i}]
            /\ UNCHANGED published
      BY <1>6 DEF PublishNext
    <2>1. CASE s # t
      BY <1>0, <2>1
    <2>2. CASE s = t
      <3>1. \E m \in messages'[Peer(s)] : m.event = i
        <4> DEFINE sent == [event |-> i, copy |-> faults, receives |-> 0, at |-> "queue"]
        <4>1. sent \in messages'[Peer(s)]
          BY <1>0, <2>2 DEF Sent, Peer, Services
        <4>2. sent.event = i
          OBVIOUS
        <4> QED BY <4>1, <4>2
      <3>2. tick'[s].todo = tick[s].todo \ {i} /\ tick'[s].marked = tick[s].marked \cup {i}
        <4>1. tick'[s] = [tick[s] EXCEPT !.todo = @ \ {i}, !.marked = @ \cup {i}]
          BY <1>0, <2>2
        <4>2. tick[s] \in Tick
          BY <1>0
        <4> QED BY <4>1, <4>2 DEF Tick
      <3> QED BY <2>2, <3>1, <3>2
    <2> QED BY <2>1, <2>2
  <1>7. ASSUME NEW t \in Services, Commit(t)
        PROVE  /\ published'[s] \subseteq published[s] \cup tick[s].marked
               /\ tick'[s] = tick[s] \/ tick'[s] = NoTick
    BY <1>0, <1>7 DEF Commit, Marked
  <1>8. ASSUME NEW t \in Services, Rollback(t) \/ Crash(t)
        PROVE  /\ UNCHANGED published
               /\ tick'[s] = tick[s] \/ tick'[s] = NoTick
    BY <1>0, <1>8 DEF Rollback, Crash
  <1>9. NoTick.todo = {} /\ NoTick.marked = {}
    BY DEF NoTick
  <1>10. ASSUME UNCHANGED vars PROVE UNCHANGED <<tick, published>>
    BY <1>10 DEF vars
  <1> QED
    <2> HIDE DEF TypeOK
    <2> QED BY <1>1, <1>2, <1>3, <1>4, <1>5, <1>6, <1>7, <1>8, <1>9, <1>10
               DEF Next, RelayStep

\* A message comes from the queue or from a claimed row, and leaves its queue only
\* once handled; a step handles a message only by recording or refusing its event.
LEMMA MessagesStep ==
    ASSUME TypeOK, [Next]_vars, NEW s \in Services
    PROVE  /\ \A m \in messages'[s] :
                \/ \E old \in messages[s] : old.event = m.event
                \/ m.event \in tick[Peer(s)].todo
           /\ \A m \in messages[s] :
                m.at = "handled" \/ \E new \in messages'[s] : new.event = m.event
           /\ \A m \in messages'[s] : m.at = "handled" =>
                \/ m \in messages[s]
                \/ m.event \in ledger'[s]
                \/ s = "order" /\ outbox["payment"][m.event].order \in refused'
  <1> DEFINE Known == \A m \in messages'[s] :
                        \/ \E old \in messages[s] : old.event = m.event
                        \/ m.event \in tick[Peer(s)].todo
             Kept == \A m \in messages[s] :
                        m.at = "handled" \/ \E new \in messages'[s] : new.event = m.event
             Done == \A m \in messages'[s] : m.at = "handled" =>
                        \/ m \in messages[s]
                        \/ m.event \in ledger'[s]
                        \/ s = "order" /\ outbox["payment"][m.event].order \in refused'
  <1>0. messages \in [Services -> SUBSET Message] /\ tick \in [Services -> Tick]
    BY DEF TypeOK
  <1>1. ASSUME UNCHANGED messages PROVE Known /\ Kept /\ Done
    BY <1>1
  <1>2. ASSUME NEW t \in Services, NEW m \in messages[t], NEW place \in Places,
               messages' = Moved(t, m, place)
        PROVE  /\ Known /\ Kept
               /\ place # "handled" => Done
               /\ m.event \in ledger'[t] => Done
               /\ t = "order" /\ outbox["payment"][m.event].order \in refused' => Done
    <2>1. m \in Message
      BY <1>0
    <2>2. At(place, m).event = m.event /\ At(place, m).at = place
      BY <2>1 DEF At, Message
    <2>3. messages'[s] = IF s = t THEN (messages[s] \ {m}) \cup {At(place, m)} ELSE messages[s]
      BY <1>0, <1>2 DEF Moved
    <2> QED BY <2>2, <2>3
  <1>3. ASSUME NEW t \in Services, NEW i \in tick[t].todo, messages' = Sent(t, i)
        PROVE  Known /\ Kept /\ Done
    <2> DEFINE sent == [event |-> i, copy |-> faults, receives |-> 0, at |-> "queue"]
    <2>1. messages'[s] = IF s = Peer(t) THEN messages[s] \cup {sent} ELSE messages[s]
      BY <1>0, <1>3 DEF Sent, Peer, Services
    <2>2. sent.event = i /\ sent.at = "queue"
      OBVIOUS
    <2>3. Peer(Peer(t)) = t
      BY DEF Peer, Services
    <2> HIDE DEF sent
    <2> QED BY <2>1, <2>2, <2>3
  <1>4. ASSUME NEW o \in Orders, CheckoutStep(o) PROVE UNCHANGED messages
    BY <1>4 DEF CheckoutStep, CreateOrder, ConfirmAwaitingPayment, AnswerCall, AbortCall, Cancel
  <1>5. ASSUME NEW t \in Services, RelayStep(t) PROVE Known /\ Kept /\ Done
    <2>1. CASE ClaimBatch(t) \/ Commit(t)
      BY <1>1, <2>1 DEF ClaimBatch, Commit
    <2>2. CASE PublishNext(t) \/ Rollback(t)
      BY <1>1, <1>3, <2>2 DEF PublishNext, Rollback
    <2> QED BY <1>5, <2>1, <2>2 DEF RelayStep
  <1>6. ASSUME NEW t \in Services, Receive(t) PROVE Known /\ Kept /\ Done
    <2> PICK batch \in SUBSET {m \in messages[t] : m.at = "queue" /\ m.receives < MaxReceive} :
            messages' = [messages EXCEPT ![t] = (@ \ batch) \cup {ReceivedAgain(m) : m \in batch}]
      BY <1>6 DEF Receive
    <2>1. \A m \in batch : ReceivedAgain(m).event = m.event /\ ReceivedAgain(m).at = "batch"
      BY <1>0, ReceivedType
    <2>2. messages'[s] = IF s = t THEN (messages[s] \ batch) \cup {ReceivedAgain(m) : m \in batch}
                         ELSE messages[s]
      BY <1>0
    <2> QED BY <2>1, <2>2
  <1>7. ASSUME NEW t \in Services, DeadLetter(t) \/ HandlerFails(t) \/ DeleteFails(t)
        PROVE  Known /\ Kept /\ Done
    BY <1>2, <1>7 DEF DeadLetter, HandlerFails, DeleteFails, AfterFailure, Places
  <1>8. ASSUME NEW t \in Services, DeleteMessage(t) PROVE Known /\ Kept /\ Done
    BY <1>0, <1>8 DEF DeleteMessage, Deleted
  <1>9. ASSUME NEW t \in Services, Crash(t) PROVE Known /\ Kept /\ Done
    <2>1. \A m \in Held(t) : At("queue", m).event = m.event /\ At("queue", m).at = "queue"
      BY <1>0 DEF Held, At, Message
    <2>2. messages'[s] = IF s = t THEN (messages[s] \ Held(s)) \cup {At("queue", m) : m \in Held(s)}
                         ELSE messages[s]
      BY <1>0, <1>9 DEF Crash
    <2>3. Held(s) \subseteq messages[s]
      BY DEF Held
    <2> QED BY <2>1, <2>2, <2>3
  <1>10. ASSUME ProcessOrderCreated PROVE Known /\ Kept /\ Done
    <2> PICK m \in messages["payment"] : Charges(m)
      BY <1>10 DEF ProcessOrderCreated
    <2>1. m.event \in ledger'["payment"]
      BY DEF Charges, AlreadyProcessed, ChargeOrder, eventVars, TypeOK, Services
    <2> QED BY <1>2, <2>1 DEF Charges, Places, Services
  <1>11. ASSUME ApplyPaymentResult PROVE Known /\ Kept /\ Done
    <2> PICK m \in messages["order"] : Settles(m)
      BY <1>11 DEF ApplyPaymentResult
    <2>1. m.event \in ledger'["order"] \/ outbox["payment"][m.event].order \in refused'
      BY DEF Settles, AlreadyProcessed, TypeOK, Services
    <2> QED BY <1>2, <2>1 DEF Settles, Places, Services
  <1> HIDE DEF Known, Kept, Done
  <1>12. Known /\ Kept /\ Done
    BY <1>1, <1>4, <1>5, <1>6, <1>7, <1>8, <1>9, <1>10, <1>11 DEF Next, QueueStep, vars
  <1> QED BY <1>12 DEF Known, Kept, Done

-----------------------------------------------------------------------------
(* The parts of the inductive invariant, one lemma each.                   *)

LEMMA RowsStep ==
    ASSUME TypeOK, RowsExist, [Next]_vars
    PROVE  RowsExist'
  <1> SUFFICES ASSUME NEW s \in Services
               PROVE  /\ tick'[s].todo \cup tick'[s].marked \cup published'[s] \subseteq DOMAIN outbox'[s]
                      /\ ledger'[Peer(s)] \subseteq DOMAIN outbox'[s]
                      /\ \A m \in messages'[s] : m.event \in DOMAIN outbox'[Peer(s)]
    BY DEF RowsExist, Peer
  <1>1. \A t \in Services : DOMAIN outbox[t] \subseteq DOMAIN outbox'[t]
    BY RowsKept
  <1>2. Peer(s) \in Services /\ Peer(Peer(s)) = s
    BY DEF Peer, Services
  <1>3. tick'[s].todo \cup tick'[s].marked \cup published'[s] \subseteq DOMAIN outbox[s]
    BY TickStep DEF RowsExist
  <1>4. ledger'[Peer(s)] \subseteq DOMAIN outbox[s]
    BY <1>2, LedgersGrow DEF RowsExist
  <1>5. \A m \in messages'[s] : m.event \in DOMAIN outbox[Peer(s)]
    BY <1>2, MessagesStep DEF RowsExist
  <1> QED BY <1>1, <1>2, <1>3, <1>4, <1>5

LEMMA NothingDroppedStep ==
    ASSUME TypeOK, RowsExist, NothingDropped, [Next]_vars
    PROVE  NothingDropped'
  <1> SUFFICES ASSUME NEW s \in Services
               PROVE  /\ \A i \in published'[s] \cup tick'[s].marked : WithPeer(s, i)'
                      /\ \A m \in messages'[s] : m.at = "handled" =>
                            \/ m.event \in ledger'[s]
                            \/ s = "order" /\ outbox'["payment"][m.event].order \in refused'
    BY DEF NothingDropped
  <1>0. Peer(s) \in Services /\ Peer(Peer(s)) = s /\ "payment" \in Services
    BY DEF Peer, Services
  <1>1. ASSUME NEW i \in DOMAIN outbox[s], WithPeer(s, i) PROVE WithPeer(s, i)'
    <2>1. outbox'[s][i] = outbox[s][i]
      BY RowsKept
    <2>2. CASE \E m \in messages[Peer(s)] : m.event = i
      <3> PICK m \in messages[Peer(s)] : m.event = i
        BY <2>2
      <3>1. CASE m.at = "handled"
        <4>1. \/ i \in ledger[Peer(s)]
              \/ Peer(s) = "order" /\ outbox["payment"][i].order \in refused
          BY <1>0, <3>1 DEF NothingDropped
        <4>2. Peer(s) = "order" => s = "payment"
          BY DEF Peer, Services
        <4> QED BY <1>0, <2>1, <4>1, <4>2, LedgersGrow DEF WithPeer
      <3>2. CASE m.at # "handled"
        BY <1>0, <3>2, MessagesStep DEF WithPeer
      <3> QED BY <3>1, <3>2
    <2> QED BY <1>0, <1>1, <2>1, <2>2, LedgersGrow DEF WithPeer
  <1>2. \A i \in published'[s] \cup tick'[s].marked : WithPeer(s, i)'
    <2> SUFFICES ASSUME NEW i \in published'[s] \cup tick'[s].marked PROVE WithPeer(s, i)'
      OBVIOUS
    <2>1. CASE i \in published[s] \cup tick[s].marked
      BY <1>1, <2>1 DEF NothingDropped, RowsExist
    <2>2. CASE i \notin published[s] \cup tick[s].marked
      <3>1. \E m \in messages'[Peer(s)] : m.event = i
        BY <2>2, TickStep
      <3> QED BY <3>1 DEF WithPeer
    <2> QED BY <2>1, <2>2
  <1>3. ASSUME NEW m \in messages'[s], m.at = "handled"
        PROVE  \/ m.event \in ledger'[s]
               \/ s = "order" /\ outbox'["payment"][m.event].order \in refused'
    <2>1. \/ m.event \in ledger'[s]
          \/ s = "order" /\ outbox["payment"][m.event].order \in refused'
      BY <1>3, MessagesStep, LedgersGrow DEF NothingDropped
    <2>2. m.event \in DOMAIN outbox[Peer(s)]
      BY <1>0, MessagesStep DEF RowsExist
    <2>3. s = "order" => Peer(s) = "payment"
      BY DEF Peer
    <2> QED BY <1>0, <2>1, <2>2, <2>3, RowsKept
  <1> QED BY <1>2, <1>3

\* Every outbox row is about an order.
LEMMA RowsAboutOrders ==
    ASSUME TypeOK
    PROVE  /\ \A i \in DOMAIN outbox["order"] : outbox["order"][i].order \in Orders
           /\ \A i \in DOMAIN outbox["payment"] : outbox["payment"][i].order \in Orders
  <1>1. outbox["order"] \in Seq(Row) /\ outbox["payment"] \in Seq(Row)
    BY DEF TypeOK, Services
  <1>2. \A i \in DOMAIN outbox["order"] : outbox["order"][i] \in Row
    BY <1>1
  <1>3. \A i \in DOMAIN outbox["payment"] : outbox["payment"][i] \in Row
    BY <1>1
  <1> QED BY <1>2, <1>3 DEF Row

DataInv ==
    /\ OneRowPerOrder /\ ResultsTellCharges /\ LedgerTellsCharges
    /\ OneResultPerOrder /\ SettledByPayment

\* The invariant of the order and payment data at usp_Order_Create: a fresh order.
LEMMA CreateStep ==
    ASSUME TypeOK, RowsExist, DataInv, NEW o \in Orders, CreateOrder(o)
    PROVE  DataInv'
  <1> USE DEF DataInv
  <1> PICK amount \in Amounts :
        /\ total' = [total EXCEPT ![o] = amount]
        /\ outbox' = [outbox EXCEPT !["order"] =
                Append(@, [type |-> "ORDER_CREATED", order |-> o, amount |-> amount])]
    BY DEF CreateOrder
  <1> DEFINE new == [type |-> "ORDER_CREATED", order |-> o, amount |-> amount]
             n == Len(outbox["order"])
  <1>1. /\ status' = [status EXCEPT ![o] = "PENDING"]
        /\ call' = [call EXCEPT ![o] = "created"]
        /\ UNCHANGED <<payment, ledger>>
    BY DEF CreateOrder
  <1>2. status[o] = "NONE" /\ ~Charged(o)
    BY DEF CreateOrder, OneRowPerOrder, LedgerTellsCharges
  <1>3. outbox["order"] \in Seq(Row) /\ n \in Nat /\ "order" \in Services /\ "payment" \in Services
    BY DEF TypeOK, Services
  <1>4. outbox'["order"] = Append(outbox["order"], new) /\ outbox'["payment"] = outbox["payment"]
    BY <1>3 DEF TypeOK
  <1>5. /\ DOMAIN outbox["order"] = 1..n /\ DOMAIN outbox'["order"] = 1..(n + 1)
        /\ outbox'["order"][n + 1] = new
        /\ \A i \in 1..n : outbox'["order"][i] = outbox["order"][i]
    BY <1>3, <1>4
  <1>6. \A i \in 1..n : outbox["order"][i] \in Row /\ outbox["order"][i].order # o
    BY <1>2, <1>3, <1>5 DEF OneRowPerOrder
  <1>7. /\ status \in [Orders -> Status] /\ call \in [Orders ->
             {"idle", "created", "confirmed", "answered", "failed"}]
        /\ total \in [Orders -> Nat] /\ payment \in [Orders -> Payment]
    BY DEF TypeOK
  <1>8. new.order = o /\ new.amount = amount
    OBVIOUS
  <1> HIDE DEF new, n
  <1>9. OneRowPerOrder'
    <2>1. \A p \in Orders : call'[p] = "idle" <=> status'[p] = "NONE"
      BY <1>1, <1>2, <1>7 DEF OneRowPerOrder
    <2>2. ASSUME NEW i \in 1..(n + 1)
          PROVE  LET row == outbox'["order"][i]
                 IN  /\ status'[row.order] # "NONE"
                     /\ row.amount = total'[row.order]
                     /\ \A j \in 1..(n + 1) : outbox'["order"][j].order = row.order => j = i
      <3>1. CASE i = n + 1
        <4>1. \A j \in 1..(n + 1) : outbox'["order"][j].order = o => j = i
          BY <1>3, <1>5, <1>6, <3>1
        <4>2. status'[o] # "NONE" /\ total'[o] = amount
          BY <1>1, <1>7
        <4> QED BY <1>5, <1>8, <3>1, <4>1, <4>2
      <3>2. CASE i \in 1..n
        <4> DEFINE row == outbox["order"][i]
        <4>1. /\ status[row.order] # "NONE" /\ row.amount = total[row.order]
              /\ \A j \in 1..n : outbox["order"][j].order = row.order => j = i
          BY <1>5, <3>2 DEF OneRowPerOrder
        <4>2. row.order \in Orders /\ row.order # o
          BY <1>6, <3>2 DEF Row
        <4>3. status'[row.order] # "NONE" /\ row.amount = total'[row.order]
          BY <1>1, <1>7, <4>1, <4>2
        <4>4. \A j \in 1..(n + 1) : outbox'["order"][j].order = row.order => j = i
          BY <1>3, <1>5, <1>8, <4>1, <4>2
        <4> QED BY <1>5, <3>2, <4>3, <4>4
      <3>3. i = n + 1 \/ i \in 1..n
        <4>1. n \in Nat
          BY <1>3
        <4> QED BY <4>1
      <3> QED BY <3>1, <3>2, <3>3
    <2> QED BY <1>5, <2>1, <2>2 DEF OneRowPerOrder
  <1>10. ResultsTellCharges' /\ OneResultPerOrder'
    <2>1. OneResultPerOrder'
      BY <1>4 DEF OneResultPerOrder
    <2>2. ASSUME NEW i \in DOMAIN outbox["payment"]
          PROVE  LET row == outbox["payment"][i]
                 IN  /\ status'[row.order] # "NONE"
                     /\ payment[row.order] = [status |-> OutcomeOf(row.type),
                                              amount |-> total'[row.order]]
      <3> DEFINE row == outbox["payment"][i]
      <3>1. row \in Row
        BY <1>3 DEF TypeOK
      <3>2. /\ status[row.order] # "NONE"
            /\ payment[row.order] = [status |-> OutcomeOf(row.type), amount |-> total[row.order]]
        BY DEF ResultsTellCharges
      <3>3. row.order \in Orders /\ row.order # o
        BY <1>2, <3>1, <3>2 DEF Row
      <3> QED BY <1>1, <1>7, <3>2, <3>3
    <2> QED BY <1>1, <1>4, <2>1, <2>2 DEF ResultsTellCharges
  <1>11. LedgerTellsCharges'
    <2>1. ASSUME NEW i \in 1..(n + 1)
          PROVE  i \in ledger["payment"] <=> Charged(outbox'["order"][i].order)
      <3>1. CASE i = n + 1
        <4>1. i \notin ledger["payment"]
          BY <1>3, <1>5, <3>1 DEF RowsExist, Peer
        <4> QED BY <1>2, <1>5, <1>8, <3>1, <4>1
      <3>2. CASE i \in 1..n
        BY <1>5, <3>2 DEF LedgerTellsCharges
      <3>3. i = n + 1 \/ i \in 1..n
        <4>1. n \in Nat
          BY <1>3
        <4> QED BY <4>1
      <3> QED BY <3>1, <3>2, <3>3
    <2>2. \A p \in Orders : Charged(p) => status'[p] # "NONE"
      BY <1>1, <1>2, <1>7 DEF LedgerTellsCharges
    <2>3. \A p \in Orders : Charged(p)' <=> Charged(p)
      BY <1>1 DEF Charged
    <2>4. \A i \in 1..(n + 1) : outbox'["order"][i].order \in Orders
      BY <1>3, <1>5, <1>6, <1>8 DEF Row
    <2> QED BY <1>1, <1>5, <2>1, <2>2, <2>3, <2>4 DEF LedgerTellsCharges
  <1>12. SettledByPayment'
    <2>1. \A p \in Orders : \A outcome \in Outcome :
            status'[p] = StatusFor(outcome) => p # o /\ status[p] = status'[p]
      BY <1>1, <1>7 DEF StatusFor
    <2> QED BY <1>1, <1>7, <2>1 DEF SettledByPayment
  <1> QED BY <1>9, <1>10, <1>11, <1>12

\* The same at sp_payment_process: the charge, the result row and the ledger row agree.
LEMMA ChargeStep ==
    ASSUME TypeOK, RowsExist, DataInv, NEW m \in messages["payment"],
           ~AlreadyProcessed("payment", m), ChargeOrder(m.event, outbox["order"][m.event]),
           UNCHANGED <<call, status, total>>
    PROVE  DataInv'
  <1> USE DEF DataInv
  <1> DEFINE row == outbox["order"][m.event]
             o == row.order
             outcome == Decide(row.amount)
             result == [type |-> EventFor(outcome), order |-> o, amount |-> row.amount]
             charge == [status |-> outcome, amount |-> row.amount]
             n == Len(outbox["payment"])
  <1>1. "order" \in Services /\ "payment" \in Services
        /\ Peer("order") = "payment" /\ Peer("payment") = "order"
    BY DEF Services, Peer
  <1>2. m.event \in DOMAIN outbox["order"] /\ row \in Row /\ m.event \notin ledger["payment"]
    BY <1>1 DEF RowsExist, TypeOK, AlreadyProcessed
  <1>3. /\ o \in Orders /\ row.amount = total[o] /\ status[o] # "NONE"
        /\ \A i \in DOMAIN outbox["order"] : outbox["order"][i].order = o => i = m.event
    BY <1>2 DEF OneRowPerOrder, Row
  <1>4. payment[o] = NoPayment
    BY <1>2 DEF LedgerTellsCharges, Charged
  <1>5. outcome \in Outcome /\ OutcomeOf(EventFor(outcome)) = outcome
    BY DEF Decide, Outcome, OutcomeOf, EventFor
  <1>6. payment \in [Orders -> Payment] /\ outbox["payment"] \in Seq(Row) /\ n \in Nat
        /\ ledger \in [Services -> SUBSET Nat]
    BY <1>1 DEF TypeOK
  <1>7. /\ payment' = [payment EXCEPT ![o] = charge]
        /\ outbox'["order"] = outbox["order"] /\ outbox'["payment"] = Append(outbox["payment"], result)
        /\ ledger'["payment"] = ledger["payment"] \cup {m.event}
    BY <1>1, <1>4, <1>6 DEF ChargeOrder, TypeOK
  <1>8. /\ DOMAIN outbox["payment"] = 1..n /\ DOMAIN outbox'["payment"] = 1..(n + 1)
        /\ outbox'["payment"][n + 1] = result
        /\ \A i \in 1..n : outbox'["payment"][i] = outbox["payment"][i]
    BY <1>6, <1>7
  <1>9. charge.status = outcome /\ charge # NoPayment
    BY <1>5 DEF NoPayment, Outcome
  <1>10. result.order = o /\ OutcomeOf(result.type) = outcome
    BY <1>5
  <1>11. \A i \in 1..n : outbox["payment"][i].order \in Orders /\ outbox["payment"][i].order # o
    <2> SUFFICES ASSUME NEW i \in 1..n
                 PROVE  outbox["payment"][i].order \in Orders /\ outbox["payment"][i].order # o
      OBVIOUS
    <2>1. outbox["payment"][i] \in Row
      BY <1>6
    <2>2. payment[outbox["payment"][i].order].status \in Outcome
      <3> DEFINE r == outbox["payment"][i]
      <3>1. payment[r.order] = [status |-> OutcomeOf(r.type), amount |-> total[r.order]]
        BY <1>8 DEF ResultsTellCharges
      <3>2. OutcomeOf(r.type) \in Outcome
        BY DEF OutcomeOf, Outcome
      <3> QED BY <3>1, <3>2
    <2>3. NoPayment.status \notin Outcome
      BY DEF NoPayment, Outcome
    <2> QED BY <1>4, <2>1, <2>2, <2>3 DEF Row
  <1>12. charge = [status |-> outcome, amount |-> total[o]]
    BY <1>3
  <1> HIDE DEF charge, result, outcome, n
  <1>13. OneRowPerOrder'
    BY <1>7 DEF OneRowPerOrder
  <1>14. ASSUME NEW i \in 1..(n + 1) PROVE i = n + 1 \/ i \in 1..n
    BY <1>6
  <1>15. ResultsTellCharges'
    <2> SUFFICES ASSUME NEW i \in 1..(n + 1)
                 PROVE  LET r == outbox'["payment"][i]
                        IN  /\ status[r.order] # "NONE"
                            /\ payment'[r.order] = [status |-> OutcomeOf(r.type),
                                                    amount |-> total[r.order]]
      BY <1>8 DEF ResultsTellCharges
    <2>1. CASE i = n + 1
      BY <1>3, <1>6, <1>7, <1>8, <1>10, <1>12, <2>1
    <2>2. CASE i \in 1..n
      <3>1. payment'[outbox["payment"][i].order] = payment[outbox["payment"][i].order]
        BY <1>6, <1>7, <1>11, <2>2
      <3> QED BY <1>8, <2>2, <3>1 DEF ResultsTellCharges
    <2> QED BY <1>14, <2>1, <2>2
  <1>16. OneResultPerOrder'
    <2> SUFFICES ASSUME NEW i \in 1..(n + 1), NEW j \in 1..(n + 1),
                        outbox'["payment"][i].order = outbox'["payment"][j].order
                 PROVE  i = j
      BY <1>8 DEF OneResultPerOrder
    <2>1. CASE i \in 1..n /\ j \in 1..n
      BY <1>8, <2>1 DEF OneResultPerOrder
    <2> QED BY <1>8, <1>10, <1>11, <1>14, <2>1
  <1>17. LedgerTellsCharges'
    <2>1. ASSUME NEW p \in Orders PROVE Charged(p)' <=> Charged(p) \/ p = o
      BY <1>6, <1>7, <1>9 DEF Charged
    <2>2. ASSUME NEW i \in DOMAIN outbox["order"]
          PROVE  i \in ledger'["payment"] <=> Charged(outbox["order"][i].order)'
      <3>1. outbox["order"][i].order \in Orders
        BY RowsAboutOrders
      <3> QED BY <1>3, <1>7, <2>1, <3>1 DEF LedgerTellsCharges
    <2> QED BY <1>3, <1>7, <2>1, <2>2 DEF LedgerTellsCharges
  <1>18. SettledByPayment'
    <2> SUFFICES ASSUME NEW p \in Orders, NEW c \in Outcome, status[p] = StatusFor(c)
                 PROVE  payment'[p] = [status |-> c, amount |-> total[p]]
      BY DEF SettledByPayment
    <2>1. payment[p] = [status |-> c, amount |-> total[p]]
      BY DEF SettledByPayment
    <2>2. p # o
      BY <1>4, <2>1 DEF NoPayment, Outcome
    <2> QED BY <1>6, <1>7, <2>1, <2>2
  <1> QED BY <1>13, <1>15, <1>16, <1>17, <1>18

\* The same at usp_Order_ApplyPaymentResult: the status the result decides is the charge's.
LEMMA SettleStep ==
    ASSUME TypeOK, RowsExist, DataInv, NEW m \in messages["order"], Settles(m),
           UNCHANGED <<call, total, payment, outbox>>
    PROVE  DataInv'
  <1> USE DEF DataInv
  <1> DEFINE row == outbox["payment"][m.event]
             o == row.order
             new == StatusFor(OutcomeOf(row.type))
  <1>1. "order" \in Services /\ "payment" \in Services /\ Peer("order") = "payment"
    BY DEF Services, Peer
  <1>2. m.event \in DOMAIN outbox["payment"] /\ o \in Orders
    BY <1>1, RowsAboutOrders DEF RowsExist
  <1>3. payment[o] = [status |-> OutcomeOf(row.type), amount |-> total[o]]
    BY <1>2 DEF ResultsTellCharges
  <1>4. ledger'["payment"] = ledger["payment"]
    BY <1>1 DEF Settles, TypeOK
  <1>5. CASE UNCHANGED status
    BY <1>4, <1>5 DEF OneRowPerOrder, ResultsTellCharges, LedgerTellsCharges, Charged,
                      OneResultPerOrder, SettledByPayment
  <1>6. CASE status[o] = "AWAITING_PAYMENT" /\ status' = [status EXCEPT ![o] = new]
    <2>1. status \in [Orders -> Status]
      BY DEF TypeOK
    <2>2. new # "NONE" /\ \A c \in Outcome : new = StatusFor(c) => c = OutcomeOf(row.type)
      BY DEF StatusFor, OutcomeOf, Outcome
    <2> HIDE DEF new
    <2>3. \A p \in Orders : status'[p] = "NONE" <=> status[p] = "NONE"
      BY <1>2, <1>6, <2>1, <2>2
    <2>6. OneRowPerOrder'
      BY <2>3, RowsAboutOrders DEF OneRowPerOrder
    <2>7. ResultsTellCharges' /\ OneResultPerOrder'
      BY <2>3, RowsAboutOrders DEF ResultsTellCharges, OneResultPerOrder
    <2>8. LedgerTellsCharges'
      BY <1>4, <2>3 DEF LedgerTellsCharges, Charged
    <2>9. SettledByPayment'
      <3> SUFFICES ASSUME NEW p \in Orders, NEW c \in Outcome, status'[p] = StatusFor(c)
                   PROVE  payment[p] = [status |-> c, amount |-> total[p]]
        BY DEF SettledByPayment
      <3>1. CASE p = o
        BY <1>2, <1>3, <1>6, <2>1, <2>2, <3>1
      <3>2. CASE p # o
        BY <1>6, <2>1, <3>2 DEF SettledByPayment
      <3> QED BY <3>1, <3>2
    <2> QED BY <2>6, <2>7, <2>8, <2>9
  <1> QED BY <1>5, <1>6 DEF Settles

\* A step that moves an order between the statuses before its settlement, or none.
LEMMA StatusStep ==
    ASSUME TypeOK, DataInv, NEW o \in Orders,
           UNCHANGED <<total, payment, ledger, outbox>>,
           \/ UNCHANGED status
           \/ /\ status[o] = "PENDING"
              /\ \E new \in {"AWAITING_PAYMENT", "CANCELLED"} : status' = [status EXCEPT ![o] = new],
           \A p \in Orders : call'[p] = "idle" <=> call[p] = "idle"
    PROVE  DataInv'
  <1> USE DEF DataInv
  <1>1. status \in [Orders -> Status]
    BY DEF TypeOK
  <1>2. /\ \A p \in Orders : status'[p] = "NONE" <=> status[p] = "NONE"
        /\ \A p \in Orders : \A c \in Outcome :
                status'[p] = StatusFor(c) => status[p] = StatusFor(c)
    BY <1>1 DEF StatusFor, Outcome
  <1>3. OneRowPerOrder'
    BY <1>2, RowsAboutOrders DEF OneRowPerOrder
  <1>4. ResultsTellCharges' /\ OneResultPerOrder'
    BY <1>2, RowsAboutOrders DEF ResultsTellCharges, OneResultPerOrder
  <1>5. LedgerTellsCharges'
    BY <1>2 DEF LedgerTellsCharges, Charged
  <1>6. SettledByPayment'
    BY <1>2 DEF SettledByPayment
  <1> QED BY <1>3, <1>4, <1>5, <1>6

LEMMA DataStep ==
    ASSUME TypeOK, RowsExist, DataInv, [Next]_vars
    PROVE  DataInv'
  <1>0. call \in [Orders -> {"idle", "created", "confirmed", "answered", "failed"}]
    BY DEF TypeOK
  <1>1. ASSUME NEW o \in Orders, CreateOrder(o) PROVE DataInv'
    BY <1>1, CreateStep
  <1>2. ASSUME NEW o \in Orders, ConfirmAwaitingPayment(o) PROVE DataInv'
    BY <1>0, <1>2, StatusStep DEF ConfirmAwaitingPayment, Confirmed, eventVars
  <1>3. ASSUME NEW o \in Orders, AnswerCall(o) PROVE DataInv'
    BY <1>0, <1>3, StatusStep DEF AnswerCall, eventVars
  <1>4. ASSUME NEW o \in Orders, AbortCall(o) PROVE DataInv'
    BY <1>0, <1>4, StatusStep DEF AbortCall, eventVars
  <1>5. ASSUME NEW o \in Orders, Cancel(o) PROVE DataInv'
    BY <1>5, StatusStep DEF Cancel, checkoutVars, eventVars
  <1>6. ASSUME UNCHANGED <<call, status, total, payment, ledger, outbox>> PROVE DataInv'
    BY <1>6 DEF DataInv, OneRowPerOrder, ResultsTellCharges, LedgerTellsCharges, Charged,
                OneResultPerOrder, SettledByPayment
  <1>7. ASSUME NEW s \in Services, RelayStep(s) \/ QueueStep(s) PROVE DataInv'
    BY <1>6, <1>7, QuietStep
  <1>8. ASSUME NEW s \in Services, Crash(s) PROVE DataInv'
    <2>1. UNCHANGED <<status, total, payment, ledger, outbox>>
      BY <1>8 DEF Crash, eventVars
    <2>2. \A p \in Orders : call'[p] = "idle" <=> call[p] = "idle"
      BY <1>0, <1>8 DEF Crash
    <2>3. CASE Orders = {}
      BY <2>1, <2>2, <2>3, RowsAboutOrders
         DEF DataInv, OneRowPerOrder, ResultsTellCharges, LedgerTellsCharges, Charged,
             OneResultPerOrder, SettledByPayment
    <2> QED BY <2>1, <2>2, <2>3, StatusStep
  <1>9. ASSUME ProcessOrderCreated PROVE DataInv'
    <2> PICK m \in messages["payment"] : Charges(m)
      BY <1>9 DEF ProcessOrderCreated
    <2>1. UNCHANGED <<call, status, total>>
      BY <1>9 DEF ProcessOrderCreated, checkoutVars
    <2>2. CASE UNCHANGED <<payment, eventVars>>
      BY <1>6, <2>1, <2>2 DEF eventVars
    <2>3. CASE ~AlreadyProcessed("payment", m) /\ ChargeOrder(m.event, outbox["order"][m.event])
      BY <2>1, <2>3, ChargeStep
    <2> QED BY <2>2, <2>3 DEF Charges
  <1>10. ASSUME ApplyPaymentResult PROVE DataInv'
    BY <1>10, SettleStep DEF ApplyPaymentResult, checkoutVars
  <1>11. CASE UNCHANGED vars
    BY <1>6, <1>11 DEF vars
  <1> QED BY <1>1, <1>2, <1>3, <1>4, <1>5, <1>7, <1>8, <1>9, <1>10, <1>11
          DEF Next, CheckoutStep

-----------------------------------------------------------------------------
(* The theorems.                                                           *)

LEMMA InvInit == Init => SagaInv
  <1> SUFFICES ASSUME Init PROVE SagaInv
    OBVIOUS
  <1>1. TypeOK
    BY TypeInit
  <1>2. RowsExist /\ NothingDropped
    BY DEF Init, RowsExist, NothingDropped, NoTick, Services, Peer
  <1>3. DataInv
    BY DEF Init, DataInv, OneRowPerOrder, ResultsTellCharges, LedgerTellsCharges, Charged,
           OneResultPerOrder, SettledByPayment, StatusFor, Services
  <1> QED BY <1>1, <1>2, <1>3 DEF SagaInv, DataInv

LEMMA InvStep == SagaInv /\ [Next]_vars => SagaInv'
  <1> SUFFICES ASSUME SagaInv, [Next]_vars PROVE SagaInv'
    OBVIOUS
  <1>1. TypeOK /\ RowsExist /\ DataInv /\ NothingDropped
    BY DEF SagaInv, DataInv
  <1>2. TypeOK' /\ RowsExist' /\ DataInv' /\ NothingDropped'
    BY <1>1, TypeStep, RowsStep, DataStep, NothingDroppedStep
  <1> QED BY <1>2 DEF SagaInv, DataInv

\* The inductive invariant holds in every behaviour of the saga.
THEOREM SagaInvariant == Spec => []SagaInv
  BY InvInit, InvStep, PTL DEF Spec

\* Every variable keeps the shape its table, queue or process gives it.
THEOREM TypeCorrect == Spec => []TypeOK
  <1>1. SagaInv => TypeOK
    BY DEF SagaInv
  <1> QED BY <1>1, SagaInvariant, PTL

\* A PAID order was charged its own total and a PAYMENT_FAILED one was declined for
\* it, whatever is crashed, lost, repeated or reordered between the two services.
THEOREM SettlementCorrect == Spec => []SettledByPayment
  <1>1. SagaInv => SettledByPayment
    BY DEF SagaInv
  <1> QED BY <1>1, SagaInvariant, PTL

\* payment-service writes at most one result event per order.
THEOREM ResultsUnique == Spec => []OneResultPerOrder
  <1>1. SagaInv => OneResultPerOrder
    BY DEF SagaInv
  <1> QED BY <1>1, SagaInvariant, PTL

\* No event a publisher has committed as published is lost before its peer has
\* recorded it, refused it, or has it in its queue or dead-letter queue.
THEOREM EventsKept == Spec => []NoEventLost
  <1>1. SagaInv => NoEventLost
    BY DEF SagaInv, NothingDropped, NoEventLost
  <1> QED BY <1>1, SagaInvariant, PTL

-----------------------------------------------------------------------------
(* What a checkout call answers.                                           *)

\* A call that has created its order knows it by a status; one that has confirmed it,
\* or answered, by a later one than PENDING.
CallKnows(o) ==
    /\ call[o] # "idle" => status[o] # "NONE"
    /\ call[o] = "confirmed" => status[o] # "PENDING"
    /\ call[o] = "answered" => reply[o] \notin {"NONE", "PENDING"}
CallsKnow == \A o \in Orders : CallKnows(o)

\* No status goes back to PENDING, or to none, once the order is created.
LEMMA StatusMovesOn ==
    ASSUME SagaInv, [Next]_vars, NEW o \in Orders, ~CreateOrder(o)
    PROVE  /\ status[o] # "NONE" => status'[o] # "NONE"
           /\ status[o] \notin {"NONE", "PENDING"} => status'[o] \notin {"NONE", "PENDING"}
  <1>0. status \in [Orders -> Status]
    BY DEF SagaInv, TypeOK
  <1>1. CASE UNCHANGED status
    BY <1>1
  <1>2. ASSUME NEW p \in Orders, CreateOrder(p) PROVE status'[o] = status[o]
    <2>1. p # o
      BY <1>2
    <2> QED BY <1>0, <1>2, <2>1 DEF CreateOrder
  <1>3. ASSUME NEW p \in Orders, ConfirmAwaitingPayment(p) \/ Cancel(p)
        PROVE  status' = status \/ (\E new \in {"AWAITING_PAYMENT", "CANCELLED"} :
                                        status' = [status EXCEPT ![p] = new])
    BY <1>3 DEF ConfirmAwaitingPayment, Confirmed, Cancel
  <1>4. ASSUME ApplyPaymentResult
        PROVE  status' = status \/ (\E p, new : /\ new \in {"PAID", "PAYMENT_FAILED"}
                                                 /\ status' = [status EXCEPT ![p] = new])
    BY <1>4 DEF ApplyPaymentResult, Settles, StatusFor
  <1>5. ASSUME NEW p \in Orders, AnswerCall(p) \/ AbortCall(p) PROVE UNCHANGED status
    BY <1>5 DEF AnswerCall, AbortCall
  <1>6. ASSUME NEW s \in Services, RelayStep(s) \/ QueueStep(s) \/ Crash(s) PROVE UNCHANGED status
    BY <1>6, QuietStep DEF Crash
  <1>7. ProcessOrderCreated \/ UNCHANGED vars => UNCHANGED status
    BY DEF ProcessOrderCreated, vars
  <1> QED BY <1>0, <1>1, <1>2, <1>3, <1>4, <1>5, <1>6, <1>7 DEF Next, CheckoutStep

\* The relay, the queues and the consumers answer no call.
LEMMA CallsQuiet ==
    ASSUME NEW s \in Services,
           RelayStep(s) \/ QueueStep(s) \/ ProcessOrderCreated \/ ApplyPaymentResult \/ UNCHANGED vars
    PROVE  UNCHANGED <<call, reply>>
  BY DEF RelayStep, QueueStep, ClaimBatch, PublishNext, Commit, Rollback, Receive, DeadLetter,
         HandlerFails, DeleteMessage, DeleteFails, ProcessOrderCreated, ApplyPaymentResult,
         checkoutVars, vars

LEMMA CallsKnowStep ==
    ASSUME SagaInv, CallsKnow, [Next]_vars
    PROVE  CallsKnow'
  <1> SUFFICES ASSUME NEW o \in Orders PROVE CallKnows(o)'
    BY DEF CallsKnow
  <1>0. /\ call \in [Orders -> {"idle", "created", "confirmed", "answered", "failed"}]
        /\ reply \in [Orders -> Status] /\ status \in [Orders -> Status]
        /\ CallKnows(o)
    BY DEF SagaInv, TypeOK, CallsKnow
  <1>1. CASE CreateOrder(o)
    <2>1. call'[o] = "created" /\ status'[o] = "PENDING"
      BY <1>0, <1>1 DEF CreateOrder
    <2> QED BY <2>1 DEF CallKnows
  <1> SUFFICES ASSUME ~CreateOrder(o) PROVE CallKnows(o)'
    BY <1>1
  <1>2. /\ status[o] # "NONE" => status'[o] # "NONE"
        /\ status[o] \notin {"NONE", "PENDING"} => status'[o] \notin {"NONE", "PENDING"}
    BY StatusMovesOn
  <1>3. CASE UNCHANGED <<call[o], reply[o]>>
    BY <1>0, <1>2, <1>3 DEF CallKnows
  <1>4. CASE ConfirmAwaitingPayment(o)
    <2>1. call[o] = "created" /\ call'[o] = "confirmed" /\ status'[o] # "PENDING"
      BY <1>0, <1>4 DEF ConfirmAwaitingPayment, Confirmed
    <2> QED BY <1>0, <1>2, <2>1 DEF CallKnows
  <1>5. CASE AnswerCall(o)
    <2>1. call[o] = "confirmed" /\ call'[o] = "answered" /\ reply'[o] = status[o] /\ status'[o] = status[o]
      BY <1>0, <1>5 DEF AnswerCall
    <2> QED BY <1>0, <2>1 DEF CallKnows
  <1>6. CASE AbortCall(o)
    <2>1. call[o] # "idle" /\ call'[o] = "failed" /\ status'[o] = status[o]
      BY <1>0, <1>6 DEF AbortCall
    <2> QED BY <1>0, <2>1 DEF CallKnows
  <1>7. ASSUME NEW p \in Orders, p # o, CheckoutStep(p) PROVE UNCHANGED <<call[o], reply[o]>>
    BY <1>0, <1>7 DEF CheckoutStep, CreateOrder, ConfirmAwaitingPayment, AnswerCall, AbortCall, Cancel, checkoutVars
  <1>8. CASE Cancel(o)
    BY <1>3, <1>8 DEF Cancel, checkoutVars
  <1>9. ASSUME NEW s \in Services, Crash(s) PROVE CallKnows(o)'
    <2>1. call'[o] = call[o] \/ (call[o] # "idle" /\ call'[o] = "failed")
      BY <1>0, <1>9 DEF Crash
    <2>2. reply'[o] = reply[o] /\ status'[o] = status[o]
      BY <1>9 DEF Crash
    <2> QED BY <1>0, <2>1, <2>2 DEF CallKnows
  <1>10. ASSUME NEW s \in Services, RelayStep(s) \/ QueueStep(s) PROVE CallKnows(o)'
    BY <1>3, <1>10, CallsQuiet
  <1>11. CASE ProcessOrderCreated \/ ApplyPaymentResult \/ UNCHANGED vars
    BY <1>3, <1>11, CallsQuiet DEF Services
  <1> QED BY <1>3, <1>4, <1>5, <1>6, <1>7, <1>8, <1>9, <1>10, <1>11 DEF Next, CheckoutStep

\* A checkout that succeeds never answers with PENDING, whatever is cancelled, charged,
\* settled or crashed while it runs.
THEOREM AnswersNotPending == Spec => []AnswerNotPending
  <1>1. Init => CallsKnow
    BY DEF Init, CallsKnow, CallKnows
  <1>2. SagaInv /\ CallsKnow /\ [Next]_vars => CallsKnow'
    BY CallsKnowStep
  <1>3. CallsKnow => AnswerNotPending
    BY DEF CallsKnow, CallKnows, AnswerNotPending
  <1> QED BY <1>1, <1>2, <1>3, SagaInvariant, PTL DEF Spec

-----------------------------------------------------------------------------
(* What uses up the receives of a message.                                 *)

\* A message of the queue, with f failures so far, was received for failures only.
Excused(m, f) ==
    m.receives <= f - m.copy + (IF m.at \in {"batch", "handled"} THEN 1 ELSE 0)

\* A failure excuses one receive more, and a message in hand needs one excuse less.
LEMMA MoreFailures ==
    ASSUME NEW m \in Message, NEW f \in Nat, Excused(m, f)
    PROVE  /\ Excused(m, f + 1)
           /\ m.at \in {"batch", "handled"} => Excused(At("queue", m), f + 1)
           /\ m.at = "queue" => Excused(ReceivedAgain(m), f) /\ Excused(At("dlq", m), f)
           /\ m.at = "batch" => Excused(At("handled", m), f)
  BY BoundsAssumption DEF Excused, Message, At, ReceivedAgain

LEMMA ReceivesStep ==
    ASSUME SagaInv, ReceivesAreFailures, [Next]_vars
    PROVE  ReceivesAreFailures'
  <1> DEFINE AllExcused(s, f) == \A m \in messages[s] : Excused(m, f)
  <1>0. /\ messages \in [Services -> SUBSET Message] /\ faults \in Nat
        /\ \A s \in Services : AllExcused(s, faults)
    BY BoundsAssumption DEF SagaInv, TypeOK, ReceivesAreFailures, Excused
  <1> SUFFICES ASSUME NEW t \in Services, NEW m \in messages'[t] PROVE Excused(m, faults')
    BY DEF ReceivesAreFailures, Excused
  <1>1. messages[t] \subseteq Message /\ \A n \in messages[t] : Excused(n, faults)
    BY <1>0
  <1>2. CASE UNCHANGED faults /\ m \in messages[t]
    BY <1>1, <1>2
  <1>3. CASE faults' = faults + 1 /\ m \in messages[t]
    BY <1>0, <1>1, <1>3, MoreFailures
  <1>4. ASSUME NEW n \in messages[t], n.at \in {"batch", "handled"}, m = At("queue", n), faults' = faults + 1
        PROVE  Excused(m, faults')
    BY <1>0, <1>1, <1>4, MoreFailures
  <1>5. ASSUME NEW n \in messages[t], UNCHANGED faults,
               \/ n.at = "queue" /\ m \in {ReceivedAgain(n), At("dlq", n)}
               \/ n.at = "batch" /\ m = At("handled", n)
        PROVE  Excused(m, faults')
    BY <1>0, <1>1, <1>5, MoreFailures
  <1>6. ASSUME m.receives = 0, m.copy = faults, m.at = "queue", faults' \in {faults, faults + 1}
        PROVE  Excused(m, faults')
    <2>1. ASSUME NEW f \in Nat, NEW g \in {f, f + 1} PROVE 0 <= g - f + 0
      OBVIOUS
    <2>2. m.receives <= faults' - m.copy + 0
      BY <1>0, <1>6, <2>1
    <2>3. m.at \notin {"batch", "handled"}
      BY <1>6
    <2> QED BY <2>2, <2>3 DEF Excused
  <1>7. ASSUME NEW s \in Services, NEW i, messages' = Sent(s, i), faults' \in {faults, faults + 1}
        PROVE  Excused(m, faults')
    <2>1. m \in messages[t] \/ m = [event |-> i, copy |-> faults, receives |-> 0, at |-> "queue"]
      BY <1>0, <1>7 DEF Sent
    <2> QED BY <1>2, <1>3, <1>6, <1>7, <2>1
  <1>8. ASSUME NEW s \in Services, NEW n \in messages[s], NEW place, messages' = Moved(s, n, place)
        PROVE  m \in messages[t] \/ (s = t /\ m = At(place, n))
    BY <1>0, <1>8 DEF Moved
  <1>9. ASSUME UNCHANGED <<messages, faults>> PROVE Excused(m, faults')
    BY <1>2, <1>9
  <1>10. ASSUME NEW s \in Services, RelayStep(s) PROVE Excused(m, faults')
    <2>1. CASE ClaimBatch(s) \/ Commit(s)
      BY <1>9, <2>1 DEF ClaimBatch, Commit
    <2>2. CASE PublishNext(s)
      BY <1>7, <2>2 DEF PublishNext
    <2>3. CASE Rollback(s)
      BY <1>3, <1>7, <2>3 DEF Rollback, Fault
    <2> QED BY <1>10, <2>1, <2>2, <2>3 DEF RelayStep
  <1>11. ASSUME NEW s \in Services, Receive(s) PROVE Excused(m, faults')
    <2> PICK batch \in SUBSET {n \in messages[s] : n.at = "queue" /\ n.receives < MaxReceive} :
            messages' = [messages EXCEPT ![s] = (@ \ batch) \cup {ReceivedAgain(n) : n \in batch}]
      BY <1>11 DEF Receive
    <2>1. UNCHANGED faults
      BY <1>11 DEF Receive
    <2>2. m \in messages[t] \/ (s = t /\ \E n \in batch : m = ReceivedAgain(n))
      BY <1>0
    <2> QED BY <1>2, <1>5, <2>1, <2>2
  <1>12. ASSUME NEW s \in Services, DeadLetter(s) PROVE Excused(m, faults')
    <2> PICK n \in messages[s] : n.at = "queue" /\ messages' = Moved(s, n, "dlq")
      BY <1>12 DEF DeadLetter
    <2>1. UNCHANGED faults
      BY <1>12 DEF DeadLetter
    <2> QED BY <1>2, <1>5, <1>8, <2>1
  <1>13. ASSUME NEW s \in Services, HandlerFails(s) \/ DeleteFails(s) PROVE Excused(m, faults')
    <2> PICK n \in messages[s] : n.at \in {"batch", "handled"} /\ messages' = Moved(s, n, "queue")
      BY <1>13 DEF HandlerFails, DeleteFails, AfterFailure, Handles
    <2>1. faults' = faults + 1
      BY <1>13 DEF HandlerFails, DeleteFails, Fault
    <2> QED BY <1>3, <1>4, <1>8, <2>1
  <1>14. ASSUME NEW s \in Services, DeleteMessage(s) PROVE Excused(m, faults')
    <2>1. UNCHANGED faults /\ m \in messages[t]
      BY <1>0, <1>14 DEF DeleteMessage, Deleted
    <2> QED BY <1>2, <2>1
  <1>15. ASSUME NEW s \in Services, Crash(s) PROVE Excused(m, faults')
    <2>1. faults' = faults + 1
      BY <1>15 DEF Crash, Fault
    <2>2. m \in messages[t] \/ \E n \in messages[t] : n.at \in {"batch", "handled"} /\ m = At("queue", n)
      BY <1>0, <1>15 DEF Crash, Held
    <2> QED BY <1>3, <1>4, <2>1, <2>2
  <1>16. ASSUME NEW s \in Services, NEW n \in messages[s], n.at = "batch",
                messages' = Moved(s, n, "handled"), UNCHANGED faults
         PROVE  Excused(m, faults')
    BY <1>2, <1>5, <1>8, <1>16
  <1>17. CASE ProcessOrderCreated
    <2> PICK n \in messages["payment"] : n.at = "batch" /\ messages' = Moved("payment", n, "handled")
      BY <1>17 DEF ProcessOrderCreated, Charges, Handles
    <2> QED BY <1>16, <1>17 DEF ProcessOrderCreated, Services
  <1>18. CASE ApplyPaymentResult
    <2> PICK n \in messages["order"] : n.at = "batch" /\ messages' = Moved("order", n, "handled")
      BY <1>18 DEF ApplyPaymentResult, Settles, Handles
    <2> QED BY <1>16, <1>18 DEF ApplyPaymentResult, Services
  <1>19. ASSUME NEW o \in Orders, CheckoutStep(o) PROVE Excused(m, faults')
    <2>1. UNCHANGED messages /\ faults' \in {faults, faults + 1}
      BY <1>19 DEF CheckoutStep, CreateOrder, ConfirmAwaitingPayment, AnswerCall, AbortCall, Cancel, Fault
    <2> QED BY <1>2, <1>3, <2>1
  <1>20. CASE UNCHANGED vars
    BY <1>9, <1>20 DEF vars
  <1> QED BY <1>10, <1>11, <1>12, <1>13, <1>14, <1>15, <1>17, <1>18, <1>19, <1>20 DEF Next, QueueStep

\* A message uses up its receives, and is dead-lettered, only for failures that happened
\* after it was sent.
THEOREM ReceivesExcused == Spec => []ReceivesAreFailures
  <1>1. Init => ReceivesAreFailures
    BY DEF Init, ReceivesAreFailures
  <1>2. SagaInv /\ ReceivesAreFailures /\ [Next]_vars => ReceivesAreFailures'
    BY ReceivesStep
  <1> QED BY <1>1, <1>2, SagaInvariant, PTL DEF Spec

-----------------------------------------------------------------------------
(* The saga implements the lifecycle of OrderLifecycle.tla.                *)

\* The refinement mapping: an order's charge is the status of its payments row.
Charge == [o \in Orders |-> payment[o].status]

LEMMA LifecycleInit == Init => Lifecycle!Init
  BY DEF Init, Lifecycle!Init, NoPayment

\* A charge of the saga is the one charge the lifecycle allows.
LEMMA LifecycleCharge ==
    ASSUME SagaInv, NEW m \in messages["payment"],
           ~AlreadyProcessed("payment", m), ChargeOrder(m.event, outbox["order"][m.event]),
           UNCHANGED status
    PROVE  \E o \in Orders : Lifecycle!Charge(o)
  <1> USE DEF SagaInv
  <1> DEFINE row == outbox["order"][m.event]
             o == row.order
             outcome == Decide(row.amount)
  <1>1. m.event \in DOMAIN outbox["order"] /\ m.event \notin ledger["payment"]
    BY DEF RowsExist, AlreadyProcessed, Services, Peer
  <1>2. o \in Orders /\ status[o] # "NONE" /\ payment[o] = NoPayment
    BY <1>1, RowsAboutOrders DEF OneRowPerOrder, LedgerTellsCharges, Charged
  <1>3. outcome \in Outcome
    BY DEF Decide, Outcome
  <1>4. payment' = [payment EXCEPT ![o] = [status |-> outcome, amount |-> row.amount]]
    BY <1>2 DEF ChargeOrder
  <1>5. payment \in [Orders -> Payment]
    BY DEF TypeOK
  <1> HIDE DEF outcome
  <1>6. Charge' = [Charge EXCEPT ![o] = outcome]
    BY <1>2, <1>4, <1>5 DEF Charge
  <1>7. Charge[o] = "NONE"
    BY <1>2 DEF Charge, NoPayment
  <1>8. outcome \in Lifecycle!Outcome
    BY <1>3 DEF Outcome, Lifecycle!Outcome
  <1> QED BY <1>2, <1>6, <1>7, <1>8 DEF Charge, Lifecycle!Charge

\* A settlement of the saga is the one the order's charge decides.
LEMMA LifecycleSettle ==
    ASSUME SagaInv, NEW m \in messages["order"], Settles(m), UNCHANGED payment
    PROVE  UNCHANGED <<status, Charge>> \/ \E o \in Orders : Lifecycle!Settle(o)
  <1> USE DEF SagaInv
  <1> DEFINE row == outbox["payment"][m.event]
             o == row.order
  <1>1. m.event \in DOMAIN outbox["payment"]
    BY DEF RowsExist, Services, Peer
  <1>2. o \in Orders /\ payment[o] = [status |-> OutcomeOf(row.type), amount |-> total[o]]
    BY <1>1, RowsAboutOrders DEF ResultsTellCharges
  <1>3. Charge[o] = OutcomeOf(row.type) /\ OutcomeOf(row.type) \in Lifecycle!Outcome
    BY <1>2 DEF Charge, OutcomeOf, Lifecycle!Outcome
  <1>4. StatusFor(OutcomeOf(row.type)) = Lifecycle!StatusFor(Charge[o])
    BY <1>3 DEF StatusFor, Lifecycle!StatusFor
  <1>5. UNCHANGED Charge
    BY DEF Charge
  <1> QED BY <1>2, <1>3, <1>4, <1>5 DEF Settles, Charge, Lifecycle!Settle, Lifecycle!Move

\* Every step of the saga is a step of the lifecycle or changes nothing it sees.
LEMMA LifecycleStep == SagaInv /\ [Next]_vars => [Lifecycle!Next]_(Lifecycle!vars)
  <1> SUFFICES ASSUME SagaInv, [Next]_vars PROVE [Lifecycle!Next]_(Lifecycle!vars)
    OBVIOUS
  <1>0. ASSUME UNCHANGED <<status, payment>> PROVE UNCHANGED Lifecycle!vars
    BY <1>0 DEF Lifecycle!vars
  <1>1. ASSUME UNCHANGED payment PROVE UNCHANGED Charge
    BY <1>1 DEF Charge
  <1>2. ASSUME NEW o \in Orders, CreateOrder(o) PROVE Lifecycle!Place(o)
    BY <1>1, <1>2 DEF CreateOrder, SagaInv, OneRowPerOrder, Charge, Lifecycle!Place, Lifecycle!Move
  <1>3. ASSUME NEW o \in Orders, ConfirmAwaitingPayment(o)
        PROVE  Lifecycle!Confirm(o) \/ UNCHANGED <<status, payment>>
    BY <1>1, <1>3 DEF ConfirmAwaitingPayment, Confirmed, Charge, Lifecycle!Confirm, Lifecycle!Move
  <1>4. ASSUME NEW o \in Orders, AnswerCall(o) \/ AbortCall(o) PROVE UNCHANGED <<status, payment>>
    BY <1>4 DEF AnswerCall, AbortCall
  <1>5. ASSUME NEW o \in Orders, Cancel(o) PROVE Lifecycle!Cancel(o)
    BY <1>1, <1>5 DEF Cancel, Charge, Lifecycle!Cancel, Lifecycle!Move
  <1>6. ASSUME NEW s \in Services, Crash(s) PROVE UNCHANGED <<status, payment>>
    BY <1>6 DEF Crash
  <1>7. ASSUME ProcessOrderCreated
        PROVE  UNCHANGED <<status, payment>> \/ \E o \in Orders : Lifecycle!Charge(o)
    BY <1>7, LifecycleCharge DEF ProcessOrderCreated, Charges
  <1>8. ASSUME ApplyPaymentResult
        PROVE  UNCHANGED <<status, payment>> \/ \E o \in Orders : Lifecycle!Settle(o)
    BY <1>8, LifecycleSettle DEF ApplyPaymentResult
  <1>9. CASE UNCHANGED vars
    BY <1>0, <1>9 DEF vars
  <1> QED BY <1>0, <1>2, <1>3, <1>4, <1>5, <1>6, <1>7, <1>8, <1>9, QuietStep
          DEF Next, CheckoutStep, Lifecycle!Next

\* The saga implements the lifecycle: one charge per order, and a status changes
\* only along its diagram, whatever fails on the way.
THEOREM SagaImplementsLifecycle == Spec => ImplementsLifecycle
  BY LifecycleInit, LifecycleStep, SagaInvariant, PTL
     DEF Spec, ImplementsLifecycle, Lifecycle!Spec

\* A step of the lifecycle leaves an order that has come to its end there, and a charge
\* as it was decided.
LEMMA LifecycleFinal ==
    ASSUME status \in [Orders -> Lifecycle!Status], Lifecycle!Next, NEW o \in Orders
    PROVE  /\ status[o] \in {"PAID", "PAYMENT_FAILED", "CANCELLED"} => status'[o] = status[o]
           /\ Charge[o] # "NONE" => Charge'[o] = Charge[o]
  <1>1. PICK x \in Orders : Lifecycle!Place(x) \/ Lifecycle!Confirm(x) \/ Lifecycle!Cancel(x)
                            \/ Lifecycle!Charge(x) \/ Lifecycle!Settle(x)
    BY DEF Lifecycle!Next
  <1>2. CASE Lifecycle!Charge(x)
    <2>1. PICK outcome \in Lifecycle!Outcome : Charge' = [Charge EXCEPT ![x] = outcome]
      BY <1>2 DEF Lifecycle!Charge, Charge
    <2>2. status' = status /\ Charge[x] = "NONE" /\ DOMAIN Charge = Orders
      BY <1>2 DEF Lifecycle!Charge, Charge
    <2> HIDE DEF Charge
    <2>3. Charge[o] # "NONE" => Charge'[o] = Charge[o]
      BY <2>1, <2>2
    <2> QED BY <2>2, <2>3
  <1>3. ASSUME NEW from \in {"NONE", "PENDING", "AWAITING_PAYMENT"}, NEW to, Lifecycle!Move(x, from, to)
        PROVE  /\ status[o] \in {"PAID", "PAYMENT_FAILED", "CANCELLED"} => status'[o] = status[o]
               /\ Charge[o] # "NONE" => Charge'[o] = Charge[o]
    <2>1. status[x] = from /\ status' = [status EXCEPT ![x] = to] /\ Charge' = Charge
      BY <1>3 DEF Lifecycle!Move, Charge
    <2> QED BY <1>3, <2>1
  <1>4. CASE \E to : \/ Lifecycle!Move(x, "NONE", to) \/ Lifecycle!Move(x, "PENDING", to)
                     \/ Lifecycle!Move(x, "AWAITING_PAYMENT", to)
    BY <1>3, <1>4
  <1> QED BY <1>1, <1>2, <1>4
          DEF Lifecycle!Place, Lifecycle!Confirm, Lifecycle!Cancel, Lifecycle!Settle

\* What an order has come to is final, and so is its charge: no repeated, late or
\* reordered event, no retry and no restart moves a paid, failed or cancelled order, or
\* charges an order again or otherwise.
THEOREM EndsAreFinal ==
    Spec => [][\A o \in Orders :
                 /\ status[o] \in {"PAID", "PAYMENT_FAILED", "CANCELLED"} => status'[o] = status[o]
                 /\ Charge[o] # "NONE" => Charge'[o] = Charge[o]]_vars
  <1>1. ASSUME SagaInv, [Next]_vars
        PROVE  [\A o \in Orders :
                 /\ status[o] \in {"PAID", "PAYMENT_FAILED", "CANCELLED"} => status'[o] = status[o]
                 /\ Charge[o] # "NONE" => Charge'[o] = Charge[o]]_vars
    <2>1. status \in [Orders -> Lifecycle!Status]
      BY <1>1 DEF SagaInv, TypeOK, Status, Lifecycle!Status
    <2>2. CASE Lifecycle!Next
      BY <2>1, <2>2, LifecycleFinal
    <2>3. CASE UNCHANGED Lifecycle!vars
      BY <2>3 DEF Lifecycle!vars, Charge
    <2> QED BY <1>1, <2>2, <2>3, LifecycleStep
  <1> QED BY <1>1, SagaInvariant, PTL DEF Spec
=============================================================================
