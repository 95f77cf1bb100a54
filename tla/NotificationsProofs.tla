------------------------ MODULE NotificationsProofs ------------------------
(***************************************************************************)
(* Theorems about Notifications for any set of orders, customers and       *)
(* instances and any number of copies and failures, and their proofs.      *)
(***************************************************************************)
EXTENDS Notifications, FiniteSetTheorems, TLAPS

Seqs == INSTANCE SequenceTheorems

Hold == [message : Message, nth : 1..MaxReceive, step : {"received", "resolved", "written"}]
Notice == [user : [customer : Customers, upper : BOOLEAN], entry : Entry, read : BOOLEAN]

\* The shape of what a step writes.
LEMMA EntryType ==
    ASSUME NEW m \in Message
    PROVE  EntryOf(m) \in Entry /\ EntryOf(m).order = m.order
  BY NotificationConstants DEF Message, EntryOf, Entry

\* A notification names the owner of its order by the id his token has.
LEMMA NoticeType ==
    ASSUME NEW m \in Message
    PROVE  /\ Notification(m) \in Notice
           /\ Notification(m).entry = EntryOf(m)
           /\ Notification(m).user = Sub(Owner[m.order])
  <1>1. m.order \in Orders /\ Owner[m.order] \in Customers
    BY NotificationConstants DEF Message
  <1> QED BY <1>1, EntryType DEF Notification, ToLowerCase, FromSql, Sub, Notice

\* An append to the collection keeps what is stored and adds one notification.
LEMMA StoredType ==
    ASSUME stored \in Seq(Notice), NEW x \in Notice
    PROVE  /\ Append(stored, x) \in Seq(Notice)
           /\ DOMAIN Append(stored, x) = DOMAIN stored \cup {Len(stored) + 1}
           /\ Len(stored) + 1 \notin DOMAIN stored
           /\ \A n \in DOMAIN stored : Append(stored, x)[n] = stored[n]
           /\ Append(stored, x)[Len(stored) + 1] = x
  OBVIOUS

\* A hold that goes one step on, and the holds of an instance that are left alone.
LEMMA ToType ==
    ASSUME hold \in [Instances -> SUBSET Hold], NEW i \in Instances, NEW h \in hold[i],
           NEW step \in {"received", "resolved", "written"}
    PROVE  /\ [h EXCEPT !.step = step] \in Hold
           /\ To(i, h, step) => hold' \in [Instances -> SUBSET Hold]
           /\ Drop(i, h) => hold' \in [Instances -> SUBSET Hold]
  <1>1. h \in Hold
    OBVIOUS
  <1>2. [h EXCEPT !.step = step] \in Hold
    BY <1>1 DEF Hold
  <1> QED BY <1>2 DEF To, Drop

-----------------------------------------------------------------------------
(* DeliveryInv: nothing is deleted untold.                                 *)

\* The type invariant holds at first and after every step.
LEMMA TypeInit == Init => TypeOK
  BY NotificationConstants DEF Init, TypeOK, Place

\* Every step keeps the shapes.
LEMMA TypeStep ==
    ASSUME TypeOK, [Next]_vars
    PROVE  TypeOK'
  <1> USE DEF TypeOK
  <1>0. /\ hold \in [Instances -> SUBSET Hold] /\ stored \in Seq(Notice)
        /\ message \in [Message -> [at : Place, receives : 0..MaxReceive]]
    BY DEF Hold, Notice
  <1>m. ASSUME NEW m \in Message, NEW at \in Place
        PROVE  [message EXCEPT ![m].at = at] \in [Message -> [at : Place, receives : 0..MaxReceive]]
    BY <1>0
  <1>f. Fault => faults' \in 0..MaxFaults
    BY NotificationConstants DEF Fault
  <1>1. ASSUME NEW m \in Message, MessageStep(m) PROVE TypeOK'
    <2>1. UNCHANGED <<hold, stored, marks>>
      BY <1>1 DEF MessageStep, Publish, Reappear, Overdue, DeadLetter
    <2>2. faults' \in 0..MaxFaults
      BY <1>1, <1>f DEF MessageStep, Publish, Reappear, Overdue, DeadLetter
    <2>3. \E at \in Place : message' = [message EXCEPT ![m].at = at]
      BY <1>1 DEF MessageStep, Publish, Reappear, Overdue, DeadLetter, Place
    <2> QED BY <1>m, <2>1, <2>2, <2>3
  <1>2. ASSUME NEW i \in Instances, NEW q \in Queue, Receive(i, q) PROVE TypeOK'
    <2> PICK batch \in SUBSET {m \in Message : m.queue = q /\ message[m].at = "visible"
                                                 /\ message[m].receives < MaxReceive} :
            /\ hold' = [hold EXCEPT ![i] = @ \cup {Taken(m) : m \in batch}]
            /\ message' = [m \in Message |->
                    IF m \in batch THEN [at |-> "hidden", receives |-> message[m].receives + 1]
                    ELSE message[m]]
      BY <1>2 DEF Receive
    <2>1. \A m \in batch : message[m].receives + 1 \in 1..MaxReceive
      BY <1>0, NotificationConstants
    <2>2. \A m \in batch : Taken(m) \in Hold
      BY <2>1 DEF Taken, Hold
    <2>3. hold' \in [Instances -> SUBSET Hold]
      BY <1>0, <2>2
    <2>4. message' \in [Message -> [at : Place, receives : 0..MaxReceive]]
      BY <1>0, <2>1 DEF Place
    <2> QED BY <1>2, <2>3, <2>4 DEF Receive, Hold
  <1>3. ASSUME NEW i \in Instances, NEW h \in hold[i],
               GetCustomerId(i, h) \/ Create(i, h) \/ DeleteMessage(i, h) \/ HandlerFails(i, h)
        PROVE  TypeOK'
    <2>0. h \in Hold /\ h.message \in Message
      BY <1>0 DEF Hold
    <2>1. hold' \in [Instances -> SUBSET Hold]
      BY <1>0, <1>3, ToType DEF GetCustomerId, Create, DeleteMessage, HandlerFails
    <2>2. stored' \in Seq(Notice)
      <3>1. CASE Create(i, h)
        <4>1. stored' = Append(stored, Notification(h.message))
          BY <3>1 DEF Create, Stored
        <4> QED BY <1>0, <2>0, <4>1, NoticeType, StoredType
      <3>2. CASE ~Create(i, h)
        BY <1>0, <1>3, <3>2 DEF GetCustomerId, DeleteMessage, HandlerFails
      <3> QED BY <3>1, <3>2
    <2>3. message' \in [Message -> [at : Place, receives : 0..MaxReceive]]
      <3>1. UNCHANGED message \/ message' = [message EXCEPT ![h.message].at = "deleted"]
        BY <1>3 DEF GetCustomerId, Create, DeleteMessage, HandlerFails, Deleted
      <3>2. "deleted" \in Place
        BY DEF Place
      <3>3. CASE UNCHANGED message
        BY <1>0, <3>3
      <3>4. CASE message' = [message EXCEPT ![h.message].at = "deleted"]
        BY <1>m, <2>0, <3>2, <3>4
      <3> QED BY <3>1, <3>3, <3>4
    <2>4. UNCHANGED marks /\ faults' \in 0..MaxFaults
      BY <1>3, <1>f DEF GetCustomerId, Create, DeleteMessage, HandlerFails
    <2> QED BY <2>1, <2>2, <2>3, <2>4 DEF Hold, Notice
  <1>4. ASSUME NEW i \in Instances, Crash(i) PROVE TypeOK'
    <2>1. hold' \in [Instances -> SUBSET Hold]
      BY <1>0, <1>4 DEF Crash
    <2> QED BY <1>4, <1>f, <2>1 DEF Crash, Hold
  <1>5. ASSUME NEW c \in Customers, NEW n \in DOMAIN stored, MarkRead(c, n) PROVE TypeOK'
    <2>1. stored' = [stored EXCEPT ![n].read = TRUE] /\ stored[n] \in Notice
      BY <1>0, <1>5 DEF MarkRead
    <2>2. [stored[n] EXCEPT !.read = TRUE] \in Notice
      BY <2>1 DEF Notice
    <2>3. stored' \in Seq(Notice)
      BY <1>0, <2>1, <2>2
    <2>4. marks' \in 0..MaxMarks
      BY <1>5, NotificationConstants DEF MarkRead
    <2> QED BY <1>5, <2>3, <2>4 DEF MarkRead, Notice
  <1>7. CASE UNCHANGED vars
    BY <1>7 DEF vars
  <1> QED BY <1>1, <1>2, <1>3, <1>4, <1>5, <1>7 DEF Next, ConsumerStep

\* What is stored stays, under the same number and about the same event.
LEMMA StoredStays ==
    ASSUME TypeOK, [Next]_vars
    PROVE  \A n \in DOMAIN stored : /\ n \in DOMAIN stored'
                                    /\ stored'[n].entry = stored[n].entry
                                    /\ stored'[n].user = stored[n].user
  <1>0. stored \in Seq(Notice) /\ hold \in [Instances -> SUBSET Hold]
    BY DEF TypeOK, Notice, Hold
  <1>1. CASE UNCHANGED stored
    BY <1>1
  <1>2. ASSUME NEW i \in Instances, NEW h \in hold[i], Create(i, h)
        PROVE  \A n \in DOMAIN stored : n \in DOMAIN stored' /\ stored'[n] = stored[n]
    <2>1. stored' = Append(stored, Notification(h.message)) /\ h.message \in Message
      BY <1>0, <1>2 DEF Create, Stored, Hold
    <2> QED BY <1>0, <2>1, NoticeType, StoredType
  <1>3. ASSUME NEW c \in Customers, NEW k \in DOMAIN stored, MarkRead(c, k)
        PROVE  \A n \in DOMAIN stored : /\ n \in DOMAIN stored'
                                        /\ stored'[n].entry = stored[n].entry
                                        /\ stored'[n].user = stored[n].user
    <2>1. stored' = [stored EXCEPT ![k].read = TRUE]
      BY <1>3 DEF MarkRead
    <2>2. \A n \in DOMAIN stored : stored[n] \in Notice
      BY <1>0
    <2> QED BY <1>0, <2>1, <2>2 DEF Notice
  <1>4. \/ UNCHANGED stored
        \/ \E i \in Instances : \E h \in hold[i] : Create(i, h)
        \/ \E c \in Customers, k \in DOMAIN stored : MarkRead(c, k)
    BY DEF Next, MessageStep, Publish, Reappear, Overdue, DeadLetter, ConsumerStep, Receive,
           GetCustomerId, DeleteMessage, HandlerFails, Crash, vars
  <1> QED BY <1>1, <1>2, <1>3, <1>4

\* An event that is told stays told, and the one a handler writes becomes told.
LEMMA ToldStays ==
    ASSUME TypeOK, [Next]_vars, NEW m \in Message, Told(m) # {}
    PROVE  Told(m)' # {}
  BY StoredStays DEF Told

\* A write tells the event of its message.
LEMMA WriteTells ==
    ASSUME TypeOK, NEW i \in Instances, NEW h \in hold[i], Create(i, h)
    PROVE  /\ h \in Hold /\ h.message \in Message
           /\ Told(h.message)' # {}
  <1>0. /\ stored \in Seq(Notice) /\ h \in Hold /\ h.message \in Message
        /\ stored' = Append(stored, Notification(h.message))
    BY DEF TypeOK, Notice, Hold, Create, Stored
  <1>1. /\ Len(stored) + 1 \in DOMAIN stored'
        /\ stored'[Len(stored) + 1].entry = EntryOf(h.message)
    BY <1>0, NoticeType, StoredType
  <1> QED BY <1>0, <1>1 DEF Told

\* A deletion comes after a write, and what a write told stays told.
LEMMA DeliveryStep ==
    ASSUME DeliveryInv, [Next]_vars
    PROVE  DeliveryInv'
  <1>0. /\ TypeOK /\ DeletedIsTold /\ WrittenIsTold
        /\ hold \in [Instances -> SUBSET Hold]
        /\ message \in [Message -> [at : Place, receives : 0..MaxReceive]]
    BY DEF DeliveryInv, TypeOK, Hold
  <1>1. TypeOK'
    BY <1>0, TypeStep
  <1>2. \A m \in Message : Told(m) # {} => Told(m)' # {}
    BY <1>0, ToldStays
  <1>3. ASSUME NEW m \in Message, message'[m].at = "deleted" PROVE Told(m)' # {}
    <2>1. CASE message[m].at = "deleted"
      BY <1>0, <1>2, <2>1 DEF DeletedIsTold
    <2>2. CASE message[m].at # "deleted"
      <3>m. ~ \E k \in Message : MessageStep(k)
        BY <1>0, <1>3, <2>2 DEF MessageStep, Publish, Reappear, Overdue, DeadLetter
      <3>r. ~ \E i \in Instances, q \in Queue : Receive(i, q)
        BY <1>0, <1>3, <2>2 DEF Receive
      <3>1. PICK i \in Instances : \E h \in hold[i] : DeleteMessage(i, h) /\ message' = Deleted(h.message)
        BY <1>3, <2>2, <3>m, <3>r DEF Next, ConsumerStep, GetCustomerId, Create, DeleteMessage,
           HandlerFails, Crash, MarkRead, vars
      <3> PICK h \in hold[i] : DeleteMessage(i, h) /\ message' = Deleted(h.message)
        BY <3>1
      <3>2. h.step = "written" /\ h.message = m
        BY <1>0, <1>3, <2>2 DEF DeleteMessage, Handled, Deleted, Hold
      <3>3. Told(m) # {}
        BY <1>0, <3>2 DEF WrittenIsTold
      <3> QED BY <1>2, <3>3
    <2> QED BY <2>1, <2>2
  <1>4. ASSUME NEW j \in Instances, NEW g \in hold'[j], g.step = "written" PROVE Told(g.message)' # {}
    <2>1. CASE g \in hold[j]
      <3>1. Told(g.message) # {} /\ g.message \in Message
        BY <1>0, <1>4, <2>1 DEF WrittenIsTold, Hold
      <3> QED BY <1>2, <3>1
    <2>2. CASE g \notin hold[j]
      <3>1. ASSUME NEW i \in Instances, NEW q \in Queue, Receive(i, q) PROVE g.step = "received"
        BY <1>0, <2>2, <3>1 DEF Receive, Taken
      <3>2. ASSUME NEW i \in Instances, NEW h \in hold[i], GetCustomerId(i, h) PROVE g.step = "resolved"
        BY <1>0, <2>2, <3>2 DEF GetCustomerId, To, Hold
      <3>3. ASSUME NEW i \in Instances, NEW h \in hold[i], Create(i, h) PROVE Told(g.message)' # {}
        <4>1. g = [h EXCEPT !.step = "written"] /\ h \in Hold
          BY <1>0, <2>2, <3>3 DEF Create, To
        <4>2. g.message = h.message
          BY <4>1 DEF Hold
        <4> QED BY <1>0, <3>3, <4>2, WriteTells
      <3>4. \/ \E i \in Instances, q \in Queue : Receive(i, q)
            \/ \E i \in Instances : \E h \in hold[i] : GetCustomerId(i, h) \/ Create(i, h)
        BY <1>0, <2>2 DEF Next, MessageStep, Publish, Reappear, Overdue, DeadLetter,
              ConsumerStep, DeleteMessage, HandlerFails, Drop, Crash, MarkRead, vars
      <3> QED BY <1>4, <3>1, <3>2, <3>3, <3>4
    <2> QED BY <2>1, <2>2
  <1> QED BY <1>1, <1>3, <1>4 DEF DeliveryInv, DeletedIsTold, WrittenIsTold

\* For any number of instances, copies and failures, a message leaves its queue for good
\* only told or dead-lettered.
THEOREM NothingDeletedUntold == Spec => []DeliveryInv
  <1>1. Init => DeliveryInv
    BY TypeInit DEF Init, DeliveryInv, DeletedIsTold, WrittenIsTold
  <1>2. DeliveryInv /\ [Next]_vars => DeliveryInv'
    BY DeliveryStep
  <1> QED BY <1>1, <1>2, PTL DEF Spec

-----------------------------------------------------------------------------
(* OwnersFindTheirs: the spelling of an id never hides a notification.     *)

\* Whoever a notification names is the owner of its order, as his token spells him.
NamesOwner == \A n \in DOMAIN stored : stored[n].user = Sub(Owner[stored[n].entry.order])

\* Only a write adds a notification, and a write names the owner of the order.
LEMMA NamesOwnerStep ==
    ASSUME TypeOK, NamesOwner, [Next]_vars
    PROVE  NamesOwner'
  <1>0. stored \in Seq(Notice) /\ hold \in [Instances -> SUBSET Hold]
    BY DEF TypeOK, Notice, Hold
  <1> SUFFICES ASSUME NEW n \in DOMAIN stored'
               PROVE  stored'[n].user = Sub(Owner[stored'[n].entry.order])
    BY DEF NamesOwner
  <1>1. CASE n \in DOMAIN stored
    BY <1>1, StoredStays DEF NamesOwner
  <1>2. CASE n \notin DOMAIN stored
    <2>1. ASSUME NEW c \in Customers, NEW k \in DOMAIN stored, MarkRead(c, k) PROVE FALSE
      BY <1>0, <1>2, <2>1 DEF MarkRead
    <2>2. PICK i \in Instances : \E h \in hold[i] : Create(i, h)
      BY <1>2, <2>1 DEF Next, MessageStep, Publish, Reappear, Overdue, DeadLetter, ConsumerStep,
            Receive, GetCustomerId, DeleteMessage, HandlerFails, Crash, vars
    <2> PICK h \in hold[i] : Create(i, h)
      BY <2>2
    <2>3. stored' = Append(stored, Notification(h.message)) /\ h.message \in Message
      BY <1>0 DEF Create, Stored, Hold
    <2>4. stored'[n] = Notification(h.message)
      BY <1>0, <1>2, <2>3, NoticeType, StoredType
    <2> QED BY <2>3, <2>4, NoticeType, EntryType
  <1> QED BY <1>1, <1>2

\* A customer's list query finds the notifications of that customer's orders and no
\* others, however SQL Server, the event and the token spell the id.
THEOREM OwnersFound == Spec => []OwnersFindTheirs
  <1>1. Init => NamesOwner
    BY DEF Init, NamesOwner
  <1>2. TypeOK /\ NamesOwner /\ [Next]_vars => NamesOwner'
    BY NamesOwnerStep
  <1>3. DeliveryInv => TypeOK
    BY DEF DeliveryInv
  <1>4. NamesOwner => OwnersFindTheirs
    <2>1. \A a, b : Sub(a) = Sub(b) <=> a = b
      BY DEF Sub
    <2> QED BY <2>1 DEF NamesOwner, OwnersFindTheirs, Matches
  <1> QED BY <1>1, <1>2, <1>3, <1>4, NothingDeletedUntold, PTL DEF Spec

-----------------------------------------------------------------------------
(* DuplicatesAreFailures: what is told again was paid for by a failure.    *)

\* A receive of a message, named by its number, is in one hand; an instance has one
\* message of a queue under way.
OneReceiver ==
    \A i, j \in Instances : \A g \in hold[i], h \in hold[j] :
        g.message = h.message /\ g.nth = h.nth => i = j /\ g = h
Counted == \A i \in Instances : \A h \in hold[i] : h.nth <= message[h.message].receives
OneUnderWay ==
    \A i \in Instances : \A g, h \in hold[i] :
        g.message.queue = h.message.queue /\ g.step # "received" /\ h.step # "received" => g = h
HoldInv == OneReceiver /\ Counted /\ OneUnderWay

\* Dropping a hold, or losing all of them, keeps the rest apart.
LEMMA HoldDropped ==
    ASSUME TypeOK, HoldInv, hold' \in [Instances -> SUBSET Hold],
           \A i \in Instances : hold'[i] \subseteq hold[i],
           \A m \in Message : message'[m].receives = message[m].receives
    PROVE  HoldInv'
  <1>0. hold \in [Instances -> SUBSET Hold]
    BY DEF TypeOK, Hold
  <1>1. OneReceiver'
    BY <1>0 DEF HoldInv, OneReceiver
  <1>2. Counted'
    <2> SUFFICES ASSUME NEW i \in Instances, NEW h \in hold'[i]
                 PROVE  h.nth <= message'[h.message].receives
      BY DEF Counted
    <2>1. h \in hold[i] /\ h.message \in Message
      BY <1>0 DEF Hold
    <2> QED BY <2>1 DEF HoldInv, Counted
  <1>3. OneUnderWay'
    BY <1>0 DEF HoldInv, OneUnderWay
  <1> QED BY <1>1, <1>2, <1>3 DEF HoldInv

\* A hold that goes on while it is the one under way stays the only one.
LEMMA HoldGoesOn ==
    ASSUME TypeOK, HoldInv, NEW i \in Instances, NEW h \in hold[i], UnderWay(i, h),
           NEW step \in {"resolved", "written"}, To(i, h, step), UNCHANGED message
    PROVE  HoldInv'
  <1> DEFINE k == [h EXCEPT !.step = step]
  <1>0. hold \in [Instances -> SUBSET Hold] /\ h \in Hold
    BY DEF TypeOK, Hold
  <1>1. k \in Hold /\ k.message = h.message /\ k.nth = h.nth
    BY <1>0 DEF Hold
  <1> HIDE DEF k
  <1>2. /\ hold'[i] = (hold[i] \ {h}) \cup {k}
        /\ \A j \in Instances : j # i => hold'[j] = hold[j]
    BY <1>0 DEF To, k
  <1>3. \A j \in Instances : \A g \in hold'[j] :
            \/ g \in hold[j] /\ (j = i => g # h)
            \/ j = i /\ g = k
    BY <1>2
  <1>4. OneReceiver'
    <2> SUFFICES ASSUME NEW a \in Instances, NEW b \in Instances, NEW f \in hold'[a], NEW g \in hold'[b],
                        f.message = g.message, f.nth = g.nth
                 PROVE  a = b /\ f = g
      BY DEF OneReceiver
    <2>1. CASE f \in hold[a] /\ g \in hold[b]
      BY <2>1 DEF HoldInv, OneReceiver
    <2>2. CASE f \in hold[a] /\ (a = i => f # h) /\ b = i /\ g = k
      BY <1>1, <2>2 DEF HoldInv, OneReceiver
    <2>3. CASE a = i /\ f = k /\ g \in hold[b] /\ (b = i => g # h)
      BY <1>1, <2>3 DEF HoldInv, OneReceiver
    <2> QED BY <1>3, <2>1, <2>2, <2>3
  <1>5. Counted'
    BY <1>1, <1>3 DEF HoldInv, Counted
  <1>6. OneUnderWay'
    <2> SUFFICES ASSUME NEW a \in Instances, NEW f \in hold'[a], NEW g \in hold'[a],
                        f.message.queue = g.message.queue, f.step # "received", g.step # "received"
                 PROVE  f = g
      BY DEF OneUnderWay
    <2>1. ASSUME NEW d \in hold[i], d # h, d.message.queue = h.message.queue PROVE d.step = "received"
      BY <2>1 DEF UnderWay, Batch
    <2>2. CASE f \in hold[a] /\ g \in hold[a]
      BY <2>2 DEF HoldInv, OneUnderWay
    <2> QED BY <1>1, <1>3, <2>1, <2>2
  <1> QED BY <1>4, <1>5, <1>6 DEF HoldInv

\* What is received comes under a number no earlier receive of its message has.
LEMMA HoldReceived ==
    ASSUME TypeOK, HoldInv, NEW i \in Instances, NEW q \in Queue, Receive(i, q)
    PROVE  HoldInv'
  <1>0. /\ hold \in [Instances -> SUBSET Hold]
        /\ message \in [Message -> [at : Place, receives : 0..MaxReceive]]
        /\ \A m \in Message : message[m].receives \in Nat
    BY NotificationConstants DEF TypeOK, Hold
  <1> PICK batch \in SUBSET {m \in Message : m.queue = q /\ message[m].at = "visible"
                                               /\ message[m].receives < MaxReceive} :
          /\ hold' = [hold EXCEPT ![i] = @ \cup {Taken(m) : m \in batch}]
          /\ message' = [m \in Message |->
                  IF m \in batch THEN [at |-> "hidden", receives |-> message[m].receives + 1]
                  ELSE message[m]]
    BY DEF Receive
  <1>1. \A m \in Message : /\ message'[m].receives = message[m].receives + (IF m \in batch THEN 1 ELSE 0)
                           /\ Taken(m).message = m /\ Taken(m).nth = message[m].receives + 1
                           /\ Taken(m).step = "received"
    BY <1>0 DEF Taken
  <1>2. \A j \in Instances : \A g \in hold'[j] :
            \/ g \in hold[j] /\ g.message \in Message /\ g.nth \in Nat /\ g.nth <= message[g.message].receives
            \/ j = i /\ \E m \in batch : g = Taken(m)
    BY <1>0, NotificationConstants DEF HoldInv, Counted, Hold
  <1>3. OneReceiver'
    <2> SUFFICES ASSUME NEW a \in Instances, NEW b \in Instances, NEW f \in hold'[a], NEW g \in hold'[b],
                        f.message = g.message, f.nth = g.nth
                 PROVE  a = b /\ f = g
      BY DEF OneReceiver
    <2>1. CASE f \in hold[a] /\ g \in hold[b]
      BY <2>1 DEF HoldInv, OneReceiver
    <2>2. ASSUME NEW d, d.message \in Message, d.nth \in Nat, d.nth <= message[d.message].receives,
                 NEW m \in batch, d.message = m, d.nth = message[m].receives + 1
          PROVE  FALSE
      BY <1>0, <2>2
    <2> QED BY <1>1, <1>2, <2>1, <2>2
  <1>4. Counted'
    <2> SUFFICES ASSUME NEW a \in Instances, NEW g \in hold'[a]
                 PROVE  g.nth <= message'[g.message].receives
      BY DEF Counted
    <2>1. CASE g \in hold[a] /\ g.message \in Message /\ g.nth \in Nat /\ g.nth <= message[g.message].receives
      BY <1>0, <1>1, <2>1
    <2>2. CASE \E m \in batch : g = Taken(m)
      BY <1>0, <1>1, <2>2
    <2> QED BY <1>2, <2>1, <2>2
  <1>5. OneUnderWay'
    BY <1>1, <1>2 DEF HoldInv, OneUnderWay
  <1> QED BY <1>3, <1>4, <1>5 DEF HoldInv

\* Every step keeps the holds apart.
LEMMA HoldStep ==
    ASSUME TypeOK, HoldInv, [Next]_vars
    PROVE  HoldInv'
  <1>0. /\ hold \in [Instances -> SUBSET Hold]
        /\ message \in [Message -> [at : Place, receives : 0..MaxReceive]]
    BY DEF TypeOK, Hold
  <1>1. ASSUME NEW m \in Message, MessageStep(m) PROVE HoldInv'
    <2>1. UNCHANGED hold /\ \A k \in Message : message'[k].receives = message[k].receives
      BY <1>0, <1>1 DEF MessageStep, Publish, Reappear, Overdue, DeadLetter
    <2> QED BY <1>0, <2>1, HoldDropped
  <1>2. ASSUME NEW i \in Instances, NEW h \in hold[i], GetCustomerId(i, h) \/ Create(i, h) PROVE HoldInv'
    BY <1>2, HoldGoesOn DEF GetCustomerId, Create
  <1>3. ASSUME NEW i \in Instances, NEW h \in hold[i], DeleteMessage(i, h) \/ HandlerFails(i, h) PROVE HoldInv'
    <2>1. hold' = [hold EXCEPT ![i] = @ \ {h}]
      BY <1>3 DEF DeleteMessage, HandlerFails, Drop
    <2>2. \A k \in Message : message'[k].receives = message[k].receives
      BY <1>0, <1>3 DEF DeleteMessage, HandlerFails, Deleted
    <2> QED BY <1>0, <2>1, <2>2, HoldDropped
  <1>4. ASSUME NEW i \in Instances, Crash(i) PROVE HoldInv'
    BY <1>0, <1>4, HoldDropped DEF Crash
  <1>5. CASE UNCHANGED <<hold, message>>
    BY <1>0, <1>5, HoldDropped
  <1>6. ASSUME NEW c \in Customers, NEW n \in DOMAIN stored, MarkRead(c, n)
        PROVE  HoldInv'
    BY <1>5, <1>6 DEF MarkRead
  <1>7. CASE UNCHANGED vars
    BY <1>5, <1>7 DEF vars
  <1> QED BY <1>1, <1>2, <1>3, <1>4, <1>6, <1>7, HoldReceived DEF Next, ConsumerStep

\* Whether the n-th receive of a message is in hand, and whether it may still write a
\* notification with no further failure: the message waits for it, was hidden by a receive
\* that nobody holds any more (and comes back), or its handler has not written yet.
InHandAs(m, n) == \E i \in Instances : \E h \in hold[i] : h.message = m /\ h.nth = n
Waits(m) == message[m].at = "visible" \/ (message[m].at = "unsent" /\ m.copy = 0)
Abandoned(m, n) == n = message[m].receives /\ message[m].at = "hidden" /\ ~InHandAs(m, n)
Unwritten(m, n) ==
    \E i \in Instances : \E h \in hold[i] : h.message = m /\ h.nth = n /\ h.step # "written"
Pending(m, n) ==
    \/ n = message[m].receives + 1 /\ Waits(m)
    \/ Abandoned(m, n)
    \/ Unwritten(m, n)

\* What each step does to the receives that may still write, for one message x and
\* receive y that it concerns: none is added, ...
Fewer == \A m \in Message, n \in Nat : Pending(m, n)' => Pending(m, n)
\* ... one is added, ...
OneMore(x, y) == \A m \in Message, n \in Nat : Pending(m, n)' => Pending(m, n) \/ (m = x /\ n = y)
\* ... one is replaced by the next one of the same message, ...
Again(x, y) ==
    /\ Pending(x, y)
    /\ \A m \in Message, n \in Nat :
            Pending(m, n)' => (Pending(m, n) /\ ~(m = x /\ n = y)) \/ (m = x /\ n = y + 1)
\* ... or one is used up.
OneLess(x, y) ==
    /\ Pending(x, y)
    /\ \A m \in Message, n \in Nat : Pending(m, n)' => Pending(m, n) /\ ~(m = x /\ n = y)

\* A message becomes visible as the next receive of an abandoned one, or by a failure.
LEMMA PendingMessageStep ==
    ASSUME TypeOK, NEW x \in Message, MessageStep(x)
    PROVE  \/ Fewer /\ UNCHANGED faults
           \/ OneMore(x, message[x].receives + 1) /\ Fault
           \/ Again(x, message[x].receives) /\ UNCHANGED faults
  <1>0. message \in [Message -> [at : Place, receives : 0..MaxReceive]]
    BY DEF TypeOK
  <1>1. UNCHANGED hold
    BY DEF MessageStep, Publish, Reappear, Overdue, DeadLetter
  <1>2. \A m \in Message, n \in Nat :
            /\ InHandAs(m, n)' <=> InHandAs(m, n)
            /\ Unwritten(m, n)' <=> Unwritten(m, n)
    BY <1>1 DEF InHandAs, Unwritten
  <1>3. ASSUME NEW at \in Place, message' = [message EXCEPT ![x].at = at]
        PROVE  /\ \A m \in Message : m # x => message'[m] = message[m]
               /\ message'[x].at = at /\ message'[x].receives = message[x].receives
    BY <1>0, <1>3
  <1>4. ASSUME NEW at \in Place, message' = [message EXCEPT ![x].at = at]
        PROVE  \A m \in Message, n \in Nat : m # x => (Pending(m, n)' <=> Pending(m, n))
    BY <1>2, <1>3, <1>4 DEF Pending, Waits, Abandoned
  <1>5. CASE Publish(x)
    <2>1. message' = [message EXCEPT ![x].at = "visible"] /\ "visible" \in Place /\ message[x].at = "unsent"
      BY <1>5 DEF Publish, Place, Sent
    <2>2. CASE x.copy = 0
      <3>1. Fewer
        BY <1>2, <1>3, <1>4, <2>1, <2>2 DEF Fewer, Pending, Waits, Abandoned
      <3> QED BY <1>5, <2>2, <3>1 DEF Publish
    <2>3. CASE x.copy # 0
      <3>1. OneMore(x, message[x].receives + 1)
        BY <1>2, <1>3, <1>4, <2>1, <2>3 DEF OneMore, Pending, Waits, Abandoned
      <3> QED BY <1>5, <2>3, <3>1 DEF Publish
    <2> QED BY <2>2, <2>3
  <1>6. CASE Reappear(x)
    <2>1. /\ message' = [message EXCEPT ![x].at = "visible"] /\ "visible" \in Place
          /\ message[x].at = "hidden" /\ ~InHand(x)
      BY <1>6 DEF Reappear, Place
    <2>2. \A n \in Nat : ~InHandAs(x, n) /\ ~Unwritten(x, n)
      BY <2>1 DEF InHand, InHandAs, Unwritten
    <2>3. Pending(x, message[x].receives)
      <3>1. message[x].receives \in Nat
        BY <1>0, NotificationConstants
      <3> QED BY <2>1, <2>2, <3>1 DEF Pending, Abandoned
    <2>4. ASSUME NEW n \in Nat, Pending(x, n)' PROVE n = message[x].receives + 1
      BY <1>2, <1>3, <2>1, <2>2, <2>4 DEF Pending, Abandoned
    <2>5. message[x].receives \in Nat /\ message[x].receives + 1 # message[x].receives
      BY <1>0, NotificationConstants
    <2>6. Again(x, message[x].receives)
      BY <1>4, <2>1, <2>3, <2>4, <2>5 DEF Again
    <2> QED BY <1>6, <2>6 DEF Reappear
  <1>7. CASE Overdue(x)
    <2>1. message' = [message EXCEPT ![x].at = "visible"] /\ "visible" \in Place
      BY <1>7 DEF Overdue, Place
    <2>2. OneMore(x, message[x].receives + 1)
      BY <1>2, <1>3, <1>4, <2>1 DEF OneMore, Pending, Waits, Abandoned
    <2> QED BY <1>7, <2>2 DEF Overdue
  <1>8. CASE DeadLetter(x)
    <2>1. message' = [message EXCEPT ![x].at = "dlq"] /\ "dlq" \in Place
      BY <1>8 DEF DeadLetter, Place
    <2>2. Fewer
      BY <1>2, <1>3, <1>4, <2>1 DEF Fewer, Pending, Waits, Abandoned
    <2> QED BY <1>8, <2>2 DEF DeadLetter
  <1> QED BY <1>5, <1>6, <1>7, <1>8 DEF MessageStep

\* A receive puts into a hand what was waiting to be received.
LEMMA PendingReceive ==
    ASSUME TypeOK, NEW i \in Instances, NEW q \in Queue, Receive(i, q)
    PROVE  Fewer /\ UNCHANGED faults
  <1>0. /\ hold \in [Instances -> SUBSET Hold]
        /\ message \in [Message -> [at : Place, receives : 0..MaxReceive]]
    BY DEF TypeOK, Hold
  <1> PICK batch \in SUBSET {m \in Message : m.queue = q /\ message[m].at = "visible"
                                               /\ message[m].receives < MaxReceive} :
          /\ hold' = [hold EXCEPT ![i] = @ \cup {Taken(m) : m \in batch}]
          /\ message' = [m \in Message |->
                  IF m \in batch THEN [at |-> "hidden", receives |-> message[m].receives + 1]
                  ELSE message[m]]
    BY DEF Receive
  <1>1. \A m \in Message : /\ Taken(m).message = m /\ Taken(m).nth = message[m].receives + 1
                           /\ Taken(m).step = "received"
    BY DEF Taken
  <1>2. \A j \in Instances : \A g \in hold'[j] : g \in hold[j] \/ \E m \in batch : g = Taken(m)
    BY <1>0
  <1>3. \A j \in Instances : hold[j] \subseteq hold'[j]
    BY <1>0
  <1>4. \A m \in batch : Taken(m) \in hold'[i]
    BY <1>0
  <1> SUFFICES ASSUME NEW m \in Message, NEW n \in Nat, Pending(m, n)' PROVE Pending(m, n)
    BY DEF Fewer, Receive
  <1>5. CASE Unwritten(m, n)'
    <2> PICK j \in Instances : \E g \in hold'[j] : g.message = m /\ g.nth = n /\ g.step # "written"
      BY <1>5 DEF Unwritten
    <2> PICK g \in hold'[j] : g.message = m /\ g.nth = n /\ g.step # "written"
      OBVIOUS
    <2>1. CASE g \in hold[j]
      BY <2>1 DEF Pending, Unwritten
    <2>2. CASE \E k \in batch : g = Taken(k)
      <3>1. m \in batch /\ n = message[m].receives + 1
        BY <1>1, <2>2
      <3> QED BY <3>1 DEF Pending, Waits
    <2> QED BY <1>2, <2>1, <2>2
  <1>6. CASE Abandoned(m, n)'
    <2>1. m \notin batch
      <3>1. m \in batch => message'[m].receives = message[m].receives + 1
        BY <1>0
      <3>2. m \in batch => InHandAs(m, message[m].receives)'
        BY <1>1, <1>4, <3>1 DEF InHandAs
      <3> QED BY <1>6, <3>2 DEF Abandoned
    <2>2. message'[m] = message[m]
      BY <2>1
    <2>3. ~InHandAs(m, n)
      BY <1>3, <1>6 DEF Abandoned, InHandAs
    <2> QED BY <1>6, <2>2, <2>3 DEF Abandoned, Pending
  <1>7. CASE n = message'[m].receives + 1 /\ Waits(m)'
    <2>1. m \notin batch
      BY <1>7 DEF Waits
    <2>2. message'[m] = message[m]
      BY <2>1
    <2> QED BY <1>7, <2>2 DEF Waits, Pending
  <1> QED BY <1>5, <1>6, <1>7 DEF Pending

\* A handler that goes on leaves the message in hand under the same number.
LEMMA PendingHandler ==
    ASSUME TypeOK, HoldInv, NEW i \in Instances, NEW h \in hold[i]
    PROVE  /\ GetCustomerId(i, h) => Fewer /\ UNCHANGED faults
           /\ Create(i, h) => OneLess(h.message, h.nth) /\ UNCHANGED faults
  <1>0. hold \in [Instances -> SUBSET Hold] /\ h \in Hold /\ h.nth \in Nat
    BY NotificationConstants DEF TypeOK, Hold
  <1>1. ASSUME NEW step \in {"resolved", "written"}, To(i, h, step), h.step # "written"
        PROVE  /\ \A m \in Message, n \in Nat : InHandAs(m, n)' <=> InHandAs(m, n)
               /\ \A m \in Message, n \in Nat :
                    Unwritten(m, n)' => Unwritten(m, n) /\ (step = "written" => ~(m = h.message /\ n = h.nth))
    <2> DEFINE k == [h EXCEPT !.step = step]
    <2>1. k.message = h.message /\ k.nth = h.nth /\ k.step = step
      BY <1>0 DEF Hold
    <2> HIDE DEF k
    <2>2. /\ hold'[i] = (hold[i] \ {h}) \cup {k}
          /\ \A j \in Instances : j # i => hold'[j] = hold[j]
      BY <1>0, <1>1 DEF To, k
    <2>3. \A m \in Message, n \in Nat : InHandAs(m, n)' <=> InHandAs(m, n)
      BY <2>1, <2>2 DEF InHandAs
    <2>4. ASSUME NEW m \in Message, NEW n \in Nat, Unwritten(m, n)'
          PROVE  Unwritten(m, n) /\ (step = "written" => ~(m = h.message /\ n = h.nth))
      <3> PICK j \in Instances : \E g \in hold'[j] : g.message = m /\ g.nth = n /\ g.step # "written"
        BY <2>4 DEF Unwritten
      <3> PICK g \in hold'[j] : g.message = m /\ g.nth = n /\ g.step # "written"
        OBVIOUS
      <3>1. CASE j = i /\ g = k
        <4>1. step # "written" /\ m = h.message /\ n = h.nth
          BY <2>1, <3>1
        <4> QED BY <1>1, <4>1 DEF Unwritten
      <3>2. CASE g \in hold[j] /\ ~(j = i /\ g = h)
        <4>1. ~(m = h.message /\ n = h.nth)
          BY <3>2 DEF HoldInv, OneReceiver
        <4> QED BY <3>2, <4>1 DEF Unwritten
      <3> QED BY <2>2, <3>1, <3>2
    <2> QED BY <2>3, <2>4
  <1>2. ASSUME GetCustomerId(i, h) PROVE Fewer /\ UNCHANGED faults
    <2>1. To(i, h, "resolved") /\ h.step # "written" /\ UNCHANGED <<message, faults>>
      BY <1>2 DEF GetCustomerId
    <2>2. \A m \in Message, n \in Nat : /\ InHandAs(m, n)' <=> InHandAs(m, n)
                                        /\ Unwritten(m, n)' => Unwritten(m, n)
      BY <1>1, <2>1
    <2> QED BY <2>1, <2>2 DEF Fewer, Pending, Waits, Abandoned
  <1>3. ASSUME Create(i, h) PROVE OneLess(h.message, h.nth) /\ UNCHANGED faults
    <2>1. /\ To(i, h, "written") /\ h.step # "written" /\ h.message \in Message
          /\ UNCHANGED <<message, faults>>
      BY <1>0, <1>3 DEF Create, Hold
    <2>2. \A m \in Message, n \in Nat :
            /\ InHandAs(m, n)' <=> InHandAs(m, n)
            /\ Unwritten(m, n)' => Unwritten(m, n) /\ ~(m = h.message /\ n = h.nth)
      BY <1>1, <2>1
    <2>3. Pending(h.message, h.nth) /\ InHandAs(h.message, h.nth)
      BY <2>1 DEF Pending, Unwritten, InHandAs
    <2>4. h.nth # message[h.message].receives + 1
      <3>1. h.nth <= message[h.message].receives /\ message[h.message].receives \in Nat
        BY <2>1, NotificationConstants DEF HoldInv, Counted, TypeOK
      <3> QED BY <1>0, <3>1
    <2> QED BY <2>1, <2>2, <2>3, <2>4 DEF OneLess, Pending, Waits, Abandoned
  <1> QED BY <1>2, <1>3

\* A message that is deleted waits for nobody; one whose receipt was outdated is in the
\* hands of a later receive, or waits, as before.
LEMMA PendingDelete ==
    ASSUME TypeOK, NEW i \in Instances, NEW h \in hold[i], DeleteMessage(i, h)
    PROVE  Fewer /\ UNCHANGED faults
  <1>0. /\ hold \in [Instances -> SUBSET Hold]
        /\ message \in [Message -> [at : Place, receives : 0..MaxReceive]]
        /\ h.message \in Message
    BY DEF TypeOK, Hold
  <1>1. /\ \A j \in Instances : hold'[j] \subseteq hold[j]
        /\ \A j \in Instances : \A g \in hold[j] : g = h \/ g \in hold'[j]
    BY <1>0 DEF DeleteMessage, Drop
  <1>2. \/ message' = [message EXCEPT ![h.message].at = "deleted"]
        \/ h.nth # message[h.message].receives /\ UNCHANGED message
    BY DEF DeleteMessage, Deleted
  <1>3. \A m \in Message, n \in Nat : Unwritten(m, n)' => Unwritten(m, n)
    BY <1>1 DEF Unwritten
  <1>4. \A m \in Message, n \in Nat : InHandAs(m, n) => InHandAs(m, n)' \/ (m = h.message /\ n = h.nth)
    BY <1>1 DEF InHandAs
  <1>5. CASE message' = [message EXCEPT ![h.message].at = "deleted"]
    <2>1. /\ \A m \in Message : m # h.message => message'[m] = message[m]
          /\ message'[h.message].at = "deleted"
      BY <1>0, <1>5
    <2> QED BY <1>3, <1>4, <2>1 DEF DeleteMessage, Fewer, Pending, Waits, Abandoned
  <1>6. CASE h.nth # message[h.message].receives /\ UNCHANGED message
    BY <1>3, <1>4, <1>6 DEF DeleteMessage, Fewer, Pending, Waits, Abandoned
  <1> QED BY <1>2, <1>5, <1>6

\* A failed handler gives its own receive another chance, ...
LEMMA PendingFails ==
    ASSUME TypeOK, NEW i \in Instances, NEW h \in hold[i], HandlerFails(i, h)
    PROVE  OneMore(h.message, h.nth) /\ Fault
  <1>0. hold \in [Instances -> SUBSET Hold]
    BY DEF TypeOK, Hold
  <1>1. /\ \A j \in Instances : hold'[j] \subseteq hold[j]
        /\ \A j \in Instances : \A g \in hold[j] : g = h \/ g \in hold'[j]
    BY <1>0 DEF HandlerFails, Drop
  <1>2. \A m \in Message, n \in Nat :
            /\ Unwritten(m, n)' => Unwritten(m, n)
            /\ InHandAs(m, n) => InHandAs(m, n)' \/ (m = h.message /\ n = h.nth)
    BY <1>1 DEF Unwritten, InHandAs
  <1> QED BY <1>2 DEF HandlerFails, OneMore, Pending, Waits, Abandoned

\* ... and a crash the one message of each queue that its handler had written.
OneMoreOf(q, x, y) ==
    \A m \in Message, n \in Nat :
        m.queue = q /\ Pending(m, n)' => Pending(m, n) \/ (m = x /\ n = y)

\* A crash hands out at most one message of a queue again, and is a failure.
LEMMA PendingCrash ==
    ASSUME TypeOK, HoldInv, NEW i \in Instances, Crash(i), NEW q \in Queue
    PROVE  (\E x, y : OneMoreOf(q, x, y)) /\ Fault
  <1>0. hold \in [Instances -> SUBSET Hold] /\ UNCHANGED message
    BY DEF TypeOK, Hold, Crash
  <1>1. hold'[i] = {} /\ \A j \in Instances : j # i => hold'[j] = hold[j]
    BY <1>0 DEF Crash
  <1>2. ASSUME NEW m \in Message, NEW n \in Nat, Pending(m, n)', ~Pending(m, n)
        PROVE  \E h \in hold[i] : h.step = "written" /\ h.message = m /\ h.nth = n
    <2>1. ~Unwritten(m, n)'
      BY <1>1, <1>2 DEF Unwritten, Pending
    <2>2. InHandAs(m, n) /\ ~InHandAs(m, n)'
      BY <1>0, <1>2, <2>1 DEF Pending, Waits, Abandoned
    <2>3. PICK h \in hold[i] : h.message = m /\ h.nth = n
      BY <1>1, <2>2 DEF InHandAs
    <2>4. h.step = "written"
      BY <1>2, <2>3 DEF Pending, Unwritten
    <2> QED BY <2>3, <2>4
  <1>3. CASE \E h \in hold[i] : h.step = "written" /\ h.message.queue = q
    <2> PICK h \in hold[i] : h.step = "written" /\ h.message.queue = q
      BY <1>3
    <2>1. OneMoreOf(q, h.message, h.nth)
      <3> SUFFICES ASSUME NEW m \in Message, NEW n \in Nat, m.queue = q, Pending(m, n)', ~Pending(m, n)
                   PROVE  m = h.message /\ n = h.nth
        BY DEF OneMoreOf
      <3>1. PICK g \in hold[i] : g.step = "written" /\ g.message = m /\ g.nth = n
        BY <1>2
      <3> QED BY <3>1 DEF HoldInv, OneUnderWay
    <2> QED BY <2>1 DEF Crash
  <1>4. CASE ~ \E h \in hold[i] : h.step = "written" /\ h.message.queue = q
    <2>1. OneMoreOf(q, 0, 0)
      BY <1>2, <1>4 DEF OneMoreOf
    <2> QED BY <2>1 DEF Crash
  <1> QED BY <1>3, <1>4

\* What a set of one element more, one element exchanged or one element less counts.
LEMMA Adds ==
    ASSUME NEW S, IsFiniteSet(S), NEW x, NEW T, T \subseteq S \cup {x}
    PROVE  Cardinality(T) <= Cardinality(S) + 1 /\ IsFiniteSet(T)
  <1>1. /\ IsFiniteSet(S \cup {x}) /\ Cardinality(S) \in Nat
        /\ Cardinality(S \cup {x}) = Cardinality(S) \/ Cardinality(S \cup {x}) = Cardinality(S) + 1
    BY FS_AddElement, FS_CardinalityType
  <1>2. /\ IsFiniteSet(T) /\ Cardinality(T) <= Cardinality(S \cup {x})
    BY <1>1, FS_Subset
  <1>3. Cardinality(T) \in Nat /\ Cardinality(S \cup {x}) \in Nat
    BY <1>1, <1>2, FS_CardinalityType
  <1> QED BY <1>1, <1>2, <1>3

\* A set that loses one at least.
LEMMA Removes ==
    ASSUME NEW S, IsFiniteSet(S), NEW x \in S, NEW T, T \subseteq S \ {x}
    PROVE  Cardinality(T) + 1 <= Cardinality(S) /\ IsFiniteSet(T)
  <1>1. /\ IsFiniteSet(S \ {x}) /\ Cardinality(S) \in Nat
        /\ Cardinality(S \ {x}) = Cardinality(S) - 1
    BY FS_RemoveElement, FS_CardinalityType
  <1>2. /\ IsFiniteSet(T) /\ Cardinality(T) <= Cardinality(S \ {x})
    BY <1>1, FS_Subset
  <1>3. Cardinality(T) \in Nat
    BY <1>2, FS_CardinalityType
  <1> QED BY <1>1, <1>2, <1>3

\* A set that trades one for one.
LEMMA Swaps ==
    ASSUME NEW S, IsFiniteSet(S), NEW x \in S, NEW y, NEW T, T \subseteq (S \ {x}) \cup {y}
    PROVE  Cardinality(T) <= Cardinality(S) /\ IsFiniteSet(T)
  <1>1. IsFiniteSet(S \ {x}) /\ Cardinality(S \ {x}) + 1 <= Cardinality(S)
    BY Removes
  <1>2. Cardinality(T) <= Cardinality(S \ {x}) + 1 /\ IsFiniteSet(T)
    BY <1>1, Adds
  <1>3. Cardinality(T) \in Nat /\ Cardinality(S) \in Nat /\ Cardinality(S \ {x}) \in Nat
    BY <1>1, <1>2, FS_CardinalityType
  <1> QED BY <1>1, <1>2, <1>3

\* The notifications of an event, the receives that may still write one of it with no
\* further failure, and the budget: the two together are one and the failures.
Msg(o, q, k) == [order |-> o, queue |-> q, copy |-> k]
ToldOf(e) == {n \in DOMAIN stored : stored[n].entry = e}
Owed(o, q) == {a \in (0..MaxCopies) \X (0..MaxReceive + 1) : Pending(Msg(o, q, a[1]), a[2])}
Budget ==
    \A o \in Orders, q \in Queue :
        Cardinality(ToldOf(EntryOf(Msg(o, q, 0)))) + Cardinality(Owed(o, q)) <= faults + 1
BudgetInv == TypeOK /\ HoldInv /\ Budget

\* What the budget counts is finite.
LEMMA OwedFinite ==
    ASSUME NEW o, NEW q
    PROVE  IsFiniteSet(Owed(o, q)) /\ Cardinality(Owed(o, q)) \in Nat
  <1>1. IsFiniteSet(0..MaxCopies) /\ IsFiniteSet(0..MaxReceive + 1)
    BY NotificationConstants, FS_Interval
  <1>2. IsFiniteSet((0..MaxCopies) \X (0..MaxReceive + 1))
    BY <1>1, FS_Product
  <1>3. Owed(o, q) \subseteq (0..MaxCopies) \X (0..MaxReceive + 1)
    BY DEF Owed
  <1> QED BY <1>2, <1>3, FS_Subset, FS_CardinalityType

\* The notifications are finitely many.
LEMMA ToldFinite ==
    ASSUME TypeOK, NEW e
    PROVE  IsFiniteSet(ToldOf(e)) /\ Cardinality(ToldOf(e)) \in Nat
  <1>1. DOMAIN stored = 1..Len(stored) /\ Len(stored) \in Nat
    BY DEF TypeOK
  <1>2. IsFiniteSet(DOMAIN stored)
    BY <1>1, FS_Interval
  <1>3. ToldOf(e) \subseteq DOMAIN stored
    BY DEF ToldOf
  <1> QED BY <1>2, <1>3, FS_Subset, FS_CardinalityType

\* The messages of an order on a queue are its copies, and tell one and the same event.
LEMMA MsgType ==
    /\ \A o \in Orders, q \in Queue, k \in 0..MaxCopies :
            /\ Msg(o, q, k) \in Message
            /\ Msg(o, q, k).order = o /\ Msg(o, q, k).queue = q /\ Msg(o, q, k).copy = k
            /\ EntryOf(Msg(o, q, k)) = EntryOf(Msg(o, q, 0))
    /\ \A m \in Message : /\ m.order \in Orders /\ m.queue \in Queue /\ m.copy \in 0..MaxCopies
                          /\ m = Msg(m.order, m.queue, m.copy)
                          /\ EntryOf(m) = EntryOf(Msg(m.order, m.queue, 0))
    /\ \A o, p \in Orders, q, r \in Queue :
            EntryOf(Msg(o, q, 0)) = EntryOf(Msg(p, r, 0)) <=> o = p /\ q = r
  BY NotificationConstants DEF Msg, Message, EntryOf, Queue

\* Every step is one of four kinds: a notification is written by a receive that is used
\* up, or none is and the receives that may write are no more, one for another, or one
\* more at the price of a failure.
Writes(i, h) == Create(i, h) /\ OneLess(h.message, h.nth) /\ UNCHANGED faults
Quiet(q) ==
    \/ Fewer /\ UNCHANGED faults
    \/ UNCHANGED faults /\ \E x \in Message, y \in 0..MaxReceive : Again(x, y)
    \/ Fault /\ \E x, y : OneMoreOf(q, x, y)

\* What a step does to one queue: it writes, quiets, hands out again, or fails.
LEMMA FourKinds ==
    ASSUME TypeOK, HoldInv, [Next]_vars, NEW q \in Queue
    PROVE  \/ \E i \in Instances : \E h \in hold[i] : Writes(i, h)
           \/ (\A e : ToldOf(e)' = ToldOf(e)) /\ Quiet(q)
  <1>0. /\ stored \in Seq(Notice)
        /\ message \in [Message -> [at : Place, receives : 0..MaxReceive]]
    BY DEF TypeOK, Notice
  <1>1. \A x, y : OneMore(x, y) => OneMoreOf(q, x, y)
    BY DEF OneMore, OneMoreOf
  <1>2. UNCHANGED stored => \A e : ToldOf(e)' = ToldOf(e)
    BY DEF ToldOf
  <1>3. ASSUME NEW x \in Message, MessageStep(x) PROVE UNCHANGED stored /\ Quiet(q)
    <2>1. message[x].receives \in 0..MaxReceive
      BY <1>0
    <2> QED BY <1>1, <1>3, <2>1, PendingMessageStep
            DEF Quiet, MessageStep, Publish, Reappear, Overdue, DeadLetter
  <1>4. ASSUME NEW i \in Instances, NEW r \in Queue, Receive(i, r) PROVE UNCHANGED stored /\ Quiet(q)
    BY <1>4, PendingReceive DEF Receive, Quiet
  <1>5. ASSUME NEW i \in Instances, NEW h \in hold[i],
               GetCustomerId(i, h) \/ DeleteMessage(i, h) \/ HandlerFails(i, h)
        PROVE  UNCHANGED stored /\ Quiet(q)
    <2>1. UNCHANGED stored
      BY <1>5 DEF GetCustomerId, DeleteMessage, HandlerFails
    <2> QED BY <1>1, <1>5, <2>1, PendingHandler, PendingDelete, PendingFails DEF Quiet
  <1>6. ASSUME NEW i \in Instances, NEW h \in hold[i], Create(i, h) PROVE Writes(i, h)
    BY <1>6, PendingHandler DEF Writes
  <1>7. ASSUME NEW i \in Instances, Crash(i) PROVE UNCHANGED stored /\ Quiet(q)
    BY <1>7, PendingCrash DEF Crash, Quiet
  <1>8. ASSUME UNCHANGED <<message, hold, faults>> PROVE Quiet(q)
    <2>1. Fewer
      BY <1>8 DEF Fewer, Pending, Waits, Abandoned, Unwritten, InHandAs
    <2> QED BY <1>8, <2>1 DEF Quiet
  <1>9. ASSUME NEW c \in Customers, NEW n \in DOMAIN stored, MarkRead(c, n)
        PROVE  (\A e : ToldOf(e)' = ToldOf(e)) /\ Quiet(q)
    <2>1. stored' = [stored EXCEPT ![n].read = TRUE] /\ UNCHANGED <<message, hold, faults>>
      BY <1>9 DEF MarkRead
    <2>2. \A k \in DOMAIN stored : stored'[k].entry = stored[k].entry
      BY StoredStays
    <2>3. DOMAIN stored' = DOMAIN stored
      BY <2>1
    <2> QED BY <1>8, <2>1, <2>2, <2>3 DEF ToldOf
  <1>10. ASSUME UNCHANGED vars
         PROVE  UNCHANGED stored /\ Quiet(q)
    BY <1>8, <1>10 DEF vars
  <1> QED BY <1>2, <1>3, <1>4, <1>5, <1>6, <1>7, <1>9, <1>10 DEF Next, ConsumerStep

\* In a quiet step the receives that may write number no more than before, or one more
\* at the price of a failure.
LEMMA QuietCounts ==
    ASSUME TypeOK, NEW o \in Orders, NEW q \in Queue, Quiet(q)
    PROVE  /\ Cardinality(Owed(o, q)') \in Nat
           /\ Cardinality(Owed(o, q)') + faults <= Cardinality(Owed(o, q)) + faults'
  <1> DEFINE S == Owed(o, q)
  <1> DEFINE T == Owed(o, q)'
  <1>0. /\ faults \in Nat /\ IsFiniteSet(S) /\ Cardinality(S) \in Nat
        /\ MaxReceive \in Nat /\ 0..MaxReceive \subseteq Nat /\ 0..MaxReceive + 1 \subseteq Nat
    BY OwedFinite, NotificationConstants DEF TypeOK
  <1>1. T = {a \in (0..MaxCopies) \X (0..MaxReceive + 1) : Pending(Msg(o, q, a[1]), a[2])'}
    BY DEF Owed, Msg
  <1>2. CASE Fewer /\ UNCHANGED faults
    <2>1. T \subseteq S
      BY <1>0, <1>1, <1>2, MsgType DEF Fewer, Owed
    <2>2. Cardinality(T) <= Cardinality(S) /\ IsFiniteSet(T)
      BY <1>0, <2>1, FS_Subset
    <2>3. Cardinality(T) \in Nat
      BY <2>2, FS_CardinalityType
    <2> QED BY <1>0, <1>2, <2>2, <2>3
  <1>3. CASE UNCHANGED faults /\ \E x \in Message, y \in 0..MaxReceive : Again(x, y)
    <2> PICK x \in Message, y \in 0..MaxReceive : Again(x, y)
      BY <1>3
    <2>1. x.copy \in 0..MaxCopies /\ y \in Nat
      BY <1>0, MsgType
    <2>2. CASE x = Msg(o, q, x.copy)
      <3>1. <<x.copy, y>> \in S
        BY <1>0, <2>1, <2>2 DEF Again, Owed
      <3>2. T \subseteq (S \ {<<x.copy, y>>}) \cup {<<x.copy, y + 1>>}
        <4> SUFFICES ASSUME NEW a \in T, a # <<x.copy, y + 1>> PROVE a \in S \ {<<x.copy, y>>}
          OBVIOUS
        <4>1. /\ a \in (0..MaxCopies) \X (0..MaxReceive + 1) /\ a[2] \in Nat
              /\ Pending(Msg(o, q, a[1]), a[2])' /\ Msg(o, q, a[1]) \in Message
              /\ Msg(o, q, a[1]).copy = a[1]
          BY <1>0, <1>1, MsgType
        <4>2. ~(Msg(o, q, a[1]) = x /\ a[2] = y + 1)
          BY <4>1
        <4>3. Pending(Msg(o, q, a[1]), a[2]) /\ ~(Msg(o, q, a[1]) = x /\ a[2] = y)
          BY <4>1, <4>2 DEF Again
        <4>4. a # <<x.copy, y>>
          BY <2>2, <4>3
        <4> QED BY <4>1, <4>3, <4>4 DEF Owed
      <3>3. Cardinality(T) <= Cardinality(S) /\ IsFiniteSet(T)
        BY <1>0, <3>1, <3>2, Swaps
      <3>4. Cardinality(T) \in Nat
        BY <3>3, FS_CardinalityType
      <3> QED BY <1>0, <1>3, <3>3, <3>4
    <2>3. CASE x # Msg(o, q, x.copy)
      <3>1. T \subseteq S
        <4> SUFFICES ASSUME NEW a \in T PROVE a \in S
          OBVIOUS
        <4>1. /\ a \in (0..MaxCopies) \X (0..MaxReceive + 1) /\ a[2] \in Nat
              /\ Pending(Msg(o, q, a[1]), a[2])' /\ Msg(o, q, a[1]) \in Message
              /\ Msg(o, q, a[1]).copy = a[1]
          BY <1>0, <1>1, MsgType
        <4>2. Msg(o, q, a[1]) # x
          BY <2>3, <4>1
        <4> QED BY <4>1, <4>2 DEF Again, Owed
      <3>2. Cardinality(T) <= Cardinality(S) /\ IsFiniteSet(T)
        BY <1>0, <3>1, FS_Subset
      <3>3. Cardinality(T) \in Nat
        BY <3>2, FS_CardinalityType
      <3> QED BY <1>0, <1>3, <3>2, <3>3
    <2> QED BY <2>2, <2>3
  <1>4. CASE Fault /\ \E x, y : OneMoreOf(q, x, y)
    <2> PICK x, y : OneMoreOf(q, x, y)
      BY <1>4
    <2>1. T \subseteq S \cup {<<x.copy, y>>}
      <3> SUFFICES ASSUME NEW a \in T, a # <<x.copy, y>> PROVE a \in S
        OBVIOUS
      <3>1. /\ a \in (0..MaxCopies) \X (0..MaxReceive + 1) /\ a[2] \in Nat
            /\ Pending(Msg(o, q, a[1]), a[2])' /\ Msg(o, q, a[1]) \in Message
            /\ Msg(o, q, a[1]).copy = a[1] /\ Msg(o, q, a[1]).queue = q
            /\ a = <<a[1], a[2]>>
        BY <1>0, <1>1, MsgType
      <3>2. ~(Msg(o, q, a[1]) = x /\ a[2] = y)
        BY <3>1
      <3>3. Pending(Msg(o, q, a[1]), a[2])
        BY <3>1, <3>2 DEF OneMoreOf
      <3> QED BY <3>1, <3>3 DEF Owed
    <2>2. Cardinality(T) <= Cardinality(S) + 1 /\ IsFiniteSet(T)
      BY <1>0, <2>1, Adds
    <2>3. Cardinality(T) \in Nat
      BY <2>2, FS_CardinalityType
    <2> QED BY <1>0, <1>4, <2>2, <2>3 DEF Fault
  <1> QED BY <1>2, <1>3, <1>4 DEF Quiet

\* The write of a notification is paid for by the receive that wrote it.
LEMMA WriteCounts ==
    ASSUME TypeOK, NEW i \in Instances, NEW h \in hold[i], Writes(i, h),
           NEW o \in Orders, NEW q \in Queue, NEW e, e = EntryOf(Msg(o, q, 0))
    PROVE  /\ Cardinality(ToldOf(e)') \in Nat /\ Cardinality(Owed(o, q)') \in Nat
           /\ Cardinality(ToldOf(e)') + Cardinality(Owed(o, q)')
                <= Cardinality(ToldOf(e)) + Cardinality(Owed(o, q))
  <1> DEFINE S == Owed(o, q)
  <1> DEFINE T == Owed(o, q)'
  <1> DEFINE A == ToldOf(e)
  <1> DEFINE B == ToldOf(e)'
  <1>0. /\ IsFiniteSet(S) /\ Cardinality(S) \in Nat /\ IsFiniteSet(A) /\ Cardinality(A) \in Nat
        /\ MaxReceive \in Nat /\ 0..MaxReceive + 1 \subseteq Nat
        /\ stored \in Seq(Notice) /\ h \in Hold /\ h.message \in Message /\ h.nth \in 1..MaxReceive
        /\ stored' = Append(stored, Notification(h.message))
    BY OwedFinite, ToldFinite, NotificationConstants DEF TypeOK, Hold, Notice, Writes, Create, Stored
  <1>1. /\ T = {a \in (0..MaxCopies) \X (0..MaxReceive + 1) : Pending(Msg(o, q, a[1]), a[2])'}
        /\ B = {n \in DOMAIN stored' : stored'[n].entry = e}
    BY DEF Owed, Msg, ToldOf
  <1>2. \A a \in T : /\ a \in (0..MaxCopies) \X (0..MaxReceive + 1) /\ a[2] \in Nat
                     /\ Pending(Msg(o, q, a[1]), a[2])' /\ Msg(o, q, a[1]) \in Message
    BY <1>0, <1>1, MsgType
  <1>3. T \subseteq S
    BY <1>2 DEF Writes, OneLess, Owed
  <1>4. /\ DOMAIN stored' = DOMAIN stored \cup {Len(stored) + 1} /\ Len(stored) + 1 \notin DOMAIN stored
        /\ \A n \in DOMAIN stored : stored'[n] = stored[n]
        /\ stored'[Len(stored) + 1].entry = EntryOf(h.message)
    BY <1>0, NoticeType, StoredType
  <1>5. CASE h.message.order = o /\ h.message.queue = q
    <2>1. B \subseteq A \cup {Len(stored) + 1}
      BY <1>1, <1>4 DEF ToldOf
    <2>2. Cardinality(B) <= Cardinality(A) + 1 /\ IsFiniteSet(B)
      BY <1>0, <2>1, Adds
    <2> DEFINE x == <<h.message.copy, h.nth>>
    <2>3. h.message = Msg(o, q, h.message.copy) /\ h.message.copy \in 0..MaxCopies
      BY <1>0, <1>5, MsgType
    <2>4. x \in S
      <3>1. h.nth \in 0..MaxReceive + 1 /\ Pending(h.message, h.nth)
        BY <1>0 DEF Writes, OneLess
      <3> QED BY <2>3, <3>1 DEF Owed
    <2>5. x \notin T
      <3> SUFFICES ASSUME x \in T PROVE FALSE
        OBVIOUS
      <3>1. Pending(h.message, h.nth)'
        <4>1. Pending(Msg(o, q, x[1]), x[2])'
          BY <1>2
        <4>2. Msg(o, q, x[1]) = h.message /\ x[2] = h.nth
          BY <2>3
        <4> QED BY <4>1, <4>2 DEF Pending, Waits, Abandoned, Unwritten, InHandAs
      <3> QED BY <1>0, <3>1 DEF Writes, OneLess
    <2>6. Cardinality(T) + 1 <= Cardinality(S) /\ IsFiniteSet(T)
      <3>1. T \subseteq S \ {x}
        BY <1>3, <2>5
      <3> HIDE DEF x
      <3> QED BY <1>0, <2>4, <3>1, Removes
    <2>7. Cardinality(T) \in Nat /\ Cardinality(B) \in Nat
      BY <2>2, <2>6, FS_CardinalityType
    <2> QED BY <1>0, <2>2, <2>6, <2>7
  <1>6. CASE ~(h.message.order = o /\ h.message.queue = q)
    <2>1. EntryOf(h.message) # e
      BY <1>0, <1>6, MsgType
    <2>2. B = A
      BY <1>1, <1>4, <2>1 DEF ToldOf
    <2>3. Cardinality(T) <= Cardinality(S) /\ IsFiniteSet(T)
      BY <1>0, <1>3, FS_Subset
    <2>4. Cardinality(T) \in Nat
      BY <2>3, FS_CardinalityType
    <2> QED BY <1>0, <2>2, <2>3, <2>4
  <1> QED BY <1>5, <1>6

\* Every step keeps within the budget, and nothing is told at first.
LEMMA BudgetStep ==
    ASSUME BudgetInv, [Next]_vars
    PROVE  BudgetInv'
  <1>0. TypeOK /\ HoldInv /\ Budget /\ TypeOK' /\ HoldInv'
    BY TypeStep, HoldStep DEF BudgetInv
  <1>1. ASSUME NEW o \in Orders, NEW q \in Queue
        PROVE  Cardinality(ToldOf(EntryOf(Msg(o, q, 0))))' + Cardinality(Owed(o, q))' <= faults' + 1
    <2> DEFINE e == EntryOf(Msg(o, q, 0))
    <2>1. /\ faults \in Nat /\ faults' \in Nat
          /\ Cardinality(ToldOf(e)) \in Nat /\ Cardinality(Owed(o, q)) \in Nat
          /\ Cardinality(ToldOf(e)) + Cardinality(Owed(o, q)) <= faults + 1
      BY <1>0, OwedFinite, ToldFinite, NotificationConstants DEF TypeOK, Budget
    <2>2. (Cardinality(ToldOf(e)))' = Cardinality(ToldOf(e)') /\ Cardinality(Owed(o, q))' = Cardinality(Owed(o, q)')
      BY DEF EntryOf, Msg, ToldOf, Owed
    <2>3. CASE \E i \in Instances : \E h \in hold[i] : Writes(i, h)
      <3> PICK i \in Instances : \E h \in hold[i] : Writes(i, h)
        BY <2>3
      <3> PICK h \in hold[i] : Writes(i, h)
        OBVIOUS
      <3>1. faults' = faults
        BY DEF Writes
      <3> QED BY <1>0, <2>1, <2>2, <3>1, WriteCounts
    <2>4. CASE ToldOf(e)' = ToldOf(e) /\ Quiet(q)
      BY <1>0, <2>1, <2>2, <2>4, QuietCounts
    <2> QED BY <1>0, <2>3, <2>4, FourKinds
  <1> QED BY <1>0, <1>1 DEF BudgetInv, Budget

\* Nothing is told yet, and each event is owed once.
LEMMA BudgetInit == Init => BudgetInv
  <1> SUFFICES ASSUME Init PROVE BudgetInv
    OBVIOUS
  <1>1. TypeOK /\ HoldInv
    BY TypeInit DEF Init, HoldInv, OneReceiver, Counted, OneUnderWay
  <1>2. ASSUME NEW o \in Orders, NEW q \in Queue
        PROVE  Cardinality(ToldOf(EntryOf(Msg(o, q, 0)))) + Cardinality(Owed(o, q)) <= faults + 1
    <2>1. ToldOf(EntryOf(Msg(o, q, 0))) = {}
      BY DEF Init, ToldOf
    <2>2. Owed(o, q) \subseteq {} \cup {<<0, 1>>}
      BY MsgType DEF Init, Owed, Pending, Waits, Abandoned, Unwritten
    <2>3. Cardinality({}) = 0 /\ IsFiniteSet({})
      BY FS_EmptySet
    <2> DEFINE S == Owed(o, q)
    <2> DEFINE A == ToldOf(EntryOf(Msg(o, q, 0)))
    <2>4. Cardinality(S) \in Nat /\ faults = 0 /\ Cardinality(A) = 0
      BY <2>1, <2>3, OwedFinite DEF Init
    <2> HIDE DEF S, A
    <2>5. Cardinality(S) <= Cardinality({}) + 1
      <3> DEFINE E == {}
      <3>1. S \subseteq E \cup {<<0, 1>>} /\ IsFiniteSet(E)
        BY <2>2, <2>3 DEF S
      <3>2. Cardinality(S) <= Cardinality(E) + 1
        <4> HIDE DEF E
        <4> QED BY <3>1, Adds
      <3> QED BY <3>2
    <2>6. Cardinality(A) + Cardinality(S) <= faults + 1
      BY <2>3, <2>4, <2>5
    <2> QED BY <2>6 DEF S, A
  <1> QED BY <1>1, <1>2 DEF BudgetInv, Budget

\* However often messages are sent and received, by however many instances, the
\* notifications of an event are at most one more than the failures so far.
THEOREM RepeatsArePaidFor == Spec => []DuplicatesAreFailures
  <1>1. BudgetInv => DuplicatesAreFailures
    <2> SUFFICES ASSUME BudgetInv, NEW m \in Message PROVE Cardinality(Told(m)) <= faults + 1
      BY DEF DuplicatesAreFailures
    <2>1. /\ m.order \in Orders /\ m.queue \in Queue
          /\ Told(m) = ToldOf(EntryOf(Msg(m.order, m.queue, 0)))
      BY MsgType DEF Told, ToldOf
    <2>2. /\ faults \in Nat /\ Cardinality(Owed(m.order, m.queue)) \in Nat
          /\ Cardinality(Told(m)) \in Nat
      BY <2>1, OwedFinite, ToldFinite, NotificationConstants DEF BudgetInv, TypeOK
    <2> QED BY <2>1, <2>2 DEF BudgetInv, Budget
  <1> QED BY <1>1, BudgetInit, BudgetStep, PTL DEF Spec

-----------------------------------------------------------------------------
(* ImplementsInbox: what a customer lists only grows, and what is read     *)
(* stays read.                                                             *)

\* The numbers of a finite set have the ranks from one to its size, each number one.
LEMMA RanksCount ==
    ASSUME NEW S \in SUBSET Nat, IsFiniteSet(S)
    PROVE  /\ Cardinality(S) \in Nat
           /\ \A n \in S : Rank(S, n) \in 1..Cardinality(S)
           /\ \A m, n \in S : Rank(S, m) = Rank(S, n) => m = n
           /\ \A k \in 1..Cardinality(S) : \E n \in S : Rank(S, n) = k
  <1> DEFINE Below(n) == {k \in S : k <= n}
  <1> DEFINE N == Cardinality(S)
  <1> DEFINE rank == [n \in S |-> Rank(S, n)]
  <1>1. N \in Nat
    BY FS_CardinalityType
  <1>2. \A n \in S : /\ Rank(S, n) = Cardinality(Below(n))
                     /\ IsFiniteSet(Below(n)) /\ Rank(S, n) \in Nat /\ Rank(S, n) <= N
    <2> SUFFICES ASSUME NEW n \in S
                 PROVE  /\ Rank(S, n) = Cardinality(Below(n))
                        /\ IsFiniteSet(Below(n)) /\ Rank(S, n) \in Nat /\ Rank(S, n) <= N
      OBVIOUS
    <2>1. Below(n) \in SUBSET S
      OBVIOUS
    <2>2. Rank(S, n) = Cardinality(Below(n))
      BY DEF Rank
    <2> QED BY <2>1, <2>2, FS_Subset, FS_CardinalityType
  <1>3. \A n \in S : Rank(S, n) \in 1..N
    <2> SUFFICES ASSUME NEW n \in S, Rank(S, n) = 0 PROVE FALSE
      <3> HIDE DEF Below, N
      <3> QED BY <1>1, <1>2
    <2>1. Below(n) = {}
      BY <1>2, FS_EmptySet
    <2>2. n \in Below(n)
      OBVIOUS
    <2> QED BY <2>1, <2>2
  <1>4. \A m, n \in S : m < n => Rank(S, m) < Rank(S, n)
    <2> SUFFICES ASSUME NEW m \in S, NEW n \in S, m < n PROVE Rank(S, m) < Rank(S, n)
      OBVIOUS
    <2>1. m \in Nat /\ n \in Nat /\ \A k \in Below(m) : k \in Nat /\ k <= n
      OBVIOUS
    <2>2. Below(m) \in SUBSET Below(n)
      BY <2>1
    <2>3. n \in Below(n) /\ n \notin Below(m)
      BY <2>1
    <2>4. /\ Cardinality(Below(m)) <= Cardinality(Below(n))
          /\ Cardinality(Below(m)) # Cardinality(Below(n))
      BY <1>2, <2>2, <2>3, FS_Subset
    <2> QED BY <1>2, <2>4
  <1>5. \A m, n \in S : Rank(S, m) = Rank(S, n) => m = n
    <2> SUFFICES ASSUME NEW m \in S, NEW n \in S, Rank(S, m) = Rank(S, n), m # n PROVE FALSE
      OBVIOUS
    <2>1. m < n \/ n < m
      OBVIOUS
    <2> HIDE DEF Below, N
    <2> QED BY <1>2, <1>4, <2>1
  <1>6. rank \in Injection(S, 1..N)
    <2>1. rank \in [S -> 1..N]
      BY <1>3
    <2>2. \A m, n \in S : rank[m] = rank[n] => m = n
      BY <1>5
    <2> QED BY <2>1, <2>2 DEF Injection, IsInjective
  <1>7. rank \in Surjection(S, 1..N)
    <2>1. 0 \in Int /\ 1 \in Int /\ N \in Int
      BY <1>1
    <2>2. IsFiniteSet(1..N) /\ Cardinality(1..N) = N
      <3> HIDE DEF N
      <3> QED BY <1>1, <2>1, FS_Interval
    <2> HIDE DEF rank
    <2> QED BY <1>6, <2>2, FS_Injection
  <1>8. \A k \in 1..N : \E n \in S : Rank(S, n) = k
    BY <1>7 DEF Surjection
  <1> QED BY <1>1, <1>3, <1>5, <1>8

\* The k-th smallest number is the one of rank k.
LEMMA NthType ==
    ASSUME NEW S \in SUBSET Nat, IsFiniteSet(S), NEW k \in 1..Cardinality(S)
    PROVE  /\ Nth(S, k) \in S /\ Rank(S, Nth(S, k)) = k
           /\ \A n \in S : Rank(S, n) = k => n = Nth(S, k)
  <1>1. \E n \in S : Rank(S, n) = k
    BY RanksCount
  <1>2. Nth(S, k) \in S /\ Rank(S, Nth(S, k)) = k
    BY <1>1 DEF Nth
  <1>3. \A m, n \in S : Rank(S, m) = Rank(S, n) => m = n
    BY RanksCount
  <1> QED BY <1>2, <1>3

\* A number larger than all others becomes the last one and leaves them their places.
LEMMA NthGrows ==
    ASSUME NEW S \in SUBSET Nat, IsFiniteSet(S), NEW z \in Nat, \A n \in S : n < z
    PROVE  /\ Cardinality(S \cup {z}) = Cardinality(S) + 1
           /\ \A k \in 1..Cardinality(S) : Nth(S \cup {z}, k) = Nth(S, k)
           /\ Nth(S \cup {z}, Cardinality(S) + 1) = z
  <1> DEFINE T == S \cup {z}
  <1>0. z \notin S /\ Cardinality(S) \in Nat
    BY FS_CardinalityType
  <1>1. T \in SUBSET Nat /\ IsFiniteSet(T) /\ Cardinality(T) = Cardinality(S) + 1
    BY <1>0, FS_AddElement
  <1>2. \A n \in S : Rank(T, n) = Rank(S, n)
    <2> SUFFICES ASSUME NEW n \in S PROVE {k \in T : k <= n} = {k \in S : k <= n}
      BY DEF Rank
    <2>1. n \in Nat /\ n < z
      OBVIOUS
    <2> QED BY <2>1
  <1>3. Rank(T, z) = Cardinality(S) + 1
    <2>1. \A k \in T : k \in Nat /\ k <= z
      OBVIOUS
    <2>2. {k \in T : k <= z} = T
      BY <2>1
    <2> QED BY <1>1, <2>2 DEF Rank
  <1>4. ASSUME NEW k \in 1..Cardinality(S) PROVE Nth(T, k) = Nth(S, k)
    <2>1. Nth(S, k) \in S /\ Rank(S, Nth(S, k)) = k
      BY NthType
    <2>2. Nth(S, k) \in T /\ Rank(T, Nth(S, k)) = k
      BY <1>2, <2>1
    <2>3. k \in 1..Cardinality(T)
      <3> HIDE DEF T
      <3> QED BY <1>0, <1>1
    <2> HIDE DEF T
    <2>4. \A n \in T : Rank(T, n) = k => n = Nth(T, k)
      BY <1>1, <2>3, NthType
    <2> QED BY <2>2, <2>4
  <1>5. Nth(T, Cardinality(S) + 1) = z
    <2>1. z \in T /\ Cardinality(S) + 1 \in 1..Cardinality(T)
      BY <1>0, <1>1
    <2> HIDE DEF T
    <2> QED BY <1>1, <1>3, <2>1, NthType
  <1> QED BY <1>1, <1>4, <1>5

\* A customer's notifications are finitely many places of the collection.
LEMMA TheirsType ==
    ASSUME stored \in Seq(Notice), NEW c
    PROVE  /\ Theirs(c) \in SUBSET Nat /\ IsFiniteSet(Theirs(c)) /\ Cardinality(Theirs(c)) \in Nat
           /\ \A n \in Theirs(c) : n \in DOMAIN stored /\ n < Len(stored) + 1
  <1>1. DOMAIN stored = 1..Len(stored) /\ Len(stored) \in Nat
    OBVIOUS
  <1>2. IsFiniteSet(1..Len(stored))
    <2> DEFINE len == Len(stored)
    <2>1. 0 \in Int /\ 1 \in Int /\ len \in Int
      BY <1>1
    <2> HIDE DEF len
    <2>2. IsFiniteSet(1..len)
      BY <2>1, FS_Interval
    <2> QED BY <2>2 DEF len
  <1>3. Theirs(c) \in SUBSET (1..Len(stored))
    BY <1>1 DEF Theirs
  <1>4. IsFiniteSet(Theirs(c))
    BY <1>2, <1>3, FS_Subset
  <1>5. \A n \in Theirs(c) : n \in DOMAIN stored /\ n \in Nat /\ n < Len(stored) + 1
    BY <1>1, <1>3
  <1> QED BY <1>4, <1>5, FS_CardinalityType

\* What the k-th entry of a customer's list shows, before a step and after it.
LEMMA ListedEntries ==
    ASSUME NEW c
    PROVE  /\ Listed(c) = [k \in 1..Cardinality(Theirs(c)) |->
                              [entry |-> stored[Nth(Theirs(c), k)].entry,
                               read |-> stored[Nth(Theirs(c), k)].read]]
           /\ Listed(c)' = [k \in 1..Cardinality(Theirs(c)') |->
                              [entry |-> stored'[Nth(Theirs(c)', k)].entry,
                               read |-> stored'[Nth(Theirs(c)', k)].read]]
  BY DEF Listed, Nth, Rank

\* A list whose notifications stay as they are stays as it is.
LEMMA ListedStays ==
    ASSUME stored \in Seq(Notice), NEW c, Theirs(c)' = Theirs(c),
           \A n \in Theirs(c) : stored'[n] = stored[n]
    PROVE  Listed(c)' = Listed(c)
  <1> DEFINE S == Theirs(c)
  <1>1. S \in SUBSET Nat /\ IsFiniteSet(S)
    BY TheirsType
  <1>2. \A k \in 1..Cardinality(S) : Nth(S, k) \in S
    <2> HIDE DEF S
    <2> QED BY <1>1, NthType
  <1>3. \A k \in 1..Cardinality(S) : stored'[Nth(S, k)] = stored[Nth(S, k)]
    BY <1>2
  <1>4. /\ Listed(c)' = [k \in 1..Cardinality(S) |-> [entry |-> stored'[Nth(S, k)].entry,
                                                    read |-> stored'[Nth(S, k)].read]]
        /\ Listed(c) = [k \in 1..Cardinality(S) |-> [entry |-> stored[Nth(S, k)].entry,
                                                   read |-> stored[Nth(S, k)].read]]
    BY ListedEntries
  <1> HIDE DEF S
  <1> QED BY <1>3, <1>4

\* A notification of a customer becomes the last entry of the list.
LEMMA ListedGrows ==
    ASSUME stored \in Seq(Notice), NEW x \in Notice, stored' = Append(stored, x), NEW c,
           x.user = Sub(c), x.read = FALSE
    PROVE  Listed(c)' = Append(Listed(c), Promise!Unread(x.entry))
  <1> DEFINE S == Theirs(c)
  <1> DEFINE z == Len(stored) + 1
  <1>1. /\ S \in SUBSET Nat /\ IsFiniteSet(S) /\ Cardinality(S) \in Nat
        /\ \A n \in S : n \in DOMAIN stored /\ n < z
    BY TheirsType
  <1>2. /\ DOMAIN stored' = DOMAIN stored \cup {z} /\ z \in Nat
        /\ \A n \in DOMAIN stored : stored'[n] = stored[n]
        /\ stored'[z] = x
    BY StoredType
  <1>3. Theirs(c)' = S \cup {z}
    BY <1>2 DEF Theirs, Matches, Sub
  <1> HIDE DEF z
  <1>4. /\ Cardinality(S \cup {z}) = Cardinality(S) + 1
        /\ \A k \in 1..Cardinality(S) : Nth(S \cup {z}, k) = Nth(S, k)
        /\ Nth(S \cup {z}, Cardinality(S) + 1) = z
    <2> HIDE DEF S
    <2> QED BY <1>1, <1>2, NthGrows
  <1>5. \A k \in 1..Cardinality(S) : Nth(S, k) \in S
    <2> HIDE DEF S
    <2> QED BY <1>1, NthType
  <1> DEFINE size == Cardinality(S)
  <1> DEFINE list == Listed(c)
  <1> DEFINE grown == Listed(c)'
  <1>6. /\ grown = [k \in 1..size + 1 |-> [entry |-> stored'[Nth(S \cup {z}, k)].entry,
                                            read |-> stored'[Nth(S \cup {z}, k)].read]]
        /\ list = [k \in 1..size |-> [entry |-> stored[Nth(S, k)].entry,
                                      read |-> stored[Nth(S, k)].read]]
    <2> DEFINE T == Theirs(c)'
    <2>1. T = S \cup {z} /\ Cardinality(T) = size + 1
      BY <1>3, <1>4
    <2>2. grown = [k \in 1..Cardinality(T) |-> [entry |-> stored'[Nth(T, k)].entry,
                                                 read |-> stored'[Nth(T, k)].read]]
      BY ListedEntries
    <2>3. list = [k \in 1..size |-> [entry |-> stored[Nth(S, k)].entry,
                                      read |-> stored[Nth(S, k)].read]]
      BY ListedEntries
    <2> HIDE DEF T, S, size, list, grown
    <2> QED BY <2>1, <2>2, <2>3
  <1>7. \A k \in 1..size : grown[k] = list[k]
    <2> SUFFICES ASSUME NEW k \in 1..size PROVE grown[k] = list[k]
      OBVIOUS
    <2>1. Nth(S \cup {z}, k) = Nth(S, k) /\ stored'[Nth(S, k)] = stored[Nth(S, k)]
      BY <1>1, <1>2, <1>4, <1>5
    <2>2. k \in 1..size + 1
      BY <1>1
    <2> HIDE DEF S, list, grown, size
    <2> QED BY <1>6, <2>1, <2>2
  <1>8. grown[size + 1] = Promise!Unread(x.entry)
    <2>1. size + 1 \in 1..size + 1
      BY <1>1
    <2>2. stored'[Nth(S \cup {z}, size + 1)] = x
      BY <1>2, <1>4
    <2> HIDE DEF S, list, grown, size
    <2> QED BY <1>6, <2>1, <2>2 DEF Promise!Unread
  <1> DEFINE Some == {list[k] : k \in 1..size}
  <1>9. size \in Nat /\ list \in Seq(Some) /\ Len(list) = size
    <2>1. size \in Nat
      BY <1>1
    <2>2. list = [k \in 1..size |-> list[k]]
      BY <1>6
    <2> HIDE DEF S, grown, size, list
    <2>3. list \in [1..size -> Some]
      BY <2>2
    <2> HIDE DEF Some
    <2> QED BY <2>1, <2>3
  <1>10. grown = Append(list, Promise!Unread(x.entry))
    <2> DEFINE u == Promise!Unread(x.entry)
    <2>1. DOMAIN grown = 1..size + 1 /\ grown = [k \in 1..size + 1 |-> grown[k]]
      BY <1>6
    <2>2. Append(list, u) = [k \in 1..size + 1 |-> IF k = size + 1 THEN u ELSE list[k]]
      <3> HIDE DEF S, list, grown, size, u, Some
      <3> DEFINE longer == Append(list, u)
      <3>1. list \in Seq(Some \cup {u})
        BY <1>9
      <3>2. /\ longer \in Seq(Some \cup {u}) /\ Len(longer) = size + 1
            /\ longer[size + 1] = u /\ \A k \in 1..size : longer[k] = list[k]
        BY <1>9, <3>1, Seqs!AppendProperties
      <3> HIDE DEF longer
      <3>3. longer = [k \in 1..size + 1 |-> longer[k]]
        BY <3>2
      <3>4. \A k \in 1..size + 1 : longer[k] = IF k = size + 1 THEN u ELSE list[k]
        BY <1>9, <3>2
      <3> QED BY <3>3, <3>4 DEF longer
    <2> HIDE DEF S, list, grown, size, u
    <2>3. \A k \in 1..size + 1 : grown[k] = IF k = size + 1 THEN u ELSE list[k]
      BY <1>7, <1>8, <1>9 DEF u
    <2>4. Append(list, u) = [k \in 1..size + 1 |-> grown[k]]
      BY <2>2, <2>3
    <2> QED BY <2>1, <2>4 DEF u
  <1> QED BY <1>10

\* A read notification is read at its place in its customer's list.
LEMMA ListedRead ==
    ASSUME stored \in Seq(Notice), NEW c, NEW n \in Theirs(c),
           stored' = [stored EXCEPT ![n].read = TRUE]
    PROVE  \E k \in DOMAIN Listed(c) : Listed(c)' = [Listed(c) EXCEPT ![k].read = TRUE]
  <1> DEFINE S == Theirs(c)
  <1> DEFINE r == Rank(S, n)
  <1>1. /\ S \in SUBSET Nat /\ IsFiniteSet(S) /\ Cardinality(S) \in Nat
        /\ \A m \in S : m \in DOMAIN stored
    BY TheirsType
  <1>2. r \in 1..Cardinality(S) /\ Nth(S, r) = n
    <2> n \in S
      OBVIOUS
    <2> HIDE DEF S
    <2>1. r \in 1..Cardinality(S)
      BY <1>1, RanksCount
    <2>2. \A m \in S : Rank(S, m) = r => m = Nth(S, r)
      BY <1>1, <2>1, NthType
    <2> QED BY <2>1, <2>2
  <1>3. \A k \in 1..Cardinality(S) : Nth(S, k) \in S /\ (k # r => Nth(S, k) # n)
    <2> HIDE DEF S
    <2>1. \A k \in 1..Cardinality(S) : Nth(S, k) \in S /\ Rank(S, Nth(S, k)) = k
      BY <1>1, NthType
    <2> QED BY <2>1
  <1>4. /\ \A m \in DOMAIN stored \ {n} : stored'[m] = stored[m]
        /\ stored'[n].entry = stored[n].entry /\ stored'[n].read = TRUE
        /\ DOMAIN stored' = DOMAIN stored
        /\ \A m \in DOMAIN stored : stored'[m].user = stored[m].user
    <2>1. n \in DOMAIN stored /\ stored[n] \in Notice
      BY <1>1
    <2>2. stored[n] = [user |-> stored[n].user, entry |-> stored[n].entry, read |-> stored[n].read]
      BY <2>1 DEF Notice
    <2> QED BY <2>1, <2>2
  <1>5. Theirs(c)' = S
    BY <1>4 DEF Theirs, Matches, Sub
  <1> DEFINE list == Listed(c)
  <1> DEFINE marked == Listed(c)'
  <1> DEFINE size == Cardinality(S)
  <1>6. /\ marked = [k \in 1..size |-> [entry |-> stored'[Nth(S, k)].entry,
                                        read |-> stored'[Nth(S, k)].read]]
        /\ list = [k \in 1..size |-> [entry |-> stored[Nth(S, k)].entry,
                                      read |-> stored[Nth(S, k)].read]]
    <2>1. marked = [k \in 1..Cardinality(Theirs(c)') |->
                      [entry |-> stored'[Nth(Theirs(c)', k)].entry,
                       read |-> stored'[Nth(Theirs(c)', k)].read]]
      BY ListedEntries
    <2>2. list = [k \in 1..size |-> [entry |-> stored[Nth(S, k)].entry,
                                     read |-> stored[Nth(S, k)].read]]
      BY ListedEntries
    <2> HIDE DEF marked, list
    <2> QED BY <1>5, <2>1, <2>2
  <1>7. \A k \in 1..size : marked[k] = IF k = r THEN [list[k] EXCEPT !.read = TRUE] ELSE list[k]
    <2> SUFFICES ASSUME NEW k \in 1..size
                 PROVE  marked[k] = IF k = r THEN [list[k] EXCEPT !.read = TRUE] ELSE list[k]
      OBVIOUS
    <2>1. /\ marked[k] = [entry |-> stored'[Nth(S, k)].entry, read |-> stored'[Nth(S, k)].read]
          /\ list[k] = [entry |-> stored[Nth(S, k)].entry, read |-> stored[Nth(S, k)].read]
      BY <1>6
    <2>2. CASE k = r
      <3>1. Nth(S, k) = n
        BY <1>2, <2>2
      <3> DEFINE entry == stored[n].entry
      <3> DEFINE read == stored[n].read
      <3>2. marked[k] = [entry |-> entry, read |-> TRUE]
        BY <1>4, <2>1, <3>1
      <3>3. list[k] = [entry |-> entry, read |-> read]
        BY <2>1, <3>1
      <3>4. [list[k] EXCEPT !.read = TRUE] = [entry |-> entry, read |-> TRUE]
        <4> DEFINE item == list[k]
        <4> DEFINE after == [item EXCEPT !.read = TRUE]
        <4>1. stored[n] \in Notice
          BY <1>1
        <4>2. entry \in Entry /\ read \in BOOLEAN
          BY <4>1 DEF Notice
        <4>3. item = [entry |-> entry, read |-> read]
          BY <3>3
        <4> HIDE DEF S, list, marked, size, r, entry, read, item
        <4>4. item \in [entry : Entry, read : BOOLEAN] /\ item.entry = entry
          BY <4>2, <4>3
        <4>5. after \in [entry : Entry, read : BOOLEAN] /\ after.entry = entry /\ after.read = TRUE
          BY <4>4
        <4> HIDE DEF after
        <4>6. after = [entry |-> after.entry, read |-> after.read]
          BY <4>5
        <4>7. after = [entry |-> entry, read |-> TRUE]
          BY <4>5, <4>6, Zenon
        <4> QED BY <4>7, Zenon DEF after, item
      <3> HIDE DEF S, list, marked, size, r
      <3> QED BY <2>2, <3>2, <3>4
    <2>3. CASE k # r
      BY <1>1, <1>3, <1>4, <2>1, <2>3
    <2> QED BY <2>2, <2>3
  <1>8. r \in DOMAIN list /\ DOMAIN list = 1..size /\ DOMAIN marked = 1..size
    BY <1>2, <1>6
  <1>9. marked = [list EXCEPT ![r].read = TRUE]
    <2>1. marked = [k \in 1..size |-> marked[k]] /\ list = [k \in 1..size |-> list[k]]
      BY <1>6
    <2> HIDE DEF list, marked, size, r, S
    <2> QED BY <1>7, <1>8, <2>1
  <1> QED BY <1>8, <1>9

\* At first every list is empty.
LEMMA InboxInit == Init => Promise!Init
  <1> SUFFICES ASSUME Init, NEW c \in Customers PROVE Listed(c) = <<>>
    BY DEF Promise!Init
  <1>1. Theirs(c) = {}
    BY DEF Init, Theirs
  <1>2. 1..Cardinality(Theirs(c)) = {}
    BY <1>1, FS_EmptySet
  <1> QED BY <1>2 DEF Listed

\* A handled event is delivered to one customer, a call of markRead reads one entry of
\* one list, and nothing else a publisher, a queue or a consumer does is seen.
LEMMA InboxStep ==
    ASSUME TypeOK, [Next]_vars
    PROVE  [Promise!Next]_([c \in Customers |-> Listed(c)])
  <1> DEFINE lists == [c \in Customers |-> Listed(c)]
  <1> DEFINE next == [c \in Customers |-> Listed(c)']
  <1>0. stored \in Seq(Notice)
    BY DEF TypeOK, Notice
  <1>1. ASSUME UNCHANGED stored PROVE next = lists
    <2>1. \A c : Listed(c)' = Listed(c)
      BY <1>1 DEF Listed, Theirs, Matches, Nth, Rank
    <2> QED BY <2>1
  <1>2. ASSUME NEW i \in Instances, NEW h \in hold[i], Create(i, h)
        PROVE  \E c \in Customers : \E entry \in Entry : Promise!Deliver(c, entry)
    <2> DEFINE m == h.message
    <2> DEFINE x == Notification(m)
    <2> DEFINE own == Owner[m.order]
    <2>1. m \in Message /\ stored' = Append(stored, x)
      BY <1>2 DEF TypeOK, Create, Stored
    <2>2. x \in Notice /\ x.entry \in Entry /\ x.user = Sub(own) /\ own \in Customers /\ x.read = FALSE
      <3>1. m.order \in Orders
        BY <2>1 DEF Message
      <3>2. own \in Customers
        BY <3>1, NotificationConstants
      <3> QED BY <2>1, <3>2, NoticeType, EntryType DEF Notification
    <2> HIDE DEF x, own, m
    <2>3. Listed(own)' = Append(Listed(own), Promise!Unread(x.entry))
      BY <1>0, <2>1, <2>2, ListedGrows
    <2>4. ASSUME NEW c \in Customers, c # own PROVE Listed(c)' = Listed(c)
      <3>1. Sub(c) # Sub(own)
        BY <2>4 DEF Sub
      <3>2. /\ DOMAIN stored' = DOMAIN stored \cup {Len(stored) + 1}
            /\ \A n \in DOMAIN stored : stored'[n] = stored[n]
            /\ stored'[Len(stored) + 1] = x
        BY <1>0, <2>1, <2>2, StoredType
      <3>3. Theirs(c)' = Theirs(c)
        BY <2>2, <3>1, <3>2 DEF Theirs, Matches, Sub
      <3>4. \A n \in Theirs(c) : stored'[n] = stored[n]
        BY <3>2 DEF Theirs
      <3> QED BY <1>0, <3>3, <3>4, ListedStays
    <2>5. next = [lists EXCEPT ![own] = Append(@, Promise!Unread(x.entry))]
      BY <2>2, <2>3, <2>4
    <2> QED BY <2>2, <2>5 DEF Promise!Deliver
  <1>3. ASSUME NEW c \in Customers, NEW n \in DOMAIN stored, MarkRead(c, n)
        PROVE  \E k \in DOMAIN Listed(c) : Promise!MarkRead(c, k)
    <2>1. n \in Theirs(c) /\ stored' = [stored EXCEPT ![n].read = TRUE]
      BY <1>3 DEF MarkRead, Theirs
    <2>2. PICK k \in DOMAIN Listed(c) : Listed(c)' = [Listed(c) EXCEPT ![k].read = TRUE]
      BY <1>0, <2>1, ListedRead
    <2>3. ASSUME NEW d \in Customers, d # c PROVE Listed(d)' = Listed(d)
      <3>1. Sub(c) # Sub(d)
        BY <2>3 DEF Sub
      <3>2. n \notin Theirs(d)
        BY <2>1, <3>1 DEF Theirs, Matches
      <3>3. stored[n] \in Notice /\ n \in DOMAIN stored
        BY <1>0
      <3>4. /\ \A j \in DOMAIN stored \ {n} : stored'[j] = stored[j]
            /\ DOMAIN stored' = DOMAIN stored
            /\ \A j \in DOMAIN stored : stored'[j].user = stored[j].user
        BY <1>0, <2>1, <3>3 DEF Notice
      <3>5. Theirs(d)' = Theirs(d)
        BY <3>4 DEF Theirs, Matches, Sub
      <3>6. \A j \in Theirs(d) : stored'[j] = stored[j]
        BY <3>2, <3>4 DEF Theirs
      <3> QED BY <1>0, <3>5, <3>6, ListedStays
    <2>4. next = [lists EXCEPT ![c] = [@ EXCEPT ![k].read = TRUE]]
      BY <2>2, <2>3
    <2>5. next = [lists EXCEPT ![c][k].read = TRUE]
      BY <2>4
    <2>6. k \in DOMAIN lists[c]
      OBVIOUS
    <2> QED BY <2>5, <2>6 DEF Promise!MarkRead
  <1>4. ASSUME NEW i \in Instances, NEW h \in hold[i],
               GetCustomerId(i, h) \/ DeleteMessage(i, h) \/ HandlerFails(i, h)
        PROVE  UNCHANGED stored
    BY <1>4 DEF GetCustomerId, DeleteMessage, HandlerFails
  <1>5. ASSUME NEW i \in Instances, Crash(i) \/ \E q \in Queue : Receive(i, q)
        PROVE  UNCHANGED stored
    BY <1>5 DEF Crash, Receive
  <1>6. ASSUME NEW m \in Message, MessageStep(m) PROVE UNCHANGED stored
    BY <1>6 DEF MessageStep, Publish, Reappear, Overdue, DeadLetter
  <1>7. ASSUME UNCHANGED vars
        PROVE  UNCHANGED stored
    BY <1>7 DEF vars
  <1>8. \/ UNCHANGED stored
        \/ \E c \in Customers : \E entry \in Entry : Promise!Deliver(c, entry)
        \/ \E c \in Customers : \E k \in DOMAIN Listed(c) : Promise!MarkRead(c, k)
    BY <1>2, <1>3, <1>4, <1>5, <1>6, <1>7 DEF Next, ConsumerStep
  <1> QED BY <1>1, <1>8 DEF Promise!Next

\* notification-service implements an Inbox: however events are copied, redelivered and
\* handled, a customer's list only grows, and what was read stays read.
THEOREM InboxIsKept == Spec => ImplementsInbox
  <1>1. Spec => []TypeOK
    BY TypeInit, TypeStep, PTL DEF Spec
  <1> QED BY <1>1, InboxInit, InboxStep, PTL DEF Spec, ImplementsInbox, Promise!Spec
=============================================================================
