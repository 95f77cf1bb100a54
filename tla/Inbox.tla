------------------------------- MODULE Inbox -------------------------------
(***************************************************************************)
(* What notification-service promises its customers, with no events or     *)
(* queues: every customer has a list of notifications, which only grows,   *)
(* and each of them is unread until its customer has read it.              *)
(***************************************************************************)
EXTENDS Integers, Sequences

CONSTANTS
    Customers,
    Entry       \* what a notification can be about

VARIABLE inbox  \* inbox[c]: the notifications of customer c, oldest first

Unread(entry) == [entry |-> entry, read |-> FALSE]

Init == inbox = [c \in Customers |-> <<>>]

Deliver(c, entry) == inbox' = [inbox EXCEPT ![c] = Append(@, Unread(entry))]

MarkRead(c, n) ==
    /\ n \in DOMAIN inbox[c]
    /\ inbox' = [inbox EXCEPT ![c][n].read = TRUE]

Next ==
    \E c \in Customers :
        \/ \E entry \in Entry : Deliver(c, entry)
        \/ \E n \in DOMAIN inbox[c] : MarkRead(c, n)

Spec == Init /\ [][Next]_inbox
=============================================================================
