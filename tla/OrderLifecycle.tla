--------------------------- MODULE OrderLifecycle ---------------------------
(***************************************************************************)
(* What the checkout saga promises about one order, with no events, queues *)
(* or outboxes: an order is placed, confirmed or cancelled while PENDING,  *)
(* charged at most once, and leaves AWAITING_PAYMENT only for the status   *)
(* its own charge decides.  The statuses are those of order-status.enum.ts *)
(* that some code sets (FULFILLED is declared and never reached).          *)
(***************************************************************************)
CONSTANT Orders

VARIABLES
    status,     \* status[o]: the order's row in dbo.Orders, "NONE" before it exists
    charge      \* charge[o]: the status of the order's row in payments, or "NONE"

vars == <<status, charge>>

Status == {"NONE", "PENDING", "AWAITING_PAYMENT", "PAID", "PAYMENT_FAILED", "CANCELLED"}
Outcome == {"SUCCEEDED", "FAILED"}

\* The status a payment outcome decides.
StatusFor(outcome) == IF outcome = "SUCCEEDED" THEN "PAID" ELSE "PAYMENT_FAILED"

TypeOK ==
    /\ status \in [Orders -> Status]
    /\ charge \in [Orders -> Outcome \cup {"NONE"}]

Init ==
    /\ status = [o \in Orders |-> "NONE"]
    /\ charge = [o \in Orders |-> "NONE"]

Move(o, from, to) ==
    /\ status[o] = from
    /\ status' = [status EXCEPT ![o] = to]
    /\ UNCHANGED charge

Place(o) == Move(o, "NONE", "PENDING")
Confirm(o) == Move(o, "PENDING", "AWAITING_PAYMENT")
Cancel(o) == Move(o, "PENDING", "CANCELLED")

\* A placed order is charged once, whatever has become of it meanwhile.
Charge(o) ==
    /\ status[o] # "NONE"
    /\ charge[o] = "NONE"
    /\ \E outcome \in Outcome : charge' = [charge EXCEPT ![o] = outcome]
    /\ UNCHANGED status

Settle(o) ==
    /\ charge[o] \in Outcome
    /\ Move(o, "AWAITING_PAYMENT", StatusFor(charge[o]))

Next == \E o \in Orders : Place(o) \/ Confirm(o) \/ Cancel(o) \/ Charge(o) \/ Settle(o)

Spec == Init /\ [][Next]_vars
=============================================================================
