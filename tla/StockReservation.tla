-------------------------- MODULE StockReservation --------------------------
(***************************************************************************)
(* Stock in a checkout: order-service calls product-service over TCP to    *)
(* reserve the lines of a cart one by one, then writes the order; the      *)
(* reservation that fails half way puts back what it took.  The two sides  *)
(* run on after one of them has given up.  An admin may rewrite the stock  *)
(* of a product or remove it behind the delete guard, which asks           *)
(* order-service first.                                                    *)
(***************************************************************************)
EXTENDS Integers, Sequences, FiniteSets

CONSTANTS
    Calls,          \* checkout calls
    Products,       \* ids of the products
    Carts,          \* carts a customer may check out: sequences of lines
    InitialStock,   \* InitialStock[p]: the stockQty product p is created with
    MaxStock,       \* bound: the largest stockQty an admin writes
    MaxFaults       \* bound: crashes, timeouts and failed queries in one behaviour

Line == [product : Products, quantity : Nat \ {0}]

ASSUME CartsAssumption == Carts \subseteq Seq(Line) /\ <<>> \notin Carts
ASSUME StockAssumption ==
    InitialStock \in [Products -> Nat] /\ MaxStock \in Nat /\ MaxFaults \in Nat

VARIABLES
    order,      \* order[c]: OrdersService.create for call c, then the order's fate
    cart,       \* cart[c]: the lines of call c
    handler,    \* handler[c]: ProductsService.reserveStock for call c
    taken,      \* taken[c]: the lines of c whose units are out of stock
    undo,       \* undo[c]: the lines compensate still has to put back
    stock,      \* stock[p]: products.stockQty
    listed,     \* the products that exist
    removing,   \* products the delete guard has passed and not yet deleted
    faults,     \* failures so far
    \* Kept for the properties only, no action reads them:
    rewritten,  \* products whose stock an admin has overwritten
    harmed      \* calls that a failure has hit

orderVars == <<order, cart>>
handlerVars == <<handler, taken, undo>>
productVars == <<stock, listed, rewritten>>
faultVars == <<faults, harmed>>
vars == <<orderVars, handlerVars, productVars, removing, faultVars>>

\* A failure that hits the given calls.
Fault(hit) ==
    /\ faults < MaxFaults
    /\ faults' = faults + 1
    /\ harmed' = harmed \cup hit

\* Statuses usp_Order_ProductHasNonTerminalOrder counts are "open" here.
OrderState == {"idle", "waiting", "writing", "open", "closed", "failed"}
HandlerState == {"idle", "reserving", "undoing", "replied", "rejected", "dead"}

Init ==
    /\ order = [c \in Calls |-> "idle"]
    /\ cart = [c \in Calls |-> <<>>]
    /\ handler = [c \in Calls |-> "idle"]
    /\ taken = [c \in Calls |-> {}]
    /\ undo = [c \in Calls |-> {}]
    /\ stock = InitialStock
    /\ listed = Products
    /\ removing = {}
    /\ rewritten = {}
    /\ faults = 0
    /\ harmed = {}

-----------------------------------------------------------------------------
(* order-service: OrdersService.create.                                    *)

StartCheckout(c) ==
    /\ order[c] = "idle"
    /\ \E lines \in Carts : cart' = [cart EXCEPT ![c] = lines]
    /\ order' = [order EXCEPT ![c] = "waiting"]
    /\ handler' = [handler EXCEPT ![c] = "reserving"]
    /\ UNCHANGED <<taken, undo, productVars, removing, faultVars>>

\* The call over TCP answers: the reserved lines, or the error of the reservation.
ReceiveReply(c) ==
    /\ order[c] = "waiting"
    /\ handler[c] \in {"replied", "rejected"}
    /\ order' = [order EXCEPT ![c] = IF handler[c] = "replied" THEN "writing" ELSE "failed"]
    /\ UNCHANGED <<cart, handlerVars, productVars, removing, faultVars>>

\* callTcpService gives up: the connection is gone, or five seconds have passed.
TcpLostNever(c) == FALSE
TcpLost(c) == handler[c] = "dead" /\ UNCHANGED faultVars

AbandonCall(c) ==
    /\ order[c] = "waiting"
    /\ TcpLost(c) \/ Fault({c})
    /\ order' = [order EXCEPT ![c] = "failed"]
    /\ UNCHANGED <<cart, handlerVars, productVars, removing>>

\* usp_Order_Create, or its failure: nothing asks for the stock back.
WriteOrder(c) ==
    /\ order[c] = "writing"
    /\ \/ order' = [order EXCEPT ![c] = "open"] /\ UNCHANGED faultVars
       \/ order' = [order EXCEPT ![c] = "failed"] /\ Fault({c})
    /\ UNCHANGED <<cart, handlerVars, productVars, removing>>

\* The order is cancelled or its payment fails.  (PAID stays open: no code leaves it.)
CloseOrder(c) ==
    /\ order[c] = "open"
    /\ order' = [order EXCEPT ![c] = "closed"]
    /\ UNCHANGED <<cart, handlerVars, productVars, removing, faultVars>>

CrashOrderService ==
    LET running == {c \in Calls : order[c] \in {"waiting", "writing"}}
    IN  /\ Fault(running)
        /\ order' = [c \in Calls |-> IF c \in running THEN "failed" ELSE order[c]]
    /\ UNCHANGED <<cart, handlerVars, productVars, removing>>

-----------------------------------------------------------------------------
(* product-service: ProductsService.reserveStock and compensate.           *)

\* The line the loop is at: the lines before it are reserved.
NextLine(c) == Cardinality(taken[c]) + 1
LastLineEarly(c) == NextLine(c) + 1 >= Len(cart[c])
LastLine(c) == NextLine(c) = Len(cart[c])

\* The filter of findOneAndUpdate.
InStockAny(line) == line.product \in listed
InStock(line) == line.product \in listed /\ stock[line.product] >= line.quantity

ReserveLine(c) ==
    LET line == cart[c][NextLine(c)]
    IN  /\ handler[c] = "reserving"
        /\ InStock(line)
        /\ stock' = [stock EXCEPT ![line.product] = @ - line.quantity]
        /\ taken' = [taken EXCEPT ![c] = @ \cup {NextLine(c)}]
        /\ handler' = [handler EXCEPT ![c] = IF LastLine(c) THEN "replied" ELSE "reserving"]
    /\ UNCHANGED <<orderVars, undo, listed, removing, rewritten, faultVars>>

\* The lines compensate puts back.
ToUndoAll(c) == DOMAIN cart[c]
ToUndoNone(c) == {}
ToUndo(c) == taken[c]

\* The catch of reserveStock: the lines reserved so far are to be put back.
GiveUp(c) ==
    /\ undo' = [undo EXCEPT ![c] = ToUndo(c)]
    /\ handler' = [handler EXCEPT ![c] = IF ToUndo(c) = {} THEN "rejected" ELSE "undoing"]

\* Not found or not enough.
RefuseLine(c) ==
    /\ handler[c] = "reserving"
    /\ ~InStock(cart[c][NextLine(c)])
    /\ GiveUp(c)
    /\ UNCHANGED <<orderVars, taken, productVars, removing, faultVars>>

\* The query fails, before MongoDB has applied it or after: the loop cannot tell.
QueryFails(c) ==
    LET line == cart[c][NextLine(c)]
    IN  /\ handler[c] = "reserving"
        /\ Fault({c})
        /\ GiveUp(c)
        /\ \/ UNCHANGED <<taken, stock>>
           \/ /\ InStock(line)
              /\ stock' = [stock EXCEPT ![line.product] = @ - line.quantity]
              /\ taken' = [taken EXCEPT ![c] = @ \cup {NextLine(c)}]
    /\ UNCHANGED <<orderVars, listed, rewritten, removing>>

\* One update of compensate: it finds no document when the product was removed.
PutBack(c, l) ==
    LET line == cart[c][l]
    IN  /\ taken' = [taken EXCEPT ![c] = @ \ {l}]
        /\ stock' = IF line.product \in listed
                    THEN [stock EXCEPT ![line.product] = @ + line.quantity] ELSE stock

\* Promise.all answers when the last update has.
UndoLine(c) ==
    /\ \E l \in undo[c] :
        /\ PutBack(c, l)
        /\ undo' = [undo EXCEPT ![c] = @ \ {l}]
        /\ handler' = IF undo[c] = {l} THEN [handler EXCEPT ![c] = "rejected"] ELSE handler
    /\ UNCHANGED <<orderVars, listed, removing, rewritten, faultVars>>

\* Promise.all answers with the first update that fails; the others run on.
UndoFails(c) ==
    /\ Fault({c})
    /\ \E l \in undo[c] :
        /\ PutBack(c, l) \/ UNCHANGED <<taken, stock>>
        /\ undo' = [undo EXCEPT ![c] = @ \ {l}]
        /\ handler' = [handler EXCEPT ![c] = "rejected"]
    /\ UNCHANGED <<orderVars, listed, rewritten, removing>>

\* The running reservations and removals die with the process, at any line.
CrashProductService ==
    LET running == {c \in Calls : handler[c] \in {"reserving", "undoing"}}
    IN  /\ Fault(running)
        /\ handler' = [c \in Calls |-> IF c \in running THEN "dead" ELSE handler[c]]
    /\ undo' = [c \in Calls |-> {}]
    /\ removing' = {}
    /\ UNCHANGED <<orderVars, taken, productVars>>

-----------------------------------------------------------------------------
(* product-service: the admin's operations.                                *)

\* update: $set of the stockQty the form holds, whatever was sold meanwhile.
UpdateStock(p) ==
    /\ p \in listed
    /\ \E quantity \in 0..MaxStock : stock' = [stock EXCEPT ![p] = quantity]
    /\ rewritten' = rewritten \cup {p}
    /\ UNCHANGED <<orderVars, handlerVars, listed, removing, faultVars>>

HasNonTerminalOrder(p) ==
    \E c \in Calls : order[c] = "open" /\ \E l \in DOMAIN cart[c] : cart[c][l].product = p

\* remove asks order-service, and deletes by a second query.
CheckRemoval(p) ==
    /\ p \in listed
    /\ ~HasNonTerminalOrder(p)
    /\ removing' = removing \cup {p}
    /\ UNCHANGED <<orderVars, handlerVars, productVars, faultVars>>

RemoveProduct(p) ==
    /\ p \in removing
    /\ removing' = removing \ {p}
    /\ listed' = listed \ {p}
    /\ UNCHANGED <<orderVars, handlerVars, stock, rewritten, faultVars>>

CheckoutStep(c) ==
    StartCheckout(c) \/ ReceiveReply(c) \/ AbandonCall(c) \/ WriteOrder(c) \/ CloseOrder(c)
ReserveStep(c) ==
    ReserveLine(c) \/ RefuseLine(c) \/ QueryFails(c) \/ UndoLine(c) \/ UndoFails(c)
AdminStep(p) == UpdateStock(p) \/ CheckRemoval(p) \/ RemoveProduct(p)

Next ==
    \/ \E c \in Calls : CheckoutStep(c) \/ ReserveStep(c)
    \/ \E p \in Products : AdminStep(p)
    \/ CrashOrderService
    \/ CrashProductService

\* A running call and a running handler go on; customers and admins need not act.
Fairness ==
    \A c \in Calls :
        /\ WF_vars(ReceiveReply(c)) /\ WF_vars(AbandonCall(c)) /\ WF_vars(WriteOrder(c))
        /\ WF_vars(ReserveLine(c) \/ RefuseLine(c)) /\ WF_vars(UndoLine(c))

Spec == Init /\ [][Next]_vars
FairSpec == Spec /\ Fairness

-----------------------------------------------------------------------------
(* Properties.                                                             *)

\* Every variable holds values of its shape; in particular no stockQty is negative.
TypeOK ==
    /\ order \in [Calls -> OrderState]
    /\ cart \in [Calls -> Carts \cup {<<>>}]
    /\ handler \in [Calls -> HandlerState]
    /\ taken \in [Calls -> SUBSET (Nat \ {0})]
    /\ undo \in [Calls -> SUBSET (Nat \ {0})]
    /\ stock \in [Products -> Nat]
    /\ listed \in SUBSET Products
    /\ removing \in SUBSET Products
    /\ rewritten \in SUBSET Products
    /\ faults \in 0..MaxFaults
    /\ harmed \in SUBSET Calls

\* What one call's order, handler and lines say of each other; a reservation
\* that gave up, and that no failure hit, has exactly the lines out that it still puts back.
CallInv(c) ==
    /\ undo[c] \subseteq taken[c]
    /\ taken[c] \subseteq DOMAIN cart[c]
    /\ order[c] = "idle" <=> handler[c] = "idle"
    /\ handler[c] = "idle" => taken[c] = {}
    /\ handler[c] = "reserving" =>
        undo[c] = {} /\ \E k \in 0 .. Len(cart[c]) - 1 : taken[c] = 1..k
    /\ handler[c] = "replied" => undo[c] = {} /\ taken[c] = DOMAIN cart[c]
    /\ order[c] \in {"writing", "open", "closed"} => handler[c] = "replied"
    /\ c \notin harmed =>
        /\ handler[c] # "dead"
        /\ handler[c] \in {"undoing", "rejected"} => undo[c] = taken[c]
        /\ handler[c] = "rejected" => taken[c] = {}
        /\ order[c] = "failed" => handler[c] = "rejected"

\* The inductive invariant: the reservation loop, its compensation and the order
\* that waits for them agree, and no stockQty ever becomes negative.
ReservationInv == TypeOK /\ \A c \in Calls : CallInv(c)

\* The units of product p in some of the lines of call c, numbered within their line.
LineUnits(c, l) == {<<c, l, n>> : n \in 1..cart[c][l].quantity}
Units(c, lines, p) == UNION {LineUnits(c, l) : l \in {k \in lines : cart[c][k].product = p}}

\* The units that are out of stock, and those that belong to an order.
Held(p) == UNION {Units(c, taken[c], p) : c \in Calls}
Ordered == {c \in Calls : order[c] \in {"open", "closed"}}
Sold(p) == UNION {Units(c, DOMAIN cart[c], p) : c \in Ordered}

\* Every unit of a product that exists and whose stock nobody overwrote is on the
\* shelf or held by exactly one line of one call, whichever reservations overlap,
\* fail half way, are compensated, or die.
StockConserved ==
    \A p \in listed \ rewritten : stock[p] + Cardinality(Held(p)) = InitialStock[p]

\* Orders never hold more units of a product than it had.
NoOversell ==
    \A p \in Products \ rewritten : Cardinality(Sold(p)) <= InitialStock[p]

\* An order is only written for a cart whose every line is reserved, and no line of
\* it is ever given back or waits to be: a late compensation cannot touch it.
OrderedLinesReserved ==
    \A c \in Calls : order[c] \in {"writing", "open", "closed"} =>
        taken[c] = DOMAIN cart[c] /\ undo[c] = {}

\* A checkout that ended without an order keeps units only if a failure hit that very
\* call (a query, a timeout, a crash of one of its two services): whatever happens to the
\* calls it overlaps with, its own compensation is complete before the error is answered.
LeaksAreFailures ==
    \A c \in Calls : order[c] = "failed" /\ c \notin harmed => taken[c] = {}

\* Every checkout call ends, also when product-service dies during the reservation.
EveryCheckoutEnds ==
    \A c \in Calls : order[c] \in {"waiting", "writing"} ~> order[c] \in {"open", "closed", "failed"}

(* What the repository says of the system and the code does not do.        *)

\* products.service.ts: remove is "Blocked if referenced by a non-terminal order".
OpenOrdersKeepProducts == \A p \in Products : HasNonTerminalOrder(p) => p \in listed
=============================================================================
