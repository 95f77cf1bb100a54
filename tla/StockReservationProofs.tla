----------------------- MODULE StockReservationProofs -----------------------
(***************************************************************************)
(* Theorems about StockReservation for any set of calls, products and      *)
(* carts and any number of failures, and their proofs.                     *)
(***************************************************************************)
EXTENDS StockReservation, FiniteSetTheorems, TLAPS

\* A cart is a sequence of lines, empty until the call starts.
LEMMA CartType ==
    ASSUME NEW c \in Calls, TypeOK
    PROVE  cart[c] \in Seq(Line)
  <1>1. cart[c] \in Carts \cup {<<>>}
    BY DEF TypeOK
  <1>2. CASE cart[c] \in Carts
    BY <1>2, CartsAssumption
  <1>3. CASE cart[c] = <<>>
    BY <1>3
  <1> QED BY <1>1, <1>2, <1>3

\* A line of a cart has a product and a positive quantity.
LEMMA CartLines ==
    ASSUME NEW c \in Calls, TypeOK, NEW l \in DOMAIN cart[c]
    PROVE  cart[c][l].product \in Products /\ cart[c][l].quantity \in Nat \ {0}
  <1>1. cart[c] \in Seq(Line)
    BY CartType
  <1>2. cart[c][l] \in Line
    BY <1>1
  <1> QED BY <1>2 DEF Line

\* The lines of a cart are numbered from one.
LEMMA CartDomain ==
    ASSUME NEW c \in Calls, TypeOK
    PROVE  Len(cart[c]) \in Nat /\ DOMAIN cart[c] = 1..Len(cart[c])
  <1>1. cart[c] \in Seq(Line)
    BY CartType
  <1> QED BY <1>1

\* While the loop runs the reserved lines are those before the next one, and
\* reserving the next one makes it the last of them.
LEMMA LoopPosition ==
    ASSUME NEW c \in Calls, TypeOK, CallInv(c), handler[c] = "reserving"
    PROVE  /\ NextLine(c) \in DOMAIN cart[c]
           /\ taken[c] = 1 .. NextLine(c) - 1
           /\ taken[c] \cup {NextLine(c)} = 1..NextLine(c)
           /\ undo[c] = {}
  <1>1. PICK k \in 0 .. Len(cart[c]) - 1 : taken[c] = 1..k
    BY DEF CallInv
  <1>2. Cardinality(1..k) = k
    BY <1>1, CartDomain, FS_Interval
  <1>3. NextLine(c) = k + 1
    BY <1>1, <1>2 DEF NextLine
  <1> QED BY <1>1, <1>3, CartDomain DEF CallInv

\* The next line of a running loop is a line of the cart.
LEMMA NextLineType ==
    ASSUME ReservationInv, NEW c \in Calls, handler[c] = "reserving"
    PROVE  NextLine(c) \in DOMAIN cart[c] /\ NextLine(c) \in Nat \ {0}
  <1>1. TypeOK /\ CallInv(c)
    BY DEF ReservationInv
  <1> QED BY <1>1, LoopPosition, CartDomain

-----------------------------------------------------------------------------
\* TypeOK is inductive: in particular no stockQty becomes negative.

LEMMA TypeInit == Init => TypeOK
  BY StockAssumption DEF Init, TypeOK, OrderState, HandlerState

\* Taking the units of a line that is in stock leaves a natural number.
LEMMA DecrementType ==
    ASSUME NEW c \in Calls, TypeOK, NEW l \in DOMAIN cart[c], InStock(cart[c][l])
    PROVE  [stock EXCEPT ![cart[c][l].product] = @ - cart[c][l].quantity] \in [Products -> Nat]
  <1> DEFINE p == cart[c][l].product
             q == cart[c][l].quantity
  <1>1. p \in Products /\ q \in Nat /\ q <= stock[p]
    BY CartLines DEF InStock, TypeOK
  <1> HIDE DEF p, q
  <1>2. stock[p] - q \in Nat
    BY <1>1 DEF TypeOK
  <1>3. [stock EXCEPT ![p] = @ - q] \in [Products -> Nat]
    BY <1>1, <1>2 DEF TypeOK
  <1> QED BY <1>3 DEF p, q

\* Giving a line back keeps the ledger of lines and the stock well formed.
LEMMA PutBackType ==
    ASSUME NEW c \in Calls, TypeOK, CallInv(c), NEW l \in undo[c], PutBack(c, l)
    PROVE  taken' \in [Calls -> SUBSET (Nat \ {0})] /\ stock' \in [Products -> Nat]
  <1> DEFINE p == cart[c][l].product
             q == cart[c][l].quantity
  <1>1. p \in Products /\ q \in Nat
    BY CartLines DEF CallInv
  <1>2. /\ taken' = [taken EXCEPT ![c] = @ \ {l}]
        /\ stock' = IF p \in listed THEN [stock EXCEPT ![p] = @ + q] ELSE stock
    BY DEF PutBack
  <1> HIDE DEF p, q
  <1>3. stock[p] + q \in Nat
    BY <1>1 DEF TypeOK
  <1> QED BY <1>1, <1>2, <1>3 DEF TypeOK

\* Every failure is counted, up to the bound, and remembers whom it hit.
LEMMA FaultType ==
    ASSUME TypeOK, NEW hit \in SUBSET Calls, Fault(hit)
    PROVE  /\ faults' \in 0..MaxFaults /\ harmed' \in SUBSET Calls
           /\ hit \subseteq harmed' /\ harmed \subseteq harmed'
  BY StockAssumption DEF TypeOK, Fault

LEMMA TypeStep ==
    ASSUME ReservationInv, [Next]_vars
    PROVE  TypeOK'
  <1> USE DEF TypeOK, orderVars, handlerVars, productVars, faultVars, OrderState, HandlerState
  <1>0. TypeOK /\ \A c \in Calls : CallInv(c)
    BY DEF ReservationInv
  <1>1. ASSUME NEW c \in Calls, StartCheckout(c) PROVE TypeOK'
    BY <1>0, <1>1 DEF StartCheckout
  <1>2. ASSUME NEW c \in Calls, ReceiveReply(c) PROVE TypeOK'
    BY <1>0, <1>2 DEF ReceiveReply
  <1>3. ASSUME NEW c \in Calls, AbandonCall(c) PROVE TypeOK'
    <2>1. faults' \in 0..MaxFaults /\ harmed' \in SUBSET Calls
      BY <1>0, <1>3, FaultType DEF AbandonCall, TcpLost
    <2> QED BY <1>0, <1>3, <2>1 DEF AbandonCall
  <1>4. ASSUME NEW c \in Calls, WriteOrder(c) PROVE TypeOK'
    <2>1. faults' \in 0..MaxFaults /\ harmed' \in SUBSET Calls
      BY <1>0, <1>4, FaultType DEF WriteOrder
    <2> QED BY <1>0, <1>4, <2>1 DEF WriteOrder
  <1>5. ASSUME NEW c \in Calls, CloseOrder(c) PROVE TypeOK'
    BY <1>0, <1>5 DEF CloseOrder
  <1>6. ASSUME NEW c \in Calls, ReserveLine(c) PROVE TypeOK'
    <2>1. /\ handler[c] = "reserving"
          /\ InStock(cart[c][NextLine(c)])
          /\ stock' = [stock EXCEPT ![cart[c][NextLine(c)].product]
                                    = @ - cart[c][NextLine(c)].quantity]
          /\ taken' = [taken EXCEPT ![c] = @ \cup {NextLine(c)}]
      BY <1>6 DEF ReserveLine
    <2>2. NextLine(c) \in DOMAIN cart[c] /\ NextLine(c) \in Nat \ {0}
      BY <2>1, NextLineType
    <2>3. stock' \in [Products -> Nat]
      BY <1>0, <2>1, <2>2, DecrementType
    <2>4. taken' \in [Calls -> SUBSET (Nat \ {0})]
      BY <1>0, <2>1, <2>2
    <2> QED BY <1>0, <1>6, <2>3, <2>4 DEF ReserveLine
  <1>7. ASSUME NEW c \in Calls, GiveUp(c)
        PROVE  undo' \in [Calls -> SUBSET (Nat \ {0})] /\ handler' \in [Calls -> HandlerState]
    BY <1>0, <1>7 DEF GiveUp, ToUndo
  <1>8. ASSUME NEW c \in Calls, RefuseLine(c) PROVE TypeOK'
    BY <1>0, <1>7, <1>8 DEF RefuseLine
  <1>9. ASSUME NEW c \in Calls, QueryFails(c) PROVE TypeOK'
    <2>1. handler[c] = "reserving" /\ Fault({c}) /\ GiveUp(c)
      BY <1>9 DEF QueryFails
    <2>2. NextLine(c) \in DOMAIN cart[c] /\ NextLine(c) \in Nat \ {0}
      BY <2>1, NextLineType
    <2>3. stock' \in [Products -> Nat] /\ taken' \in [Calls -> SUBSET (Nat \ {0})]
      <3>1. CASE UNCHANGED <<taken, stock>>
        BY <1>0, <3>1
      <3>2. CASE /\ InStock(cart[c][NextLine(c)])
                 /\ stock' = [stock EXCEPT ![cart[c][NextLine(c)].product]
                                           = @ - cart[c][NextLine(c)].quantity]
                 /\ taken' = [taken EXCEPT ![c] = @ \cup {NextLine(c)}]
        <4>1. stock' \in [Products -> Nat]
          BY <1>0, <2>2, <3>2, DecrementType
        <4> QED BY <1>0, <2>2, <3>2, <4>1
      <3> QED BY <1>9, <3>1, <3>2 DEF QueryFails
    <2>4. faults' \in 0..MaxFaults /\ harmed' \in SUBSET Calls
      BY <1>0, <2>1, FaultType
    <2> QED BY <1>0, <1>7, <1>9, <2>1, <2>3, <2>4 DEF QueryFails
  <1>10. ASSUME NEW c \in Calls, UndoLine(c) PROVE TypeOK'
    <2>1. PICK l \in undo[c] :
            /\ PutBack(c, l)
            /\ undo' = [undo EXCEPT ![c] = @ \ {l}]
            /\ handler' = IF undo[c] = {l} THEN [handler EXCEPT ![c] = "rejected"] ELSE handler
      BY <1>10 DEF UndoLine
    <2>2. taken' \in [Calls -> SUBSET (Nat \ {0})] /\ stock' \in [Products -> Nat]
      BY <1>0, <2>1, PutBackType
    <2>3. undo' \in [Calls -> SUBSET (Nat \ {0})] /\ handler' \in [Calls -> HandlerState]
      BY <1>0, <2>1
    <2> QED BY <1>0, <1>10, <2>2, <2>3 DEF UndoLine
  <1>11. ASSUME NEW c \in Calls, UndoFails(c) PROVE TypeOK'
    <2>1. PICK l \in undo[c] :
            /\ PutBack(c, l) \/ UNCHANGED <<taken, stock>>
            /\ undo' = [undo EXCEPT ![c] = @ \ {l}]
            /\ handler' = [handler EXCEPT ![c] = "rejected"]
      BY <1>11 DEF UndoFails
    <2>2. taken' \in [Calls -> SUBSET (Nat \ {0})] /\ stock' \in [Products -> Nat]
      BY <1>0, <2>1, PutBackType
    <2>3. undo' \in [Calls -> SUBSET (Nat \ {0})] /\ handler' \in [Calls -> HandlerState]
      BY <1>0, <2>1
    <2>4. faults' \in 0..MaxFaults /\ harmed' \in SUBSET Calls
      BY <1>0, <1>11, FaultType DEF UndoFails
    <2> QED BY <1>0, <1>11, <2>2, <2>3, <2>4 DEF UndoFails
  <1>12. ASSUME NEW p \in Products, AdminStep(p) PROVE TypeOK'
    <2>1. CASE UpdateStock(p)
      BY <1>0, <2>1, StockAssumption DEF UpdateStock
    <2>2. CASE CheckRemoval(p)
      BY <1>0, <2>2 DEF CheckRemoval
    <2>3. CASE RemoveProduct(p)
      BY <1>0, <2>3 DEF RemoveProduct
    <2> QED BY <1>12, <2>1, <2>2, <2>3 DEF AdminStep
  <1>13. ASSUME CrashOrderService PROVE TypeOK'
    BY <1>0, <1>13, FaultType DEF CrashOrderService
  <1>14. ASSUME CrashProductService PROVE TypeOK'
    BY <1>0, <1>14, FaultType DEF CrashProductService
  <1>15. ASSUME UNCHANGED vars PROVE TypeOK'
    BY <1>0, <1>15 DEF vars
  <1> QED
    BY <1>1, <1>2, <1>3, <1>4, <1>5, <1>6, <1>8, <1>9, <1>10, <1>11, <1>12, <1>13, <1>14, <1>15
    DEF Next, CheckoutStep, ReserveStep

-----------------------------------------------------------------------------
\* CallInv is inductive: one lemma for the steps that leave a call's reservation
\* alone, then one proof step per action.

LEMMA CallInit == Init => \A c \in Calls : CallInv(c)
  BY DEF Init, CallInv

\* A call whose own state does not change keeps its invariant, whatever fails.
LEMMA CallQuiet ==
    ASSUME NEW c \in Calls, TypeOK, CallInv(c),
           order'[c] = order[c], cart'[c] = cart[c], handler'[c] = handler[c],
           taken'[c] = taken[c], undo'[c] = undo[c],
           c \in harmed => c \in harmed'
    PROVE  CallInv(c)'
  BY DEF CallInv, TypeOK

\* Giving up hands exactly the reserved lines to the compensation.
LEMMA GiveUpCall ==
    ASSUME NEW c \in Calls, TypeOK, CallInv(c), handler[c] = "reserving", GiveUp(c)
    PROVE  /\ undo'[c] = taken[c]
           /\ handler'[c] = IF taken[c] = {} THEN "rejected" ELSE "undoing"
           /\ \A d \in Calls \ {c} : undo'[d] = undo[d] /\ handler'[d] = handler[d]
  BY DEF TypeOK, GiveUp, ToUndo

LEMMA CallStep ==
    ASSUME ReservationInv, [Next]_vars, NEW d \in Calls
    PROVE  CallInv(d)'
  <1> USE DEF orderVars, handlerVars, productVars, faultVars
  <1>0. TypeOK /\ (\A c \in Calls : CallInv(c)) /\ CallInv(d)
    BY DEF ReservationInv
  <1>1. ASSUME NEW c \in Calls, StartCheckout(c) PROVE CallInv(d)'
    <2>1. CASE c # d
      BY <1>0, <1>1, <2>1, CallQuiet DEF StartCheckout, TypeOK
    <2>2. CASE c = d
      <3>1. PICK lines \in Carts : cart' = [cart EXCEPT ![d] = lines]
        BY <1>1, <2>2 DEF StartCheckout
      <3>2. lines \in Seq(Line) /\ lines # <<>>
        BY CartsAssumption
      <3>3. 0 \in 0 .. Len(lines) - 1 /\ 1..0 = {}
        BY <3>2
      <3>4. cart'[d] = lines /\ order'[d] = "waiting" /\ handler'[d] = "reserving"
        BY <1>0, <1>1, <2>2, <3>1 DEF StartCheckout, TypeOK
      <3>5. taken'[d] = {} /\ undo'[d] = {}
        BY <1>0, <1>1, <2>2 DEF StartCheckout, CallInv
      <3> QED BY <3>3, <3>4, <3>5 DEF CallInv
    <2> QED BY <2>1, <2>2
  <1>2. ASSUME NEW c \in Calls, ReceiveReply(c) PROVE CallInv(d)'
    <2>1. CASE c # d
      BY <1>0, <1>2, <2>1, CallQuiet DEF ReceiveReply, TypeOK
    <2>2. CASE c = d
      BY <1>0, <1>2, <2>2 DEF ReceiveReply, TypeOK, CallInv
    <2> QED BY <2>1, <2>2
  <1>3. ASSUME NEW c \in Calls, AbandonCall(c) PROVE CallInv(d)'
    <2>1. harmed \subseteq harmed'
      BY <1>0, <1>3, FaultType DEF AbandonCall, TcpLost
    <2>2. CASE c # d
      BY <1>0, <1>3, <2>1, <2>2, CallQuiet DEF AbandonCall, TypeOK
    <2>3. CASE c = d
      <3>1. d \in harmed'
        BY <1>0, <1>3, <2>3, FaultType DEF AbandonCall, TcpLost, CallInv
      <3> QED BY <1>0, <1>3, <2>3, <3>1 DEF AbandonCall, TypeOK, CallInv
    <2> QED BY <2>2, <2>3
  <1>4. ASSUME NEW c \in Calls, WriteOrder(c) PROVE CallInv(d)'
    <2>1. harmed \subseteq harmed'
      BY <1>0, <1>4, FaultType DEF WriteOrder
    <2>2. CASE c # d
      BY <1>0, <1>4, <2>1, <2>2, CallQuiet DEF WriteOrder, TypeOK
    <2>3. CASE c = d
      <3>1. order'[d] = "open" \/ (order'[d] = "failed" /\ d \in harmed')
        BY <1>0, <1>4, <2>3, FaultType DEF WriteOrder, TypeOK
      <3> QED BY <1>0, <1>4, <2>3, <3>1 DEF WriteOrder, TypeOK, CallInv
    <2> QED BY <2>2, <2>3
  <1>5. ASSUME NEW c \in Calls, CloseOrder(c) PROVE CallInv(d)'
    <2>1. CASE c # d
      BY <1>0, <1>5, <2>1, CallQuiet DEF CloseOrder, TypeOK
    <2>2. CASE c = d
      BY <1>0, <1>5, <2>2 DEF CloseOrder, TypeOK, CallInv
    <2> QED BY <2>1, <2>2
  <1>6. ASSUME NEW c \in Calls, ReserveLine(c) PROVE CallInv(d)'
    <2>1. CASE c # d
      BY <1>0, <1>6, <2>1, CallQuiet DEF ReserveLine, TypeOK
    <2>2. CASE c = d
      <3>1. /\ handler[d] = "reserving"
            /\ taken'[d] = taken[d] \cup {NextLine(d)}
            /\ handler'[d] = IF LastLine(d) THEN "replied" ELSE "reserving"
            /\ undo'[d] = undo[d] /\ order'[d] = order[d] /\ cart'[d] = cart[d]
            /\ harmed' = harmed
        BY <1>0, <1>6, <2>2 DEF ReserveLine, TypeOK
      <3>2. taken'[d] = 1..NextLine(d) /\ undo'[d] = {} /\ NextLine(d) \in 1..Len(cart[d])
        BY <1>0, <3>1, LoopPosition, CartDomain
      <3>3. order[d] \notin {"writing", "open", "closed", "idle"}
        BY <1>0, <3>1 DEF CallInv
      <3>4. d \notin harmed => order[d] # "failed"
        BY <1>0, <3>1 DEF CallInv
      <3>5. CASE LastLine(d)
        BY <1>0, <3>1, <3>2, <3>3, <3>4, <3>5, CartDomain DEF LastLine, CallInv
      <3>6. CASE ~LastLine(d)
        <4>1. Len(cart[d]) \in Nat
          BY <1>0, CartDomain
        <4>2. NextLine(d) \in 0 .. Len(cart[d]) - 1
          BY <3>2, <3>6, <4>1 DEF LastLine
        <4>3. taken'[d] \subseteq DOMAIN cart'[d]
          BY <1>0, <3>1, <3>2, CartDomain
        <4> QED BY <3>1, <3>2, <3>3, <3>4, <3>6, <4>2, <4>3 DEF CallInv
      <3> QED BY <3>5, <3>6
    <2> QED BY <2>1, <2>2
  <1>7. ASSUME NEW c \in Calls, RefuseLine(c) PROVE CallInv(d)'
    <2>1. handler[c] = "reserving" /\ GiveUp(c)
      BY <1>7 DEF RefuseLine
    <2>2. CASE c # d
      BY <1>0, <1>7, <2>1, <2>2, GiveUpCall, CallQuiet DEF RefuseLine
    <2>3. CASE c = d
      BY <1>0, <1>7, <2>1, <2>3, GiveUpCall DEF RefuseLine, CallInv
    <2> QED BY <2>2, <2>3
  <1>8. ASSUME NEW c \in Calls, QueryFails(c) PROVE CallInv(d)'
    <2>1. handler[c] = "reserving" /\ GiveUp(c) /\ c \in harmed' /\ harmed \subseteq harmed'
      BY <1>0, <1>8, FaultType DEF QueryFails
    <2>2. taken' = taken \/ taken' = [taken EXCEPT ![c] = @ \cup {NextLine(c)}]
      BY <1>8 DEF QueryFails
    <2>3. CASE c # d
      <3>1. taken'[d] = taken[d]
        BY <1>0, <2>2, <2>3 DEF TypeOK
      <3> QED BY <1>0, <1>8, <2>1, <2>3, <3>1, GiveUpCall, CallQuiet DEF QueryFails
    <2>4. CASE c = d
      <3>1. taken[d] \subseteq taken'[d] /\ taken'[d] \subseteq DOMAIN cart[d]
        BY <1>0, <2>1, <2>2, <2>4, NextLineType DEF TypeOK, CallInv
      <3>2. order'[d] = order[d] /\ cart'[d] = cart[d] /\ d \in harmed'
        BY <1>8, <2>1, <2>4 DEF QueryFails
      <3>3. undo'[d] = taken[d] /\ handler'[d] \in {"rejected", "undoing"}
        BY <1>0, <2>1, <2>4, GiveUpCall
      <3> QED BY <1>0, <2>1, <2>4, <3>1, <3>2, <3>3 DEF CallInv
    <2> QED BY <2>3, <2>4
  <1>9. ASSUME NEW c \in Calls, UndoLine(c) PROVE CallInv(d)'
    <2>1. PICK l \in undo[c] :
            /\ taken' = [taken EXCEPT ![c] = @ \ {l}]
            /\ undo' = [undo EXCEPT ![c] = @ \ {l}]
            /\ handler' = IF undo[c] = {l} THEN [handler EXCEPT ![c] = "rejected"] ELSE handler
      BY <1>9 DEF UndoLine, PutBack
    <2>2. order' = order /\ cart' = cart /\ harmed' = harmed
      BY <1>9 DEF UndoLine
    <2>3. CASE c # d
      BY <1>0, <2>1, <2>2, <2>3, CallQuiet DEF TypeOK
    <2>4. CASE c = d
      <3>1. /\ taken'[d] = taken[d] \ {l} /\ undo'[d] = undo[d] \ {l}
            /\ handler'[d] = IF undo[d] = {l} THEN "rejected" ELSE handler[d]
        BY <1>0, <2>1, <2>4 DEF TypeOK
      <3>2. handler[d] \notin {"idle", "reserving", "replied"}
        BY <1>0, <2>1, <2>4 DEF CallInv
      <3>3. handler'[d] \notin {"idle", "reserving", "replied"}
        BY <3>1, <3>2
      <3>4. order'[d] = order[d] /\ cart'[d] = cart[d] /\ order[d] # "idle"
        BY <1>0, <2>2, <3>2 DEF CallInv
      <3>5. d \notin harmed => handler[d] = "undoing" /\ undo[d] = taken[d] /\ order[d] # "failed"
        BY <1>0, <2>1, <2>4, <3>2 DEF CallInv, TypeOK, HandlerState
      <3> QED BY <1>0, <2>2, <3>1, <3>3, <3>4, <3>5 DEF CallInv
    <2> QED BY <2>3, <2>4
  <1>10. ASSUME NEW c \in Calls, UndoFails(c) PROVE CallInv(d)'
    <2>1. PICK l \in undo[c] :
            /\ taken' = [taken EXCEPT ![c] = @ \ {l}] \/ taken' = taken
            /\ undo' = [undo EXCEPT ![c] = @ \ {l}]
            /\ handler' = [handler EXCEPT ![c] = "rejected"]
      BY <1>10 DEF UndoFails, PutBack
    <2>2. order' = order /\ cart' = cart /\ c \in harmed' /\ harmed \subseteq harmed'
      BY <1>0, <1>10, FaultType DEF UndoFails
    <2>3. CASE c # d
      BY <1>0, <2>1, <2>2, <2>3, CallQuiet DEF TypeOK
    <2>4. CASE c = d
      <3>1. /\ taken'[d] = taken[d] \ {l} \/ taken'[d] = taken[d]
            /\ undo'[d] = undo[d] \ {l}
            /\ handler'[d] = "rejected"
        BY <1>0, <2>1, <2>4 DEF TypeOK
      <3>2. handler[d] \notin {"idle", "reserving", "replied"}
        BY <1>0, <2>1, <2>4 DEF CallInv
      <3> QED BY <1>0, <2>2, <2>4, <3>1, <3>2 DEF CallInv
    <2> QED BY <2>3, <2>4
  <1>11. ASSUME NEW p \in Products, AdminStep(p) PROVE CallInv(d)'
    BY <1>0, <1>11, CallQuiet DEF AdminStep, UpdateStock, CheckRemoval, RemoveProduct
  <1>12. ASSUME CrashOrderService PROVE CallInv(d)'
    <2>1. harmed \subseteq harmed' /\ (order[d] \in {"waiting", "writing"} => d \in harmed')
      BY <1>0, <1>12, FaultType DEF CrashOrderService
    <2>2. order'[d] = IF order[d] \in {"waiting", "writing"} THEN "failed" ELSE order[d]
      BY <1>12 DEF CrashOrderService
    <2> QED BY <1>0, <1>12, <2>1, <2>2 DEF CrashOrderService, CallInv
  <1>13. ASSUME CrashProductService PROVE CallInv(d)'
    <2>1. harmed \subseteq harmed' /\ (handler[d] \in {"reserving", "undoing"} => d \in harmed')
      BY <1>0, <1>13, FaultType DEF CrashProductService
    <2>2. /\ handler'[d] = IF handler[d] \in {"reserving", "undoing"}
                           THEN "dead" ELSE handler[d]
          /\ undo'[d] = {}
      BY <1>13 DEF CrashProductService
    <2> QED BY <1>0, <1>13, <2>1, <2>2 DEF CrashProductService, CallInv
  <1>14. ASSUME UNCHANGED vars PROVE CallInv(d)'
    BY <1>0, <1>14, CallQuiet DEF vars
  <1> QED
    BY <1>1, <1>2, <1>3, <1>4, <1>5, <1>6, <1>7, <1>8, <1>9, <1>10, <1>11, <1>12, <1>13, <1>14
    DEF Next, CheckoutStep, ReserveStep

-----------------------------------------------------------------------------
\* The reservation loop, its compensation and the waiting order agree, and no
\* stockQty becomes negative, for any number of concurrent checkouts and failures.
THEOREM ReservationInvariant == Spec => []ReservationInv
  <1>1. Init => ReservationInv
    BY TypeInit, CallInit DEF ReservationInv
  <1>2. ReservationInv /\ [Next]_vars => ReservationInv'
    BY TypeStep, CallStep DEF ReservationInv
  <1> QED BY <1>1, <1>2, PTL DEF Spec

\* An order is only written for a cart whose every line is reserved, and nothing
\* ever gives a line of it back.
THEOREM OrdersAreReserved == Spec => []OrderedLinesReserved
  <1>1. ReservationInv => OrderedLinesReserved
    BY DEF ReservationInv, CallInv, OrderedLinesReserved
  <1> QED BY <1>1, ReservationInvariant, PTL

\* A checkout that ended without an order and that no failure hit holds no unit,
\* whatever became of the calls it overlapped with.
THEOREM OnlyHarmedCallsLeak == Spec => []LeaksAreFailures
  <1>1. ReservationInv => LeaksAreFailures
    BY DEF ReservationInv, CallInv, LeaksAreFailures
  <1> QED BY <1>1, ReservationInvariant, PTL

-----------------------------------------------------------------------------
(* StockConserved and NoOversell: the units that are out of stock are      *)
(* counted one by one.                                                     *)

\* The inductive invariant: of a product whose stock nobody overwrote, the units out
\* are never more than it had, and with the shelf they are all while it exists.
\* (A removed product keeps its bound and loses its balance: the compensation no
\* longer finds it.)
LedgerInv ==
    \A p \in Products \ rewritten :
        /\ IsFiniteSet(Held(p)) /\ Cardinality(Held(p)) <= InitialStock[p]
        /\ p \in listed => stock[p] + Cardinality(Held(p)) = InitialStock[p]

\* The three things a step can do to the units: take those of a line, put those of a
\* line back, or leave them where they are (and forget a product, or its balance).
Takes(c, l) ==
    /\ l \in DOMAIN cart[c] \ taken[c] /\ InStock(cart[c][l])
    /\ stock' = [stock EXCEPT ![cart[c][l].product] = @ - cart[c][l].quantity]
    /\ taken' = [taken EXCEPT ![c] = @ \cup {l}]
    /\ UNCHANGED <<cart, listed, rewritten>>

Returns(c, l) ==
    /\ l \in taken[c] /\ PutBack(c, l)
    /\ UNCHANGED <<cart, listed, rewritten>>

Still ==
    /\ \A c \in Calls : taken'[c] = taken[c] /\ (taken[c] # {} => cart'[c] = cart[c])
    /\ rewritten \subseteq rewritten' /\ listed' \subseteq listed
    /\ \A p \in Products \ rewritten' : stock'[p] = stock[p]

\* A line has as many units as its quantity says.
LEMMA LineCount ==
    ASSUME NEW c, NEW l, cart[c][l].quantity \in Nat
    PROVE  IsFiniteSet(LineUnits(c, l)) /\ Cardinality(LineUnits(c, l)) = cart[c][l].quantity
  <1> DEFINE q == cart[c][l].quantity
  <1> DEFINE S == LineUnits(c, l)
  <1> DEFINE f == [n \in 1..q |-> <<c, l, n>>]
  <1>1. S = {<<c, l, n>> : n \in 1..q} /\ q \in Nat
    BY DEF LineUnits
  <1>2. f \in Bijection(1..q, S)
    <2>1. f \in [1..q -> S]
      BY <1>1
    <2>2. \A m, n \in 1..q : f[m] = f[n] => m = n
      OBVIOUS
    <2>3. \A u \in S : \E n \in 1..q : f[n] = u
      BY <1>1
    <2> HIDE DEF f, S, q
    <2> QED BY <2>1, <2>2, <2>3 DEF Bijection, Injection, Surjection, IsInjective
  <1>3. ExistsBijection(1..q, S)
    BY <1>2 DEF ExistsBijection
  <1>4. IsFiniteSet(1..q) /\ Cardinality(1..q) = q
    <2> HIDE DEF q
    <2>1. 0 \in Int /\ 1 \in Int /\ q \in Int
      BY <1>1
    <2> QED BY <1>1, <2>1, FS_Interval
  <1> HIDE DEF S, q
  <1>5. IsFiniteSet(S) /\ Cardinality(S) = Cardinality(1..q)
    BY <1>3, <1>4, FS_Bijection
  <1> QED BY <1>4, <1>5 DEF S, q

\* The units that are out are those of the lines taken.
LEMMA HeldUnits ==
    ASSUME NEW p, NEW u
    PROVE  u \in Held(p) <=> \E c \in Calls : \E l \in taken[c] :
                                 cart[c][l].product = p /\ u \in LineUnits(c, l)
  BY DEF Held, Units

\* No unit belongs to two lines.
LEMMA LinesDisjoint ==
    ASSUME NEW c, NEW l, NEW d, NEW k, NEW u \in LineUnits(c, l), u \in LineUnits(d, k)
    PROVE  c = d /\ l = k
  BY DEF LineUnits

\* Taking a line adds its units, none of which was out.
LEMMA TakesUnits ==
    ASSUME TypeOK, NEW c \in Calls, NEW l, Takes(c, l), NEW p
    PROVE  IF cart[c][l].product = p
           THEN Held(p)' = Held(p) \cup LineUnits(c, l) /\ Held(p) \cap LineUnits(c, l) = {}
           ELSE Held(p)' = Held(p)
  <1>1. /\ \A d \in Calls : taken'[d] = IF d = c THEN taken[d] \cup {l} ELSE taken[d]
        /\ cart' = cart /\ l \notin taken[c]
    BY DEF Takes, TypeOK
  <1>2. \A u : u \in Held(p)' <=> \E d \in Calls : \E k \in taken'[d] :
                                     cart[d][k].product = p /\ u \in LineUnits(d, k)
    BY <1>1 DEF Held, Units, LineUnits
  <1>3. \A u : u \in Held(p)' <=> \/ u \in Held(p)
                                  \/ cart[c][l].product = p /\ u \in LineUnits(c, l)
    <2> SUFFICES ASSUME NEW u
                 PROVE  u \in Held(p)' <=> \/ u \in Held(p)
                                           \/ cart[c][l].product = p /\ u \in LineUnits(c, l)
      OBVIOUS
    <2>1. u \in Held(p)' => u \in Held(p) \/ (cart[c][l].product = p /\ u \in LineUnits(c, l))
      <3> SUFFICES ASSUME u \in Held(p)'
                   PROVE  u \in Held(p) \/ (cart[c][l].product = p /\ u \in LineUnits(c, l))
        OBVIOUS
      <3>1. PICK d \in Calls : \E k \in taken'[d] : cart[d][k].product = p /\ u \in LineUnits(d, k)
        BY <1>2
      <3>2. PICK k \in taken'[d] : cart[d][k].product = p /\ u \in LineUnits(d, k)
        BY <3>1
      <3>3. k \in taken[d] \/ (d = c /\ k = l)
        BY <1>1
      <3> QED BY <3>2, <3>3, HeldUnits
    <2>2. u \in Held(p) => u \in Held(p)'
      BY <1>1, <1>2, HeldUnits
    <2>3. cart[c][l].product = p /\ u \in LineUnits(c, l) => u \in Held(p)'
      BY <1>1, <1>2
    <2> QED BY <2>1, <2>2, <2>3
  <1>4. Held(p) \cap LineUnits(c, l) = {}
    <2> SUFFICES ASSUME NEW u \in Held(p), u \in LineUnits(c, l) PROVE FALSE
      OBVIOUS
    <2>1. PICK d \in Calls : \E k \in taken[d] : u \in LineUnits(d, k)
      BY HeldUnits
    <2>2. PICK k \in taken[d] : u \in LineUnits(d, k)
      BY <2>1
    <2>3. d = c /\ k = l
      BY <2>2, LinesDisjoint
    <2> QED BY <1>1, <2>2, <2>3
  <1>5. CASE cart[c][l].product = p
    <2>1. Held(p)' = Held(p) \cup LineUnits(c, l)
      BY <1>3, <1>5
    <2> QED BY <1>4, <1>5, <2>1
  <1>6. CASE cart[c][l].product # p
    <2>1. Held(p)' = Held(p)
      BY <1>3, <1>6
    <2> QED BY <1>6, <2>1
  <1> QED BY <1>5, <1>6

\* Putting a line back removes its units and no others.
LEMMA ReturnsUnits ==
    ASSUME TypeOK, NEW c \in Calls, NEW l, Returns(c, l), NEW p
    PROVE  IF cart[c][l].product = p
           THEN Held(p)' = Held(p) \ LineUnits(c, l) /\ LineUnits(c, l) \subseteq Held(p)
           ELSE Held(p)' = Held(p)
  <1>1. /\ \A d \in Calls : taken'[d] = IF d = c THEN taken[d] \ {l} ELSE taken[d]
        /\ cart' = cart /\ l \in taken[c]
    BY DEF Returns, PutBack, TypeOK
  <1>2. \A u : u \in Held(p)' <=> \E d \in Calls : \E k \in taken'[d] :
                                     cart[d][k].product = p /\ u \in LineUnits(d, k)
    BY <1>1 DEF Held, Units, LineUnits
  <1>3. ASSUME NEW u PROVE u \in Held(p)' <=> u \in Held(p) /\ u \notin LineUnits(c, l)
    <2>1. ASSUME u \in Held(p)' PROVE u \in Held(p) /\ u \notin LineUnits(c, l)
      <3>1. PICK d \in Calls : \E k \in taken'[d] : cart[d][k].product = p /\ u \in LineUnits(d, k)
        BY <1>2, <2>1
      <3>2. PICK k \in taken'[d] : cart[d][k].product = p /\ u \in LineUnits(d, k)
        BY <3>1
      <3>3. k \in taken[d] /\ ~(d = c /\ k = l)
        BY <1>1
      <3> QED BY <3>2, <3>3, HeldUnits, LinesDisjoint
    <2>2. ASSUME u \in Held(p), u \notin LineUnits(c, l) PROVE u \in Held(p)'
      <3>1. PICK d \in Calls : \E k \in taken[d] : cart[d][k].product = p /\ u \in LineUnits(d, k)
        BY <2>2, HeldUnits
      <3>2. PICK k \in taken[d] : cart[d][k].product = p /\ u \in LineUnits(d, k)
        BY <3>1
      <3>3. k \in taken'[d]
        BY <1>1, <2>2, <3>2
      <3> QED BY <1>2, <3>2, <3>3
    <2> QED BY <2>1, <2>2
  <1>4. CASE cart[c][l].product = p
    <2>1. LineUnits(c, l) \subseteq Held(p)
      BY <1>1, <1>4, HeldUnits
    <2>2. Held(p)' = Held(p) \ LineUnits(c, l)
      BY <1>3
    <2> QED BY <1>4, <2>1, <2>2
  <1>5. CASE cart[c][l].product # p
    <2>1. ASSUME NEW u \in Held(p) PROVE u \notin LineUnits(c, l)
      <3>1. PICK d \in Calls : \E k \in taken[d] : cart[d][k].product = p /\ u \in LineUnits(d, k)
        BY HeldUnits
      <3>2. PICK k \in taken[d] : cart[d][k].product = p /\ u \in LineUnits(d, k)
        BY <3>1
      <3> QED BY <1>5, <3>2, LinesDisjoint
    <2>2. Held(p)' = Held(p)
      BY <1>3, <2>1
    <2> QED BY <1>5, <2>2
  <1> QED BY <1>4, <1>5

\* A call whose cart changes holds nothing, so the units stay the same.
LEMMA StillUnits ==
    ASSUME Still, NEW p
    PROVE  Held(p)' = Held(p)
  <1>1. \A u : u \in Held(p)' <=> \E d \in Calls : \E k \in taken'[d] :
                                     cart'[d][k].product = p /\ u \in LineUnits(d, k)'
    BY DEF Held, Units
  <1>2. \A d \in Calls : \A k \in taken[d] : cart'[d] = cart[d] /\ LineUnits(d, k)' = LineUnits(d, k)
    BY DEF Still, LineUnits
  <1>3. \A d \in Calls : taken'[d] = taken[d]
    BY DEF Still
  <1>4. \A u : u \in Held(p)' <=> u \in Held(p)
    BY <1>1, <1>2, <1>3, HeldUnits
  <1> QED BY <1>4

\* Every step is of one of the three kinds.
LEMMA ThreeKinds ==
    ASSUME ReservationInv, [Next]_vars
    PROVE  \/ \E c \in Calls : \E l \in DOMAIN cart[c] : Takes(c, l) \/ Returns(c, l)
           \/ Still
  <1> USE DEF orderVars, handlerVars, productVars, faultVars
  <1>0. TypeOK /\ \A c \in Calls : CallInv(c)
    BY DEF ReservationInv
  <1>1. ASSUME UNCHANGED <<cart, taken, stock, listed, rewritten>> PROVE Still
    BY <1>1 DEF Still
  <1>2. ASSUME NEW c \in Calls, StartCheckout(c) PROVE Still
    <2>1. handler[c] = "idle" /\ taken[c] = {}
      BY <1>0, <1>2 DEF StartCheckout, CallInv
    <2>2. \A d \in Calls \ {c} : cart'[d] = cart[d]
      BY <1>0, <1>2 DEF StartCheckout, TypeOK
    <2> QED BY <1>2, <2>1, <2>2 DEF StartCheckout, Still
  <1>3. ASSUME NEW c \in Calls, ReserveLine(c) PROVE Takes(c, NextLine(c))
    <2>1. handler[c] = "reserving"
      BY <1>3 DEF ReserveLine
    <2>2. NextLine(c) \in DOMAIN cart[c] /\ NextLine(c) \notin taken[c]
      BY <1>0, <2>1, LoopPosition, CartDomain
    <2> QED BY <1>3, <2>2 DEF ReserveLine, Takes
  <1>4. ASSUME NEW c \in Calls, QueryFails(c) PROVE Still \/ Takes(c, NextLine(c))
    <2>1. handler[c] = "reserving"
      BY <1>4 DEF QueryFails
    <2>2. NextLine(c) \in DOMAIN cart[c] /\ NextLine(c) \notin taken[c]
      BY <1>0, <2>1, LoopPosition, CartDomain
    <2>3. UNCHANGED <<cart, listed, rewritten>>
      BY <1>4 DEF QueryFails
    <2>4. CASE UNCHANGED <<taken, stock>>
      BY <1>1, <2>3, <2>4
    <2>5. CASE /\ InStock(cart[c][NextLine(c)])
               /\ stock' = [stock EXCEPT ![cart[c][NextLine(c)].product]
                                         = @ - cart[c][NextLine(c)].quantity]
               /\ taken' = [taken EXCEPT ![c] = @ \cup {NextLine(c)}]
      BY <2>2, <2>3, <2>5 DEF Takes
    <2> QED BY <1>4, <2>4, <2>5 DEF QueryFails
  <1>5. ASSUME NEW c \in Calls, UndoLine(c) \/ UndoFails(c)
        PROVE  Still \/ \E l \in DOMAIN cart[c] : Returns(c, l)
    <2>1. UNCHANGED <<cart, listed, rewritten>>
      BY <1>5 DEF UndoLine, UndoFails
    <2>2. PICK l \in undo[c] : PutBack(c, l) \/ UNCHANGED <<taken, stock>>
      BY <1>5 DEF UndoLine, UndoFails
    <2>3. l \in taken[c] /\ l \in DOMAIN cart[c]
      BY <1>0 DEF CallInv
    <2> QED BY <1>1, <2>1, <2>2, <2>3 DEF Returns
  <1>6. ASSUME NEW p \in Products, UpdateStock(p) PROVE Still
    <2>1. \A x \in Products \ {p} : stock'[x] = stock[x]
      BY <1>0, <1>6 DEF UpdateStock, TypeOK
    <2> QED BY <1>6, <2>1 DEF UpdateStock, Still
  <1>7. ASSUME NEW p \in Products, RemoveProduct(p) PROVE Still
    BY <1>7 DEF RemoveProduct, Still
  <1>8. ASSUME NEW c \in Calls,
               ReceiveReply(c) \/ AbandonCall(c) \/ WriteOrder(c) \/ CloseOrder(c) \/ RefuseLine(c)
        PROVE  Still
    BY <1>1, <1>8 DEF ReceiveReply, AbandonCall, WriteOrder, CloseOrder, RefuseLine
  <1>9. ASSUME NEW p \in Products, CheckRemoval(p) PROVE Still
    BY <1>1, <1>9 DEF CheckRemoval
  <1>10. ASSUME CrashOrderService \/ CrashProductService \/ UNCHANGED vars PROVE Still
    BY <1>1, <1>10 DEF CrashOrderService, CrashProductService, vars
  <1>11. \A c \in Calls : handler[c] = "reserving" => NextLine(c) \in DOMAIN cart[c]
    BY NextLineType
  <1>12. \A c \in Calls : ReserveLine(c) \/ QueryFails(c) => handler[c] = "reserving"
    BY DEF ReserveLine, QueryFails
  <1> QED
    BY <1>2, <1>3, <1>4, <1>5, <1>6, <1>7, <1>8, <1>9, <1>10, <1>11, <1>12
    DEF Next, CheckoutStep, ReserveStep, AdminStep

\* Taking the units of a line moves them from the shelf to the line.
LEMMA TakesCount ==
    ASSUME TypeOK, LedgerInv, NEW c \in Calls, NEW l \in DOMAIN cart[c], Takes(c, l),
           NEW p \in Products \ rewritten
    PROVE  /\ IsFiniteSet(Held(p)') /\ Cardinality(Held(p)') <= InitialStock[p]
           /\ p \in listed => stock'[p] + Cardinality(Held(p)') = InitialStock[p]
  <1> DEFINE q == cart[c][l].quantity
  <1> DEFINE H == Held(p)
  <1> DEFINE A == LineUnits(c, l)
  <1>1. /\ q \in Nat /\ stock[p] \in Nat /\ InitialStock[p] \in Nat
        /\ IsFiniteSet(H) /\ Cardinality(H) \in Nat /\ Cardinality(H) <= InitialStock[p]
        /\ p \in listed => stock[p] + Cardinality(H) = InitialStock[p]
    <2>1. q \in Nat /\ stock[p] \in Nat /\ InitialStock[p] \in Nat
      BY CartLines, StockAssumption DEF TypeOK
    <2>2. IsFiniteSet(H)
      BY DEF LedgerInv
    <2> QED BY <2>1, <2>2, FS_CardinalityType DEF LedgerInv
  <1>2. CASE cart[c][l].product = p
    <2>1. Held(p)' = H \cup A /\ H \cap A = {}
      BY <1>2, TakesUnits
    <2>2. IsFiniteSet(A) /\ Cardinality(A) = q
      BY <1>1, LineCount
    <2>3. stock'[p] = stock[p] - q /\ q <= stock[p] /\ p \in listed
      BY <1>2 DEF Takes, InStock, TypeOK
    <2> HIDE DEF H, A, q
    <2>4. IsFiniteSet(H \cup A)
          /\ Cardinality(H \cup A) = Cardinality(H) + Cardinality(A) - Cardinality(H \cap A)
      BY <1>1, <2>2, FS_Union
    <2>5. Cardinality(H \cap A) = 0
      BY <2>1, FS_EmptySet
    <2>6. Cardinality(H \cup A) = Cardinality(H) + q
      BY <1>1, <2>2, <2>4, <2>5
    <2> QED BY <1>1, <2>1, <2>3, <2>4, <2>6
  <1>3. CASE cart[c][l].product # p
    <2>1. Held(p)' = H
      BY <1>3, TakesUnits
    <2>2. stock'[p] = stock[p]
      BY <1>3 DEF Takes, TypeOK
    <2> QED BY <1>1, <2>1, <2>2
  <1> QED BY <1>2, <1>3

\* Putting them back moves them to the shelf, or nowhere when the product is gone.
LEMMA ReturnsCount ==
    ASSUME TypeOK, LedgerInv, NEW c \in Calls, NEW l \in DOMAIN cart[c], Returns(c, l),
           NEW p \in Products \ rewritten
    PROVE  /\ IsFiniteSet(Held(p)') /\ Cardinality(Held(p)') <= InitialStock[p]
           /\ p \in listed => stock'[p] + Cardinality(Held(p)') = InitialStock[p]
  <1> DEFINE q == cart[c][l].quantity
  <1> DEFINE H == Held(p)
  <1> DEFINE A == LineUnits(c, l)
  <1>1. /\ q \in Nat /\ stock[p] \in Nat /\ InitialStock[p] \in Nat
        /\ IsFiniteSet(H) /\ Cardinality(H) \in Nat /\ Cardinality(H) <= InitialStock[p]
        /\ p \in listed => stock[p] + Cardinality(H) = InitialStock[p]
    <2>1. q \in Nat /\ stock[p] \in Nat /\ InitialStock[p] \in Nat
      BY CartLines, StockAssumption DEF TypeOK
    <2>2. IsFiniteSet(H)
      BY DEF LedgerInv
    <2> QED BY <2>1, <2>2, FS_CardinalityType DEF LedgerInv
  <1>2. CASE cart[c][l].product = p
    <2>1. Held(p)' = H \ A /\ A \subseteq H
      BY <1>2, ReturnsUnits
    <2>2. IsFiniteSet(A) /\ Cardinality(A) = q
      BY <1>1, LineCount
    <2>3. p \in listed => stock'[p] = stock[p] + q
      BY <1>2 DEF Returns, PutBack, TypeOK
    <2> HIDE DEF H, A, q
    <2>4. IsFiniteSet(H \ A) /\ Cardinality(H \ A) = Cardinality(H) - Cardinality(H \cap A)
      BY <1>1, FS_Difference
    <2>5. H \cap A = A
      BY <2>1
    <2>6. Cardinality(H \ A) = Cardinality(H) - q
      BY <2>2, <2>4, <2>5
    <2>7. Cardinality(H \ A) \in Nat
      BY <2>4, FS_CardinalityType
    <2> QED BY <1>1, <2>1, <2>3, <2>4, <2>6, <2>7
  <1>3. CASE cart[c][l].product # p
    <2>1. Held(p)' = H
      BY <1>3, ReturnsUnits
    <2>2. stock'[p] = stock[p]
      BY <1>3 DEF Returns, PutBack, TypeOK
    <2> QED BY <1>1, <2>1, <2>2
  <1> QED BY <1>2, <1>3

\* The ledger is balanced at first and after every step.
LEMMA LedgerInit == Init => LedgerInv
  <1> SUFFICES ASSUME Init, NEW p \in Products
               PROVE  /\ IsFiniteSet(Held(p)) /\ Cardinality(Held(p)) <= InitialStock[p]
                      /\ stock[p] + Cardinality(Held(p)) = InitialStock[p]
    BY DEF LedgerInv
  <1>1. Held(p) = {}
    BY DEF Init, Held, Units
  <1>2. IsFiniteSet(Held(p)) /\ Cardinality(Held(p)) = 0
    BY <1>1, FS_EmptySet
  <1> QED BY <1>2, StockAssumption DEF Init

\* Whatever step is taken, the units move and none appears or is lost.
LEMMA LedgerStep ==
    ASSUME ReservationInv, LedgerInv, [Next]_vars
    PROVE  LedgerInv'
  <1>0. TypeOK
    BY DEF ReservationInv
  <1>1. CASE \E c \in Calls : \E l \in DOMAIN cart[c] : Takes(c, l) \/ Returns(c, l)
    <2>1. PICK c \in Calls : \E l \in DOMAIN cart[c] : Takes(c, l) \/ Returns(c, l)
      BY <1>1
    <2>2. PICK l \in DOMAIN cart[c] : Takes(c, l) \/ Returns(c, l)
      BY <2>1
    <2>3. listed' = listed /\ rewritten' = rewritten
      BY <2>2 DEF Takes, Returns
    <2>4. ASSUME NEW p \in Products \ rewritten
          PROVE  /\ IsFiniteSet(Held(p)') /\ Cardinality(Held(p)') <= InitialStock[p]
                 /\ p \in listed => stock'[p] + Cardinality(Held(p)') = InitialStock[p]
      BY <1>0, <2>2, TakesCount, ReturnsCount
    <2> QED BY <2>3, <2>4 DEF LedgerInv
  <1>2. CASE Still
    <2>1. \A p \in Products : Held(p)' = Held(p)
      BY <1>2, StillUnits
    <2> QED BY <1>2, <2>1 DEF LedgerInv, Still
  <1> QED BY <1>1, <1>2, ThreeKinds

\* Every state of a behaviour has a balanced ledger.
LEMMA LedgerIsKept == Spec => [](ReservationInv /\ LedgerInv)
  <1>1. Init => ReservationInv /\ LedgerInv
    BY TypeInit, CallInit, LedgerInit DEF ReservationInv
  <1>2. ReservationInv /\ LedgerInv /\ [Next]_vars => (ReservationInv /\ LedgerInv)'
    BY TypeStep, CallStep, LedgerStep DEF ReservationInv
  <1> QED BY <1>1, <1>2, PTL DEF Spec

\* No interleaving of any number of checkouts, compensations, time-outs and crashes
\* creates or loses a unit: each is on the shelf or held by one line of one call.
THEOREM UnitsAreConserved == Spec => []StockConserved
  <1>1. ReservationInv /\ LedgerInv => StockConserved
    BY DEF ReservationInv, TypeOK, LedgerInv, StockConserved
  <1> QED BY <1>1, LedgerIsKept, PTL

\* The orders of a product never add up to more units than it had.
THEOREM NothingIsOversold == Spec => []NoOversell
  <1>1. ReservationInv /\ LedgerInv => NoOversell
    <2> SUFFICES ASSUME ReservationInv, LedgerInv, NEW p \in Products \ rewritten
                 PROVE  Cardinality(Sold(p)) <= InitialStock[p]
      BY DEF NoOversell
    <2>1. \A c \in Ordered : c \in Calls /\ taken[c] = DOMAIN cart[c]
      BY DEF Ordered, ReservationInv, CallInv
    <2>2. Sold(p) \subseteq Held(p)
      BY <2>1 DEF Sold, Held
    <2>3. IsFiniteSet(Held(p)) /\ Cardinality(Held(p)) <= InitialStock[p]
      BY DEF LedgerInv
    <2>4. /\ IsFiniteSet(Sold(p)) /\ Cardinality(Sold(p)) <= Cardinality(Held(p))
          /\ Cardinality(Sold(p)) \in Nat /\ Cardinality(Held(p)) \in Nat
      BY <2>2, <2>3, FS_Subset, FS_CardinalityType
    <2> QED BY <2>3, <2>4, StockAssumption
  <1> QED BY <1>1, LedgerIsKept, PTL
=============================================================================
