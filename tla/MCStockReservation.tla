------------------------- MODULE MCStockReservation -------------------------
(***************************************************************************)
(* Small instances of StockReservation for TLC.                            *)
(***************************************************************************)
EXTENDS StockReservation, TLC

CONSTANTS p1, p2

L(p, n) == [product |-> p, quantity |-> n]

\* Carts that need the two products in both orders, the same product twice, and
\* more units in one line than another cart may have left.
MCCarts == {<<L(p1, 1), L(p2, 1)>>, <<L(p2, 1), L(p1, 2)>>, <<L(p1, 1), L(p1, 1)>>}

\* Two units of one product, one of the other: two calls compete for both.
MCStock == [p \in Products |-> IF p = p1 THEN 2 ELSE 1]
=============================================================================
