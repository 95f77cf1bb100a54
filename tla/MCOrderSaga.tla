---------------------------- MODULE MCOrderSaga ----------------------------
(***************************************************************************)
(* Small instances of OrderSaga for TLC.                                   *)
(***************************************************************************)
EXTENDS OrderSaga

\* Totals in cents on both sides of the provider's limit of 5000.00, itself included.
MCLimit == 500000
MCAmounts == {MCLimit, MCLimit + 1}
=============================================================================
