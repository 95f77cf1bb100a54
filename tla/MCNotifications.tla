-------------------------- MODULE MCNotifications --------------------------
(***************************************************************************)
(* Small instances of Notifications for TLC.                               *)
(***************************************************************************)
EXTENDS Notifications, TLC

CONSTANTS o1, c1, c2

OwnerOf == o1 :> c1
OutcomeOf == o1 :> "PAYMENT_FAILED"
=============================================================================
