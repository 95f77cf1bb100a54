--------------------------- MODULE MCRegistration ---------------------------
(***************************************************************************)
(* Small instances of Registration for TLC.                                *)
(***************************************************************************)
EXTENDS Registration

CONSTANT t1

Lower(email) == IF email = "Ann" THEN "ann" ELSE email
Address(x) == IF x = "seed" THEN "host" ELSE "office"
=============================================================================
