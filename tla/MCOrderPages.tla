---------------------------- MODULE MCOrderPages ----------------------------
(***************************************************************************)
(* Small instances of OrderPages for TLC.                                  *)
(***************************************************************************)
EXTENDS OrderPages

CONSTANT me
=============================================================================
