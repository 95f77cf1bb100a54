--------------------------- MODULE MCAuthSession ---------------------------
(***************************************************************************)
(* Small instances of AuthSession for TLC.                                 *)
(***************************************************************************)
EXTENDS AuthSession, TLC

\* Requests are interchangeable; used by runs without liveness properties.
RequestSymmetry == Permutations(Requests)
=============================================================================
