----------------------------- MODULE MCListener -----------------------------
(***************************************************************************)
(* Instances of Listener for TLC: the bounds are numbers, nothing else is  *)
(* needed.                                                                 *)
(***************************************************************************)
EXTENDS Listener
=============================================================================
