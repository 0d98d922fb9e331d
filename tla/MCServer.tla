------------------------------ MODULE MCServer ------------------------------
(***************************************************************************)
(* Two processes on one repository, started twice in all, and a signal.      *)
(***************************************************************************)
EXTENDS Server
=============================================================================
