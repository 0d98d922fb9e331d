------------------------------ MODULE MCTunnel ------------------------------
(***************************************************************************)
(* A caller, and a target that has two sessions; one call, because calls   *)
(* do not meet.                                                            *)
(***************************************************************************)
EXTENDS Tunnel

MCPeer == [s \in {"s1", "s2", "s3"} |-> IF s = "s1" THEN "ann" ELSE "bob"]
=============================================================================
