--------------------------- MODULE MCConnections ---------------------------
(* Instances of Connections for TLC: up to four connections, two feeds.    *)
EXTENDS Connections, TLC

CONSTANTS alf, bre, c1, c2, c3, c4

\* c4 is bre's, the others are alf's.
MCFeedOf == [c \in Conn |-> IF c = c4 THEN bre ELSE alf]
=============================================================================
