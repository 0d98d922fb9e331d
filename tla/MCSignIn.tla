------------------------------ MODULE MCSignIn ------------------------------
(***************************************************************************)
(* Two challenges.  Two members solve the first one, at the same time if   *)
(* they like, and two pages wait for it; a third page waits for the second *)
(* challenge, which nobody solves.                                         *)
(***************************************************************************)
EXTENDS SignIn

CONSTANTS c1, c2, alf, bre, sol1, sol2, page1, page2, page3

MCChallengeOf == [x \in Call \union Page |-> IF x = page3 THEN c2 ELSE c1]
MCMemberOf == [s \in Call |-> IF s = sol2 THEN bre ELSE alf]
=============================================================================
