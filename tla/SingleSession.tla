--------------------------- MODULE SingleSession ---------------------------
(***************************************************************************)
(* What a connection tracker is for: a peer has one session at a time.     *)
(***************************************************************************)
CONSTANTS Conn,     \* connections
          FeedOf    \* FeedOf[c]: the feed authenticated on connection c

VARIABLE sessions   \* the connections that are being served

\* A connection is let in only when its peer has no session.
Enter(c) ==
    /\ \A d \in sessions : FeedOf[d] # FeedOf[c]
    /\ sessions' = sessions \union {c}

Exit(c) ==
    /\ c \in sessions
    /\ sessions' = sessions \ {c}

SessionInit == sessions = {}

SessionNext == \E c \in Conn : Enter(c) \/ Exit(c)

SessionSpec == SessionInit /\ [][SessionNext]_sessions
=============================================================================
