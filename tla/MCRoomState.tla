---------------------------- MODULE MCRoomState ----------------------------
(***************************************************************************)
(* Instances of RoomState for TLC.  A thread is a pair of a session and a  *)
(* task: the RPC worker of the session and one goroutine per registered    *)
(* connect handler (tunnel.connect and room.connect).                      *)
(***************************************************************************)
EXTENDS RoomState, TLC

CONSTANTS alf, bre, carl,            \* feeds
          alf1, alf2, bre1, carl1,   \* sessions
          rpc, tunnel, roomConnect   \* tasks

MCOwner ==
    [s \in Session |-> CASE s \in {alf1, alf2} -> alf
                         [] s = bre1 -> bre
                         [] s = carl1 -> carl]

Tasks(hooks) == Session \X ({rpc} \union hooks)
\* Every thread there is, and one removal per session instead of two.
MCThread     == Tasks({tunnel, roomConnect})
MCThread1    == Tasks({tunnel})
\* Only one removal, of alf1, for the larger instances.
MCThreadA    == (Session \X {rpc}) \union ({alf1} \X {tunnel})
MCHook       == {t \in Thread : t[2] # rpc}
MCSessionOf  == [t \in Thread |-> t[1]]

\* alf has two sessions, and is refused the list of attendants on one.
Reconnect ==
    [s \in Session |-> CASE s = alf1    -> {"announce"}
                         [] s = alf2    -> {"leave", "attendants"}
                         [] OTHER       -> {"attendants"}]

\* alf announces and leaves, bre opens both streams.
BothStreams ==
    [s \in Session |-> IF Owner[s] = alf THEN {"announce", "leave", "endpoints"}
                                         ELSE {"endpoints", "attendants"}]

OnlyAnnounce == [s \in Session |-> {"announce"}]
=============================================================================
