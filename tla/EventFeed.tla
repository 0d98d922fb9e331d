----------------------------- MODULE EventFeed -----------------------------
(***************************************************************************)
(* What the attendants broadcaster of a room promises its subscribers      *)
(* (internal/broadcasts/attendants.go): every event reaches all streams    *)
(* that are subscribed at that moment, in one step, so that no two         *)
(* subscribers can see two events in different orders.  A subscriber is    *)
(* represented by the set of peers its client believes to be in the room.  *)
(***************************************************************************)
CONSTANTS Observer,   \* the streams that may subscribe
          Peer        \* the peers events are about

VARIABLES subs,       \* the streams subscribed and still connected
          view,       \* view[o]: the peers o's client believes present
          last        \* last[p]: the last event there was about p, or "none"

feedVars == <<subs, view, last>>

Event == {"joined", "left"}

\* What a client does to its list when it reads one event about p.
Apply(S, e, p) == IF e = "joined" THEN S \union {p} ELSE S \ {p}

FeedInit ==
    /\ subs = {}
    /\ view = [o \in Observer |-> {}]
    /\ last = [p \in Peer |-> "none"]

\* The stream starts with a list of the peers present, before it subscribes.
Open(o, S) ==
    /\ o \notin subs
    /\ view' = [view EXCEPT ![o] = S]
    /\ UNCHANGED <<subs, last>>

Subscribe(o) ==
    /\ subs' = subs \union {o}
    /\ UNCHANGED <<view, last>>

\* One event, seen by every subscriber at once.
Publish(e, p) ==
    /\ view' = [o \in Observer |->
                   IF o \in subs THEN Apply(view[o], e, p) ELSE view[o]]
    /\ last' = [last EXCEPT ![p] = e]
    /\ UNCHANGED subs

\* The connection of o ends: it is no subscriber any more and has no view.
Drop(o) ==
    /\ subs' = subs \ {o}
    /\ view' = [view EXCEPT ![o] = {}]
    /\ UNCHANGED last

FeedNext ==
    \/ \E o \in Observer :
          \/ \E S \in SUBSET Peer : Open(o, S)
          \/ Subscribe(o)
          \/ Drop(o)
    \/ \E e \in Event, p \in Peer : Publish(e, p)

FeedSpec == FeedInit /\ [][FeedNext]_feedVars
=============================================================================
