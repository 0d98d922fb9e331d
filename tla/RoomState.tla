----------------------------- MODULE RoomState -----------------------------
(***************************************************************************)
(* The room: who is in it, and who is told about it.                       *)
(*                                                                         *)
(*   roomstate/roomstate.go         Manager, the map of feed to endpoint   *)
(*   internal/broadcasts/*.go       the two broadcasters and their mutexes *)
(*   muxrpc/handlers/tunnel/server  announce, leave, endpoints, attendants *)
(*                                  and HandleConnect                      *)
(*                                                                         *)
(* Every RPC handler runs in a goroutine of its own, and so does every     *)
(* HandleConnect, which waits for its session to end and then removes the  *)
(* peer.  A step of a thread is a stretch of code between two points where *)
(* another goroutine can get in: a mutex taken, a mutex given back, a      *)
(* message written to one stream.                                          *)
(*                                                                         *)
(* A stream is named by the session that opened it: a session opens at     *)
(* most one stream of each kind.  What its client does with the messages   *)
(* is folded into one set per stream, the peers the client believes are in *)
(* the room.                                                               *)
(***************************************************************************)
EXTENDS Naturals, FiniteSets

CONSTANTS Peer,         \* feeds
          Session,      \* muxrpc sessions (endpoints); they end for good
          Thread,       \* goroutines
          Hook,         \* the threads that run HandleConnect
          Owner,        \* Owner[s]: the feed authenticated on session s
          SessionOf,    \* SessionOf[t]: the session thread t serves
          Requests,     \* Requests[s]: the calls session s makes (a bound)
          Enumerators,  \* the peers the privacy mode lets list the room
          NoEndpoint,   \* no entry in the map
          Free          \* a mutex nobody holds

Operation == {"announce", "leave", "endpoints", "attendants", "hangup"}

ASSUME ConstantsAssumption ==
    /\ Hook \subseteq Thread
    /\ Owner \in [Session -> Peer]
    /\ SessionOf \in [Thread -> Session]
    /\ Requests \in [Session -> SUBSET (Operation \ {"hangup"})]
    /\ Enumerators \subseteq Peer
    /\ NoEndpoint \notin Session
    /\ Free \notin Thread

VARIABLES
    link,        \* link[s]: state of the connection under session s
    room,        \* Manager.room
    stage,       \* stage[t]: how far thread t is in its handler
    op,          \* op[t]: the handler thread t runs
    list,        \* list[t]: the copy of the members t took under roomMu
    edpMu,       \* EndpointsBroadcast.mu: its holder, or Free
    edpSinks,    \* EndpointsBroadcast.sinks
    edpTodo,     \* the sinks the holder's loop has not reached yet
    edpView,     \* edpView[s]: the last list stream s received
    attMu,       \* AttendantsBroadcast.mu
    attSinks,    \* AttendantsBroadcast.sinks
    attTodo,
    attView,     \* attView[s]: initial state plus joined minus left
    lastEvent,   \* history: the event about a peer delivered last
    heard,       \* history: peers stream s got an event about
    raced,       \* history: peers that two threads published concurrently
    contended    \* history: the last change of the room overtook a list
                 \* some thread had taken and not yet sent

edpVars  == <<edpMu, edpSinks, edpTodo, edpView>>
attVars  == <<attMu, attSinks, attTodo, attView>>
history  == <<lastEvent, heard, raced, contended>>
vars     == <<link, room, stage, op, list, edpVars, attVars, history>>

-----------------------------------------------------------------------------
\* Manager.AsList: the members of the room, as a set.
Members == {p \in Peer : room[p] # NoEndpoint}

PeerOf(t) == Owner[SessionOf[t]]

\* The event a thread publishes after it changed the room.
EventOf(t) == IF op[t] \in {"leave", "hangup"} THEN "left" ELSE "joined"

\* t changed the room (or would have) and has yet to publish the event.
Publishing(t) == stage[t] \in {"update", "updating", "emit"}

\* t took a list of the members that it has yet to send.
HoldsList(t) == stage[t] = "update" \/ (stage[t] = "write" /\ op[t] = "endpoints")

\* What a client does to its list when it reads one event about p.
Apply(S, e, p) == IF e = "joined" THEN S \union {p} ELSE S \ {p}

\* Where a handler goes when its broadcasts are done.
AfterBroadcast(t) ==
    CASE op[t] = "hangup"                      -> "done"
      [] op[t] \in {"endpoints", "attendants"} -> "list"
      [] OTHER                                 -> "idle"

Init ==
    /\ link = [s \in Session |-> "new"]
    /\ room = [p \in Peer |-> NoEndpoint]
    /\ stage = [t \in Thread |-> IF t \in Hook THEN "waiting" ELSE "idle"]
    /\ op = [t \in Thread |-> IF t \in Hook THEN "hangup" ELSE "leave"]
    /\ list = [t \in Thread |-> {}]
    /\ edpMu = Free
    /\ edpSinks = {}
    /\ edpTodo = {}
    /\ edpView = [s \in Session |-> {}]
    /\ attMu = Free
    /\ attSinks = {}
    /\ attTodo = {}
    /\ attView = [s \in Session |-> {}]
    /\ lastEvent = [p \in Peer |-> "none"]
    /\ heard = [s \in Session |-> {}]
    /\ raced = {}
    /\ contended = FALSE

-----------------------------------------------------------------------------
(* Sessions and requests: what the network does.                           *)

Connect(s) ==
    /\ link[s] = "new"
    /\ link' = [link EXCEPT ![s] = "live"]
    /\ UNCHANGED <<room, stage, op, list, edpVars, attVars, history>>

\* The session ends, whatever its handlers are doing.
Hangup(s) ==
    /\ link[s] = "live"
    /\ link' = [link EXCEPT ![s] = "ended"]
    /\ UNCHANGED <<room, stage, op, list, edpVars, attVars, history>>

\* Bound: a session asks for each kind of stream once.
OneStreamEach(t, o) ==
    /\ o = "endpoints" => SessionOf[t] \notin edpSinks
    /\ o = "attendants" => SessionOf[t] \notin attSinks
    /\ o \in {"endpoints", "attendants"} =>
          \A u \in Thread : SessionOf[u] = SessionOf[t] /\ op[u] = o
                              => stage[u] = "idle"

\* A request arrives and its handler is started.
Call(t, o) ==
    /\ t \notin Hook
    /\ stage[t] = "idle"
    /\ link[SessionOf[t]] = "live"
    /\ o \in Requests[SessionOf[t]]
    /\ OneStreamEach(t, o)
    /\ stage' = [stage EXCEPT ![t] = "called"]
    /\ op' = [op EXCEPT ![t] = o]
    /\ UNCHANGED <<link, room, list, edpVars, attVars, history>>

\* endpoints and attendants refuse outside users of a closed room, and
\* anybody when the query for the mode or the member fails.
Refuse(t) ==
    /\ stage[t] = "called"
    /\ op[t] \in {"endpoints", "attendants"}
    /\ stage' = [stage EXCEPT ![t] = "idle"]
    /\ UNCHANGED <<link, room, op, list, edpVars, attVars, history>>

-----------------------------------------------------------------------------
(* Manager: the critical sections under roomMu.                            *)

\* History.  Two threads are between their change of the room and their event
\* for the same peer: the events need not come out in the order of the
\* changes.  And another thread holds a list that is outdated from now on.
NoteRace(t) ==
    /\ raced' = IF \E u \in Thread \ {t} :
                       Publishing(u) /\ PeerOf(u) = PeerOf(t)
                THEN raced \union {PeerOf(t)}
                ELSE raced
    /\ contended' = \E u \in Thread \ {t} : HoldsList(u)

\* Mutant: the members are copied before the entry is set.
SetEntryCopiesFirst(t) ==
    /\ room' = [room EXCEPT ![PeerOf(t)] = SessionOf[t]]
    /\ list' = [list EXCEPT ![t] = Members]
    /\ stage' = [stage EXCEPT ![t] = "update"]
    /\ NoteRace(t)

\* room[who] = edp and the copy of the members, with roomMu held.
SetEntry(t) ==
    /\ room' = [room EXCEPT ![PeerOf(t)] = SessionOf[t]]
    /\ list' = [list EXCEPT ![t] = Members']
    /\ stage' = [stage EXCEPT ![t] = "update"]
    /\ NoteRace(t)

DeleteEntry(t) ==
    /\ room' = [room EXCEPT ![PeerOf(t)] = NoEndpoint]
    /\ list' = [list EXCEPT ![t] = Members']
    /\ stage' = [stage EXCEPT ![t] = "update"]
    /\ NoteRace(t)

\* announce, and the first thing attendants does once it is allowed to.
AddEndpoint(t) ==
    /\ stage[t] = "called"
    /\ \/ op[t] = "announce"
       \/ op[t] = "attendants" /\ PeerOf(t) \in Enumerators
    /\ SetEntry(t)
    /\ UNCHANGED <<link, op, edpVars, attVars, lastEvent, heard>>

\* Mutant: only the session's own entry is removed, the event comes anyway.
LeaveOwnEntry(t) ==
    /\ stage[t] = "called"
    /\ op[t] = "leave"
    /\ room' = IF room[PeerOf(t)] = SessionOf[t]
               THEN [room EXCEPT ![PeerOf(t)] = NoEndpoint]
               ELSE room
    /\ list' = [list EXCEPT ![t] = Members']
    /\ stage' = [stage EXCEPT ![t] = "update"]
    /\ NoteRace(t)
    /\ UNCHANGED <<link, op, edpVars, attVars, lastEvent, heard>>

Leave(t) ==
    /\ stage[t] = "called"
    /\ op[t] = "leave"
    /\ DeleteEntry(t)
    /\ UNCHANGED <<link, op, edpVars, attVars, lastEvent, heard>>

\* HandleConnect: the context of the session is done, the peer is removed,
\* whichever session its entry belongs to.
HandleConnect(t) ==
    /\ t \in Hook
    /\ stage[t] = "waiting"
    /\ link[SessionOf[t]] = "ended"
    /\ DeleteEntry(t)
    /\ UNCHANGED <<link, op, edpVars, attVars, lastEvent, heard>>

\* Manager.AlreadyAdded, in the handler of endpoints.
AlreadyAdded(t) ==
    /\ stage[t] = "registered"
    /\ \/ /\ room[PeerOf(t)] # NoEndpoint
          /\ stage' = [stage EXCEPT ![t] = "list"]
          /\ UNCHANGED <<room, list, raced, contended>>
       \/ /\ room[PeerOf(t)] = NoEndpoint
          /\ SetEntry(t)
    /\ UNCHANGED <<link, op, edpVars, attVars, lastEvent, heard>>

\* Manager.List and ListAsRefs: what a new stream is sent first.
TakeList(t) ==
    /\ stage[t] = "list"
    /\ list' = [list EXCEPT ![t] = Members]
    /\ stage' = [stage EXCEPT ![t] = "write"]
    /\ UNCHANGED <<link, room, op, edpVars, attVars, history>>

\* The copy goes out of scope.
Forget(t) == list' = [list EXCEPT ![t] = {}]

-----------------------------------------------------------------------------
(* EndpointsBroadcast.                                                     *)

EdpFree == edpMu = Free

\* endpoints registers its stream before it looks at the room.
RegisterEndpoints(t) ==
    /\ stage[t] = "called"
    /\ op[t] = "endpoints"
    /\ PeerOf(t) \in Enumerators
    /\ EdpFree
    /\ edpSinks' = edpSinks \union {SessionOf[t]}
    /\ stage' = [stage EXCEPT ![t] = "registered"]
    /\ UNCHANGED <<link, room, op, list, edpMu, edpTodo, edpView, attVars,
                   history>>

\* The first message of the stream is written around the broadcaster.
WriteEndpoints(t) ==
    /\ stage[t] = "write"
    /\ op[t] = "endpoints"
    /\ edpView' = IF link[SessionOf[t]] = "live"
                  THEN [edpView EXCEPT ![SessionOf[t]] = list[t]]
                  ELSE edpView
    /\ Forget(t)
    /\ stage' = [stage EXCEPT ![t] = "idle"]
    /\ UNCHANGED <<link, room, op, edpMu, edpSinks, edpTodo, attVars,
                   history>>

LockEndpoints(t) ==
    /\ stage[t] = "update"
    /\ EdpFree
    /\ edpMu' = t
    /\ edpTodo' = edpSinks
    /\ stage' = [stage EXCEPT ![t] = "updating"]
    /\ UNCHANGED <<link, room, op, list, edpSinks, edpView, attVars, history>>

\* Mutant: the loop returns at a sink that errors, with the mutex held.
SendUpdateReturns(t, s) ==
    /\ stage[t] = "updating"
    /\ s \in edpTodo
    /\ edpTodo' = edpTodo \ {s}
    /\ IF link[s] = "live"
       THEN /\ edpView' = [edpView EXCEPT ![s] = list[t]]
            /\ UNCHANGED stage
       ELSE /\ stage' = [stage EXCEPT ![t] = "emit"]
            /\ UNCHANGED edpView
    /\ UNCHANGED <<link, room, op, list, edpMu, edpSinks, attVars, history>>

\* Mutant: the loop visits a sink again after it dropped it.
SendUpdateStays(t, s) ==
    /\ stage[t] = "updating"
    /\ s \in edpTodo
    /\ IF link[s] = "live"
       THEN /\ edpView' = [edpView EXCEPT ![s] = list[t]]
            /\ edpTodo' = edpTodo \ {s}
            /\ UNCHANGED edpSinks
       ELSE /\ edpSinks' = edpSinks \ {s}
            /\ UNCHANGED <<edpTodo, edpView>>
    /\ UNCHANGED <<link, room, stage, op, list, edpMu, attVars, history>>

\* One sink of the loop, in any order; one that errors is dropped.
SendUpdate(t, s) ==
    /\ stage[t] = "updating"
    /\ s \in edpTodo
    /\ edpTodo' = edpTodo \ {s}
    /\ IF link[s] = "live"
       THEN /\ edpView' = [edpView EXCEPT ![s] = list[t]]
            /\ UNCHANGED edpSinks
       ELSE /\ edpSinks' = edpSinks \ {s}
            /\ UNCHANGED edpView
    /\ UNCHANGED <<link, room, stage, op, list, edpMu, attVars, history>>

UnlockEndpoints(t) ==
    /\ stage[t] = "updating"
    /\ edpTodo = {}
    /\ edpMu' = Free
    /\ Forget(t)
    /\ stage' = [stage EXCEPT ![t] = "emit"]
    /\ UNCHANGED <<link, room, op, edpSinks, edpTodo, edpView, attVars,
                   history>>

-----------------------------------------------------------------------------
(* AttendantsBroadcast.                                                    *)

\* Mutant: delivery without the mutex.
AttNotGuarded == TRUE

AttFree == attMu = Free

LockAttendants(t) ==
    /\ stage[t] = "emit"
    /\ AttFree
    /\ attMu' = t
    /\ attTodo' = attSinks
    /\ stage' = [stage EXCEPT ![t] = "emitting"]
    /\ lastEvent' = [lastEvent EXCEPT ![PeerOf(t)] = EventOf(t)]
    /\ UNCHANGED <<link, room, op, list, edpVars, attSinks, attView, heard,
                   raced, contended>>

\* Mutant: the loop stops at the first sink that errors.
SendEventStops(t, s) ==
    /\ stage[t] = "emitting"
    /\ s \in attTodo
    /\ IF link[s] = "live"
       THEN /\ attView' = [attView EXCEPT
                              ![s] = Apply(@, EventOf(t), PeerOf(t))]
            /\ heard' = [heard EXCEPT ![s] = @ \union {PeerOf(t)}]
            /\ attTodo' = attTodo \ {s}
            /\ UNCHANGED attSinks
       ELSE /\ attSinks' = attSinks \ {s}
            /\ attTodo' = {}
            /\ UNCHANGED <<attView, heard>>
    /\ UNCHANGED <<link, room, stage, op, list, edpVars, attMu, lastEvent,
                   raced, contended>>

SendEvent(t, s) ==
    /\ stage[t] = "emitting"
    /\ s \in attTodo
    /\ attTodo' = attTodo \ {s}
    /\ IF link[s] = "live"
       THEN /\ attView' = [attView EXCEPT
                              ![s] = Apply(@, EventOf(t), PeerOf(t))]
            /\ heard' = [heard EXCEPT ![s] = @ \union {PeerOf(t)}]
            /\ UNCHANGED attSinks
       ELSE /\ attSinks' = attSinks \ {s}
            /\ UNCHANGED <<attView, heard>>
    /\ UNCHANGED <<link, room, stage, op, list, edpVars, attMu, lastEvent,
                   raced, contended>>

UnlockAttendants(t) ==
    /\ stage[t] = "emitting"
    /\ attTodo = {}
    /\ attMu' = Free
    /\ stage' = [stage EXCEPT ![t] = AfterBroadcast(t)]
    /\ UNCHANGED <<link, room, op, list, edpVars, attSinks, attTodo, attView,
                   history>>

\* attendants writes the initial state; if that fails it returns.
WriteState(t) ==
    /\ stage[t] = "write"
    /\ op[t] = "attendants"
    /\ IF link[SessionOf[t]] = "live"
       THEN /\ attView' = [attView EXCEPT ![SessionOf[t]] = list[t]]
            /\ stage' = [stage EXCEPT ![t] = "register"]
       ELSE /\ stage' = [stage EXCEPT ![t] = "idle"]
            /\ UNCHANGED attView
    /\ Forget(t)
    /\ UNCHANGED <<link, room, op, edpVars, attMu, attSinks, attTodo,
                   history>>

\* Only now is the stream registered for the events to come.
RegisterAttendants(t) ==
    /\ stage[t] = "register"
    /\ AttFree
    /\ attSinks' = attSinks \union {SessionOf[t]}
    /\ stage' = [stage EXCEPT ![t] = "idle"]
    /\ UNCHANGED <<link, room, op, list, edpVars, attMu, attTodo, attView,
                   history>>

-----------------------------------------------------------------------------
\* What a thread does by itself once its request is there.
Step(t) ==
    \/ Refuse(t)
    \/ AddEndpoint(t)
    \/ Leave(t)
    \/ HandleConnect(t)
    \/ AlreadyAdded(t)
    \/ TakeList(t)
    \/ RegisterEndpoints(t)
    \/ WriteEndpoints(t)
    \/ LockEndpoints(t)
    \/ \E s \in Session : SendUpdate(t, s)
    \/ UnlockEndpoints(t)
    \/ LockAttendants(t)
    \/ \E s \in Session : SendEvent(t, s)
    \/ UnlockAttendants(t)
    \/ WriteState(t)
    \/ RegisterAttendants(t)

\* No handler is running and no removal is outstanding.
Quiet ==
    \A t \in Thread : \/ stage[t] \in {"idle", "done"}
                      \/ stage[t] = "waiting" /\ link[SessionOf[t]] # "ended"

\* Every session came and went: the model stops here.
Over ==
    /\ Quiet
    /\ \A s \in Session : link[s] = "ended"
    /\ UNCHANGED vars

Next ==
    \/ \E s \in Session : Connect(s) \/ Hangup(s)
    \/ \E t \in Thread : \/ \E o \in Operation : Call(t, o)
                         \/ Step(t)
    \/ Over

Spec == Init /\ [][Next]_vars

(***************************************************************************)
(* Handlers are goroutines and run on.  Their only waits are for a mutex,  *)
(* and a Go mutex hands itself to a waiter it has starved, hence SF.  A    *)
(* write is assumed to return, with or without an error: a peer that       *)
(* neither reads nor disconnects is left out, as is every request and      *)
(* every hangup that need not happen.                                      *)
(***************************************************************************)
Fairness == \A t \in Thread : SF_vars(Step(t))

FairSpec == Spec /\ Fairness

-----------------------------------------------------------------------------
(* Properties.                                                             *)

Stages == {"idle", "called", "registered", "update", "updating", "emit",
           "emitting", "list", "write", "register", "waiting", "done"}

TypeOK ==
    /\ link \in [Session -> {"new", "live", "ended"}]
    /\ room \in [Peer -> Session \union {NoEndpoint}]
    /\ stage \in [Thread -> Stages]
    /\ op \in [Thread -> Operation]
    /\ list \in [Thread -> SUBSET Peer]
    /\ edpMu \in Thread \union {Free}
    /\ edpSinks \in SUBSET Session
    /\ edpTodo \in SUBSET edpSinks
    /\ edpView \in [Session -> SUBSET Peer]
    /\ attMu \in Thread \union {Free}
    /\ attSinks \in SUBSET Session
    /\ attTodo \in SUBSET attSinks
    /\ attView \in [Session -> SUBSET Peer]
    /\ lastEvent \in [Peer -> {"none", "joined", "left"}]
    /\ heard \in [Session -> SUBSET Peer]
    /\ raced \in SUBSET Peer
    /\ contended \in BOOLEAN

\* The streams of room.attendants that are registered and still connected.
Listening == {s \in attSinks : link[s] = "live"}

(***************************************************************************)
(* Delivery holds AttendantsBroadcast.mu from the first sink to the last,  *)
(* so events come out in one order: a connected stream that was sent any   *)
(* event about p since it registered shows p as the last event of all      *)
(* about p says, except while that event is on its way to it.              *)
(***************************************************************************)
ObserversFollowEvents ==
    \A s \in Listening : \A p \in heard[s] :
        \/ p \in attView[s] <=> lastEvent[p] = "joined"
        \/ s \in attTodo /\ attMu # Free /\ PeerOf(attMu) = p

(***************************************************************************)
(* The manager changes its map under roomMu and publishes after giving the *)
(* mutex back.  That is harmless for a peer whose calls and session ends   *)
(* never overlap: once none of them is running, every connected attendants *)
(* stream that heard about the peer is right about it.                     *)
(***************************************************************************)
ObserversSeeRoom ==
    \A p \in Peer \ raced :
        (\A t \in Thread : PeerOf(t) = p =>
             ~Publishing(t) /\ stage[t] # "emitting")
        => \A s \in Listening :
               p \in heard[s] => (p \in attView[s] <=> p \in Members)

(***************************************************************************)
(* tunnel.endpoints streams are sent whole lists, so they recover: if the  *)
(* last change of the room was made while no other thread held a list it   *)
(* had yet to send, then every connected stream shows exactly the members  *)
(* as soon as the handlers are done, whatever was lost before.             *)
(***************************************************************************)
EndpointsRecover ==
    Quiet /\ ~contended =>
        \A s \in edpSinks : link[s] = "live" => edpView[s] = Members

\* What the client of s will believe once the event under way arrived.
ShownBy(s) ==
    IF link[s] # "live" THEN {}
    ELSE IF s \in attTodo /\ attMu # Free
         THEN Apply(attView[s], EventOf(attMu), PeerOf(attMu))
         ELSE attView[s]

\* The abstract feed: an event reaches all subscribers at once.
Feed == INSTANCE EventFeed WITH
    Observer <- Session,
    subs <- Listening,
    view <- [s \in Session |-> ShownBy(s)],
    last <- lastEvent

(***************************************************************************)
(* The loop over the sinks, the mutex around it and the registration that  *)
(* waits for it implement a feed that delivers each event to all of its    *)
(* subscribers in one step.                                                *)
(***************************************************************************)
AttendantsFeed == Feed!FeedSpec

(***************************************************************************)
(* Every handler returns, and every removal of a peer whose session ended  *)
(* is carried out and published, however the two mutexes are contended.    *)
(***************************************************************************)
HandlersReturn ==
    \A t \in Thread :
        (stage[t] # "idle" /\ ~(stage[t] = "waiting" /\ link[SessionOf[t]] # "ended"))
        ~> stage[t] \in {"idle", "done"}

-----------------------------------------------------------------------------
(* What the documentation and the tests say, and the code does not keep.   *)

\* attendants_test.go: whoever listens to room.attendants knows, once the
\* room is quiet, who is in it ("alf should be gone for bre").
AttendantsSeeRoom ==
    Quiet => \A s \in Listening : attView[s] = Members

\* roomstate.go: "update all the connected tunnel.endpoints calls" with the
\* members of the room.
EndpointsSeeRoom ==
    Quiet => \A s \in edpSinks : link[s] = "live" => edpView[s] = Members

\* connect.go: HandleConnect "makes sure peers whos muxrpc session ends are
\* removed from the room state".
EndedSessionsLeave ==
    Quiet => \A p \in Members : link[room[p]] # "ended"

\* roomstate_test.go: a peer that comes back and announces itself again can
\* be connected to.  Nobody leaves in the run that checks this.
AnnouncedStays ==
    Quiet => \A t \in Thread \ Hook :
                 link[SessionOf[t]] = "live" /\ op[t] = "announce"
                 => PeerOf(t) \in Members

=============================================================================
