-------------------------- MODULE RoomStateProofs --------------------------
(***************************************************************************)
(* Theorems about RoomState, for every set of peers, sessions and threads. *)
(*                                                                         *)
(* The inductive invariant is made of the parts below: who holds the two   *)
(* mutexes (Locks), which handler a stage belongs to (Handlers), that one  *)
(* thread at most is opening the attendants stream of a session (Opening1),*)
(* what a stream has heard (Hearing), the event being delivered (Current), *)
(* the property of the streams itself (ObserversFollowEvents) and, for the *)
(* peers nobody raced on, that events follow the room (Settled).  Two more *)
(* theorems add an invariant of their own: the refinement of EventFeed     *)
(* (Fresh) and the lists of tunnel.endpoints (Recovering).                 *)
(***************************************************************************)
EXTENDS RoomState, TLAPS

\* The holder of a mutex is the thread inside the loop it guards.
Locks ==
    /\ \A t \in Thread : stage[t] = "updating" <=> edpMu = t
    /\ \A t \in Thread : stage[t] = "emitting" <=> attMu = t
    /\ edpMu = Free => edpTodo = {}
    /\ attMu = Free => attTodo = {}

Handlers ==
    \A t \in Thread :
        /\ t \in Hook => op[t] = "hangup"
        /\ stage[t] = "registered" => op[t] = "endpoints"
        /\ stage[t] = "register" => op[t] = "attendants"

Opening(t) == op[t] = "attendants" /\ stage[t] # "idle"

Opening1 ==
    \A t \in Thread : Opening(t) =>
        /\ SessionOf[t] \notin attSinks
        /\ \A u \in Thread : Opening(u) /\ SessionOf[u] = SessionOf[t] => u = t

Hearing ==
    \A s \in Session :
        /\ link[s] = "new" => heard[s] = {}
        /\ link[s] = "live" /\ s \notin attSinks => heard[s] = {}

Current == attMu # Free => lastEvent[PeerOf(attMu)] = EventOf(attMu)

Settled ==
    \A p \in Peer \ raced :
        /\ \A t, u \in Thread :
              Publishing(t) /\ Publishing(u) /\ PeerOf(t) = p /\ PeerOf(u) = p
              => t = u
        /\ \A t \in Thread : Publishing(t) /\ PeerOf(t) = p
              => (EventOf(t) = "joined" <=> p \in Members)
        /\ (\A t \in Thread : PeerOf(t) = p => ~Publishing(t))
              => (lastEvent[p] = "joined" <=> p \in Members)

-----------------------------------------------------------------------------
\* The initial state has the right types.
LEMMA InitType == Init => TypeOK
<1> SUFFICES ASSUME Init PROVE TypeOK
  OBVIOUS
<1> USE DEF Init
<1>1. link \in [Session -> {"new", "live", "ended"}]
  OBVIOUS
<1>2. stage \in [Thread -> Stages]
  BY DEF Stages
<1>3. op \in [Thread -> Operation]
  BY DEF Operation
<1> QED
  BY <1>1, <1>2, <1>3 DEF TypeOK

\* What a step of a thread does to its stage, spelled out for the type.
LEMMA TypeStep == TypeOK /\ [Next]_vars => TypeOK'
<1> SUFFICES ASSUME TypeOK, [Next]_vars PROVE TypeOK'
  OBVIOUS
<1> USE ConstantsAssumption DEF TypeOK, edpVars, attVars, history, Operation, Stages,
        PeerOf, Members, EventOf, Apply, AfterBroadcast
<1>1. ASSUME NEW s \in Session, Connect(s) PROVE TypeOK'
  BY <1>1 DEF Connect
<1>2. ASSUME NEW s \in Session, Hangup(s) PROVE TypeOK'
  BY <1>2 DEF Hangup
<1>3. ASSUME NEW t \in Thread, NEW o \in Operation, Call(t, o) PROVE TypeOK'
  BY <1>3 DEF Call
<1>4. ASSUME NEW t \in Thread, Refuse(t) PROVE TypeOK'
  BY <1>4 DEF Refuse
<1>5. ASSUME NEW t \in Thread, AddEndpoint(t) PROVE TypeOK'
  BY <1>5 DEF AddEndpoint, SetEntry, NoteRace
<1>6. ASSUME NEW t \in Thread, Leave(t) PROVE TypeOK'
  BY <1>6 DEF Leave, DeleteEntry, NoteRace
<1>7. ASSUME NEW t \in Thread, HandleConnect(t) PROVE TypeOK'
  BY <1>7, SMTT(60) DEF HandleConnect, DeleteEntry, NoteRace
<1>8. ASSUME NEW t \in Thread, AlreadyAdded(t) PROVE TypeOK'
  <2>1. CASE room[PeerOf(t)] # NoEndpoint
    BY <1>8, <2>1 DEF AlreadyAdded
  <2>2. CASE room[PeerOf(t)] = NoEndpoint
    BY <1>8, <2>2, SMTT(60) DEF AlreadyAdded, SetEntry, NoteRace
  <2> QED
    BY <2>1, <2>2
<1>9. ASSUME NEW t \in Thread, TakeList(t) PROVE TypeOK'
  BY <1>9 DEF TakeList
<1>10. ASSUME NEW t \in Thread, RegisterEndpoints(t) PROVE TypeOK'
  BY <1>10 DEF RegisterEndpoints
<1>11. ASSUME NEW t \in Thread, WriteEndpoints(t) PROVE TypeOK'
  BY <1>11 DEF WriteEndpoints, Forget
<1>12. ASSUME NEW t \in Thread, LockEndpoints(t) PROVE TypeOK'
  BY <1>12 DEF LockEndpoints
<1>13. ASSUME NEW t \in Thread, NEW s \in Session, SendUpdate(t, s)
       PROVE  TypeOK'
  BY <1>13 DEF SendUpdate
<1>14. ASSUME NEW t \in Thread, UnlockEndpoints(t) PROVE TypeOK'
  BY <1>14 DEF UnlockEndpoints, Forget
<1>15. ASSUME NEW t \in Thread, LockAttendants(t) PROVE TypeOK'
  BY <1>15 DEF LockAttendants
<1>16. ASSUME NEW t \in Thread, NEW s \in Session, SendEvent(t, s)
       PROVE  TypeOK'
  BY <1>16 DEF SendEvent
<1>17. ASSUME NEW t \in Thread, UnlockAttendants(t) PROVE TypeOK'
  BY <1>17 DEF UnlockAttendants
<1>18. ASSUME NEW t \in Thread, WriteState(t) PROVE TypeOK'
  BY <1>18 DEF WriteState, Forget
<1>19. ASSUME NEW t \in Thread, RegisterAttendants(t) PROVE TypeOK'
  BY <1>19 DEF RegisterAttendants
<1>20. CASE UNCHANGED vars
  BY <1>20 DEF vars
<1>21. CASE Over
  BY <1>21 DEF Over, vars
<1> QED
  BY <1>1, <1>2, <1>3, <1>4, <1>5, <1>6, <1>7, <1>8, <1>9, <1>10, <1>11,
     <1>12, <1>13, <1>14, <1>15, <1>16, <1>17, <1>18, <1>19, <1>20, <1>21
     DEF Next, Step

\* Every variable keeps its type: in particular a broadcast in progress only
\* has registered sinks left to visit.
THEOREM TypeCorrect == Spec => []TypeOK
<1>1. Init => TypeOK
  BY InitType
<1>2. TypeOK /\ [Next]_vars => TypeOK'
  BY TypeStep
<1> QED
  BY <1>1, <1>2, PTL DEF Spec

-----------------------------------------------------------------------------
\* The two mutexes exclude: only the holder is inside the loop.
LEMMA LocksStep == TypeOK /\ Locks /\ [Next]_vars => Locks'
<1> SUFFICES ASSUME TypeOK, Locks, [Next]_vars PROVE Locks'
  OBVIOUS
<1> USE ConstantsAssumption DEF TypeOK, Locks, edpVars, attVars, history, Stages
<1>1. ASSUME NEW s \in Session, Connect(s) PROVE Locks'
  BY <1>1 DEF Connect
<1>2. ASSUME NEW s \in Session, Hangup(s) PROVE Locks'
  BY <1>2 DEF Hangup
<1>3. ASSUME NEW t \in Thread, NEW o \in Operation, Call(t, o) PROVE Locks'
  BY <1>3 DEF Call, OneStreamEach
<1>4. ASSUME NEW t \in Thread, Refuse(t) PROVE Locks'
  BY <1>4 DEF Refuse
<1>5. ASSUME NEW t \in Thread, AddEndpoint(t) PROVE Locks'
  BY <1>5 DEF AddEndpoint, SetEntry, NoteRace
<1>6. ASSUME NEW t \in Thread, Leave(t) PROVE Locks'
  BY <1>6 DEF Leave, DeleteEntry, NoteRace
<1>7. ASSUME NEW t \in Thread, HandleConnect(t) PROVE Locks'
  BY <1>7 DEF HandleConnect, DeleteEntry, NoteRace
<1>8. ASSUME NEW t \in Thread, AlreadyAdded(t) PROVE Locks'
  <2>1. \E a \in {"list", "update"} : stage' = [stage EXCEPT ![t] = a]
    BY <1>8 DEF AlreadyAdded, SetEntry
  <2>2. stage[t] = "registered" /\ UNCHANGED <<edpMu, edpTodo, attMu, attTodo>>
    BY <1>8 DEF AlreadyAdded
  <2>. QED
    BY <2>1, <2>2
<1>9. ASSUME NEW t \in Thread, TakeList(t) PROVE Locks'
  BY <1>9 DEF TakeList
<1>10. ASSUME NEW t \in Thread, RegisterEndpoints(t) PROVE Locks'
  BY <1>10 DEF RegisterEndpoints, EdpFree
<1>11. ASSUME NEW t \in Thread, WriteEndpoints(t) PROVE Locks'
  BY <1>11 DEF WriteEndpoints, Forget
<1>12. ASSUME NEW t \in Thread, LockEndpoints(t) PROVE Locks'
  BY <1>12 DEF LockEndpoints, EdpFree
<1>13. ASSUME NEW t \in Thread, NEW s \in Session,
           SendUpdate(t, s)
    PROVE  Locks'
  BY <1>13 DEF SendUpdate
<1>14. ASSUME NEW t \in Thread, UnlockEndpoints(t) PROVE Locks'
  BY <1>14 DEF UnlockEndpoints, Forget
<1>15. ASSUME NEW t \in Thread, LockAttendants(t) PROVE Locks'
  BY <1>15 DEF LockAttendants, AttFree
<1>16. ASSUME NEW t \in Thread, NEW s \in Session,
           SendEvent(t, s)
    PROVE  Locks'
  BY <1>16 DEF SendEvent
<1>17. ASSUME NEW t \in Thread, UnlockAttendants(t) PROVE Locks'
  BY <1>17 DEF UnlockAttendants, AfterBroadcast
<1>18. ASSUME NEW t \in Thread, WriteState(t) PROVE Locks'
  BY <1>18 DEF WriteState, Forget
<1>19. ASSUME NEW t \in Thread, RegisterAttendants(t) PROVE Locks'
  BY <1>19 DEF RegisterAttendants, AttFree
<1>20. CASE UNCHANGED vars
  BY <1>20 DEF vars
<1>21. CASE Over
  BY <1>21 DEF Over, vars
<1> QED
  BY <1>1, <1>2, <1>3, <1>4, <1>5, <1>6, <1>7, <1>8, <1>9, <1>10, <1>11,
     <1>12, <1>13, <1>14, <1>15, <1>16, <1>17, <1>18, <1>19, <1>20, <1>21
     DEF Next, Step

\* Stages belong to the handlers that have them.
LEMMA HandlersStep == TypeOK /\ Handlers /\ [Next]_vars => Handlers'
<1> SUFFICES ASSUME TypeOK, Handlers, [Next]_vars PROVE Handlers'
  OBVIOUS
<1> USE ConstantsAssumption DEF TypeOK, Handlers, edpVars, attVars, history
<1>1. ASSUME NEW s \in Session, Connect(s) PROVE Handlers'
  BY <1>1 DEF Connect
<1>2. ASSUME NEW s \in Session, Hangup(s) PROVE Handlers'
  BY <1>2 DEF Hangup
<1>3. ASSUME NEW t \in Thread, NEW o \in Operation, Call(t, o) PROVE Handlers'
  BY <1>3 DEF Call, OneStreamEach
<1>4. ASSUME NEW t \in Thread, Refuse(t) PROVE Handlers'
  BY <1>4 DEF Refuse
<1>5. ASSUME NEW t \in Thread, AddEndpoint(t) PROVE Handlers'
  BY <1>5 DEF AddEndpoint, SetEntry, NoteRace
<1>6. ASSUME NEW t \in Thread, Leave(t) PROVE Handlers'
  BY <1>6 DEF Leave, DeleteEntry, NoteRace
<1>7. ASSUME NEW t \in Thread, HandleConnect(t) PROVE Handlers'
  BY <1>7 DEF HandleConnect, DeleteEntry, NoteRace
<1>8. ASSUME NEW t \in Thread, AlreadyAdded(t) PROVE Handlers'
  BY <1>8 DEF AlreadyAdded, SetEntry, NoteRace
<1>9. ASSUME NEW t \in Thread, TakeList(t) PROVE Handlers'
  BY <1>9 DEF TakeList
<1>10. ASSUME NEW t \in Thread, RegisterEndpoints(t) PROVE Handlers'
  BY <1>10 DEF RegisterEndpoints, EdpFree
<1>11. ASSUME NEW t \in Thread, WriteEndpoints(t) PROVE Handlers'
  BY <1>11 DEF WriteEndpoints, Forget
<1>12. ASSUME NEW t \in Thread, LockEndpoints(t) PROVE Handlers'
  BY <1>12 DEF LockEndpoints, EdpFree
<1>13. ASSUME NEW t \in Thread, NEW s \in Session,
           SendUpdate(t, s)
    PROVE  Handlers'
  BY <1>13 DEF SendUpdate
<1>14. ASSUME NEW t \in Thread, UnlockEndpoints(t) PROVE Handlers'
  BY <1>14 DEF UnlockEndpoints, Forget
<1>15. ASSUME NEW t \in Thread, LockAttendants(t) PROVE Handlers'
  BY <1>15 DEF LockAttendants, AttFree
<1>16. ASSUME NEW t \in Thread, NEW s \in Session,
           SendEvent(t, s)
    PROVE  Handlers'
  BY <1>16 DEF SendEvent
<1>17. ASSUME NEW t \in Thread, UnlockAttendants(t) PROVE Handlers'
  BY <1>17 DEF UnlockAttendants, AfterBroadcast
<1>18. ASSUME NEW t \in Thread, WriteState(t) PROVE Handlers'
  BY <1>18 DEF WriteState, Forget
<1>19. ASSUME NEW t \in Thread, RegisterAttendants(t) PROVE Handlers'
  BY <1>19 DEF RegisterAttendants, AttFree
<1>20. CASE UNCHANGED vars
  BY <1>20 DEF vars
<1>21. CASE Over
  BY <1>21 DEF Over, vars
<1> QED
  BY <1>1, <1>2, <1>3, <1>4, <1>5, <1>6, <1>7, <1>8, <1>9, <1>10, <1>11,
     <1>12, <1>13, <1>14, <1>15, <1>16, <1>17, <1>18, <1>19, <1>20, <1>21
     DEF Next, Step

\* One thread at most opens the attendants stream of a session.
LEMMA Opening1Step == TypeOK /\ Handlers /\ Opening1 /\ [Next]_vars => Opening1'
<1> SUFFICES ASSUME TypeOK, Handlers, Opening1, [Next]_vars PROVE Opening1'
  OBVIOUS
<1> USE ConstantsAssumption
    DEF TypeOK, Handlers, Opening1, Opening, edpVars, attVars, history
<1>1. ASSUME NEW s \in Session, Connect(s) PROVE Opening1'
  BY <1>1 DEF Connect
<1>2. ASSUME NEW s \in Session, Hangup(s) PROVE Opening1'
  BY <1>2 DEF Hangup
<1>3. ASSUME NEW t \in Thread, NEW o \in Operation, Call(t, o) PROVE Opening1'
  BY <1>3 DEF Call, OneStreamEach
<1>4. ASSUME NEW t \in Thread, Refuse(t) PROVE Opening1'
  BY <1>4 DEF Refuse
<1>5. ASSUME NEW t \in Thread, AddEndpoint(t) PROVE Opening1'
  BY <1>5 DEF AddEndpoint, SetEntry, NoteRace
<1>6. ASSUME NEW t \in Thread, Leave(t) PROVE Opening1'
  BY <1>6 DEF Leave, DeleteEntry, NoteRace
<1>7. ASSUME NEW t \in Thread, HandleConnect(t) PROVE Opening1'
  <2>1. attSinks' = attSinks
    BY <1>7 DEF HandleConnect
  <2>2. \A u \in Thread : Opening(u)' => Opening(u)
    BY <1>7 DEF HandleConnect, DeleteEntry
  <2> QED
    BY <2>1, <2>2
<1>8. ASSUME NEW t \in Thread, AlreadyAdded(t) PROVE Opening1'
  <2>1. attSinks' = attSinks
    BY <1>8 DEF AlreadyAdded
  <2>2. \A u \in Thread : Opening(u)' => Opening(u)
    BY <1>8 DEF AlreadyAdded, SetEntry
  <2> QED
    BY <2>1, <2>2
<1>9. ASSUME NEW t \in Thread, TakeList(t) PROVE Opening1'
  BY <1>9 DEF TakeList
<1>10. ASSUME NEW t \in Thread, RegisterEndpoints(t) PROVE Opening1'
  BY <1>10 DEF RegisterEndpoints, EdpFree
<1>11. ASSUME NEW t \in Thread, WriteEndpoints(t) PROVE Opening1'
  BY <1>11 DEF WriteEndpoints, Forget
<1>12. ASSUME NEW t \in Thread, LockEndpoints(t) PROVE Opening1'
  BY <1>12 DEF LockEndpoints, EdpFree
<1>13. ASSUME NEW t \in Thread, NEW s \in Session,
           SendUpdate(t, s)
    PROVE  Opening1'
  BY <1>13 DEF SendUpdate
<1>14. ASSUME NEW t \in Thread, UnlockEndpoints(t) PROVE Opening1'
  BY <1>14 DEF UnlockEndpoints, Forget
<1>15. ASSUME NEW t \in Thread, LockAttendants(t) PROVE Opening1'
  BY <1>15 DEF LockAttendants, AttFree
<1>16. ASSUME NEW t \in Thread, NEW s \in Session,
           SendEvent(t, s)
    PROVE  Opening1'
  BY <1>16 DEF SendEvent
<1>17. ASSUME NEW t \in Thread, UnlockAttendants(t) PROVE Opening1'
  BY <1>17 DEF UnlockAttendants, AfterBroadcast
<1>18. ASSUME NEW t \in Thread, WriteState(t) PROVE Opening1'
  BY <1>18 DEF WriteState, Forget
<1>19. ASSUME NEW t \in Thread, RegisterAttendants(t) PROVE Opening1'
  BY <1>19 DEF RegisterAttendants, AttFree
<1>20. CASE UNCHANGED vars
  BY <1>20 DEF vars
<1>21. CASE Over
  BY <1>21 DEF Over, vars
<1> QED
  BY <1>1, <1>2, <1>3, <1>4, <1>5, <1>6, <1>7, <1>8, <1>9, <1>10, <1>11,
     <1>12, <1>13, <1>14, <1>15, <1>16, <1>17, <1>18, <1>19, <1>20, <1>21
     DEF Next, Step

\* A stream that was never registered heard nothing.
LEMMA HearingStep == TypeOK /\ Hearing /\ [Next]_vars => Hearing'
<1> SUFFICES ASSUME TypeOK, Hearing, [Next]_vars PROVE Hearing'
  OBVIOUS
<1> USE ConstantsAssumption DEF TypeOK, Hearing, edpVars, attVars, history
<1>1. ASSUME NEW s \in Session, Connect(s) PROVE Hearing'
  BY <1>1 DEF Connect
<1>2. ASSUME NEW s \in Session, Hangup(s) PROVE Hearing'
  BY <1>2 DEF Hangup
<1>3. ASSUME NEW t \in Thread, NEW o \in Operation, Call(t, o) PROVE Hearing'
  BY <1>3 DEF Call, OneStreamEach
<1>4. ASSUME NEW t \in Thread, Refuse(t) PROVE Hearing'
  BY <1>4 DEF Refuse
<1>5. ASSUME NEW t \in Thread, AddEndpoint(t) PROVE Hearing'
  BY <1>5 DEF AddEndpoint, SetEntry, NoteRace
<1>6. ASSUME NEW t \in Thread, Leave(t) PROVE Hearing'
  BY <1>6 DEF Leave, DeleteEntry, NoteRace
<1>7. ASSUME NEW t \in Thread, HandleConnect(t) PROVE Hearing'
  BY <1>7 DEF HandleConnect, DeleteEntry, NoteRace
<1>8. ASSUME NEW t \in Thread, AlreadyAdded(t) PROVE Hearing'
  BY <1>8 DEF AlreadyAdded, SetEntry, NoteRace
<1>9. ASSUME NEW t \in Thread, TakeList(t) PROVE Hearing'
  BY <1>9 DEF TakeList
<1>10. ASSUME NEW t \in Thread, RegisterEndpoints(t) PROVE Hearing'
  BY <1>10 DEF RegisterEndpoints, EdpFree
<1>11. ASSUME NEW t \in Thread, WriteEndpoints(t) PROVE Hearing'
  BY <1>11 DEF WriteEndpoints, Forget
<1>12. ASSUME NEW t \in Thread, LockEndpoints(t) PROVE Hearing'
  BY <1>12 DEF LockEndpoints, EdpFree
<1>13. ASSUME NEW t \in Thread, NEW s \in Session,
           SendUpdate(t, s)
    PROVE  Hearing'
  BY <1>13 DEF SendUpdate
<1>14. ASSUME NEW t \in Thread, UnlockEndpoints(t) PROVE Hearing'
  BY <1>14 DEF UnlockEndpoints, Forget
<1>15. ASSUME NEW t \in Thread, LockAttendants(t) PROVE Hearing'
  BY <1>15 DEF LockAttendants, AttFree
<1>16. ASSUME NEW t \in Thread, NEW s \in Session,
           SendEvent(t, s)
    PROVE  Hearing'
  BY <1>16 DEF SendEvent
<1>17. ASSUME NEW t \in Thread, UnlockAttendants(t) PROVE Hearing'
  BY <1>17 DEF UnlockAttendants, AfterBroadcast
<1>18. ASSUME NEW t \in Thread, WriteState(t) PROVE Hearing'
  BY <1>18 DEF WriteState, Forget
<1>19. ASSUME NEW t \in Thread, RegisterAttendants(t) PROVE Hearing'
  BY <1>19 DEF RegisterAttendants, AttFree
<1>20. CASE UNCHANGED vars
  BY <1>20 DEF vars
<1>21. CASE Over
  BY <1>21 DEF Over, vars
<1> QED
  BY <1>1, <1>2, <1>3, <1>4, <1>5, <1>6, <1>7, <1>8, <1>9, <1>10, <1>11,
     <1>12, <1>13, <1>14, <1>15, <1>16, <1>17, <1>18, <1>19, <1>20, <1>21
     DEF Next, Step

\* The event being delivered is the last one.
LEMMA CurrentStep == TypeOK /\ Locks /\ Current /\ [Next]_vars => Current'
<1> SUFFICES ASSUME TypeOK, Locks, Current, [Next]_vars PROVE Current'
  OBVIOUS
<1> USE ConstantsAssumption
    DEF TypeOK, Locks, Current, PeerOf, EventOf, edpVars, attVars, history
<1>1. ASSUME NEW s \in Session, Connect(s) PROVE Current'
  BY <1>1 DEF Connect
<1>2. ASSUME NEW s \in Session, Hangup(s) PROVE Current'
  BY <1>2 DEF Hangup
<1>3. ASSUME NEW t \in Thread, NEW o \in Operation, Call(t, o) PROVE Current'
  BY <1>3 DEF Call, OneStreamEach
<1>4. ASSUME NEW t \in Thread, Refuse(t) PROVE Current'
  BY <1>4 DEF Refuse
<1>5. ASSUME NEW t \in Thread, AddEndpoint(t) PROVE Current'
  BY <1>5 DEF AddEndpoint, SetEntry, NoteRace
<1>6. ASSUME NEW t \in Thread, Leave(t) PROVE Current'
  BY <1>6 DEF Leave, DeleteEntry, NoteRace
<1>7. ASSUME NEW t \in Thread, HandleConnect(t) PROVE Current'
  BY <1>7 DEF HandleConnect, DeleteEntry, NoteRace
<1>8. ASSUME NEW t \in Thread, AlreadyAdded(t) PROVE Current'
  BY <1>8 DEF AlreadyAdded, SetEntry, NoteRace
<1>9. ASSUME NEW t \in Thread, TakeList(t) PROVE Current'
  BY <1>9 DEF TakeList
<1>10. ASSUME NEW t \in Thread, RegisterEndpoints(t) PROVE Current'
  BY <1>10 DEF RegisterEndpoints, EdpFree
<1>11. ASSUME NEW t \in Thread, WriteEndpoints(t) PROVE Current'
  BY <1>11 DEF WriteEndpoints, Forget
<1>12. ASSUME NEW t \in Thread, LockEndpoints(t) PROVE Current'
  BY <1>12 DEF LockEndpoints, EdpFree
<1>13. ASSUME NEW t \in Thread, NEW s \in Session,
           SendUpdate(t, s)
    PROVE  Current'
  BY <1>13 DEF SendUpdate
<1>14. ASSUME NEW t \in Thread, UnlockEndpoints(t) PROVE Current'
  BY <1>14 DEF UnlockEndpoints, Forget
<1>15. ASSUME NEW t \in Thread, LockAttendants(t) PROVE Current'
  BY <1>15 DEF LockAttendants, AttFree
<1>16. ASSUME NEW t \in Thread, NEW s \in Session,
           SendEvent(t, s)
    PROVE  Current'
  BY <1>16 DEF SendEvent
<1>17. ASSUME NEW t \in Thread, UnlockAttendants(t) PROVE Current'
  BY <1>17 DEF UnlockAttendants, AfterBroadcast
<1>18. ASSUME NEW t \in Thread, WriteState(t) PROVE Current'
  BY <1>18 DEF WriteState, Forget
<1>19. ASSUME NEW t \in Thread, RegisterAttendants(t) PROVE Current'
  BY <1>19 DEF RegisterAttendants, AttFree
<1>20. CASE UNCHANGED vars
  BY <1>20 DEF vars
<1>21. CASE Over
  BY <1>21 DEF Over, vars
<1> QED
  BY <1>1, <1>2, <1>3, <1>4, <1>5, <1>6, <1>7, <1>8, <1>9, <1>10, <1>11,
     <1>12, <1>13, <1>14, <1>15, <1>16, <1>17, <1>18, <1>19, <1>20, <1>21
     DEF Next, Step

\* A connected stream agrees with the last event it was sent about a peer.
LEMMA FollowStep ==
    /\ TypeOK /\ Locks /\ Handlers /\ Opening1 /\ Hearing /\ Current
    /\ ObserversFollowEvents
    /\ [Next]_vars
    => ObserversFollowEvents'
<1> SUFFICES ASSUME TypeOK, Locks, Handlers, Opening1, Hearing, Current,
                    ObserversFollowEvents, [Next]_vars
             PROVE  ObserversFollowEvents'
  OBVIOUS
<1> USE ConstantsAssumption DEF TypeOK, Locks, ObserversFollowEvents, Listening, PeerOf,
        edpVars, attVars, history
<1>1. ASSUME NEW s \in Session, Connect(s) PROVE ObserversFollowEvents'
  <2>1. heard[s] = {}
    BY <1>1 DEF Connect, Hearing
  <2> QED
    BY <1>1, <2>1 DEF Connect
<1>2. ASSUME NEW s \in Session, Hangup(s) PROVE ObserversFollowEvents'
  BY <1>2 DEF Hangup
<1>3. ASSUME NEW t \in Thread, NEW o \in Operation,
           Call(t, o)
    PROVE  ObserversFollowEvents'
  BY <1>3 DEF Call, OneStreamEach
<1>4. ASSUME NEW t \in Thread, Refuse(t) PROVE ObserversFollowEvents'
  BY <1>4 DEF Refuse
<1>5. ASSUME NEW t \in Thread, AddEndpoint(t) PROVE ObserversFollowEvents'
  BY <1>5 DEF AddEndpoint, SetEntry, NoteRace
<1>6. ASSUME NEW t \in Thread, Leave(t) PROVE ObserversFollowEvents'
  BY <1>6 DEF Leave, DeleteEntry, NoteRace
<1>7. ASSUME NEW t \in Thread, HandleConnect(t) PROVE ObserversFollowEvents'
  BY <1>7 DEF HandleConnect, DeleteEntry, NoteRace
<1>8. ASSUME NEW t \in Thread, AlreadyAdded(t) PROVE ObserversFollowEvents'
  BY <1>8 DEF AlreadyAdded, SetEntry, NoteRace
<1>9. ASSUME NEW t \in Thread, TakeList(t) PROVE ObserversFollowEvents'
  BY <1>9 DEF TakeList
<1>10. ASSUME NEW t \in Thread,
           RegisterEndpoints(t)
    PROVE  ObserversFollowEvents'
  BY <1>10 DEF RegisterEndpoints, EdpFree
<1>11. ASSUME NEW t \in Thread, WriteEndpoints(t) PROVE ObserversFollowEvents'
  BY <1>11 DEF WriteEndpoints, Forget
<1>12. ASSUME NEW t \in Thread, LockEndpoints(t) PROVE ObserversFollowEvents'
  BY <1>12 DEF LockEndpoints, EdpFree
<1>13. ASSUME NEW t \in Thread, NEW s \in Session,
           SendUpdate(t, s)
    PROVE  ObserversFollowEvents'
  BY <1>13 DEF SendUpdate
<1>14. ASSUME NEW t \in Thread,
           UnlockEndpoints(t)
    PROVE  ObserversFollowEvents'
  BY <1>14 DEF UnlockEndpoints, Forget
<1>15. ASSUME NEW t \in Thread, LockAttendants(t) PROVE ObserversFollowEvents'
  BY <1>15 DEF LockAttendants, AttFree
<1>16. ASSUME NEW t \in Thread, NEW s \in Session,
           SendEvent(t, s)
    PROVE  ObserversFollowEvents'
  <2>1. attMu = t /\ lastEvent[PeerOf(t)] = EventOf(t)
    BY <1>16 DEF SendEvent, Current
  <2>2. CASE link[s] = "live"
    BY <1>16, <2>1, <2>2 DEF SendEvent, Apply
  <2>3. CASE link[s] # "live"
    BY <1>16, <2>1, <2>3 DEF SendEvent
  <2> QED
    BY <2>2, <2>3
<1>17. ASSUME NEW t \in Thread,
           UnlockAttendants(t)
    PROVE  ObserversFollowEvents'
  BY <1>17 DEF UnlockAttendants, AfterBroadcast
<1>18. ASSUME NEW t \in Thread, WriteState(t) PROVE ObserversFollowEvents'
  <2>1. SessionOf[t] \notin attSinks
    BY <1>18 DEF WriteState, Opening1, Opening
  <2> QED
    BY <1>18, <2>1 DEF WriteState, Forget
<1>19. ASSUME NEW t \in Thread,
           RegisterAttendants(t)
    PROVE  ObserversFollowEvents'
  <2>1. SessionOf[t] \notin attSinks
    BY <1>19 DEF RegisterAttendants, Opening1, Opening, Handlers
  <2>2. link[SessionOf[t]] = "live" => heard[SessionOf[t]] = {}
    BY <2>1 DEF Hearing
  <2> QED
    BY <1>19, <2>2 DEF RegisterAttendants, AttFree
<1>20. CASE UNCHANGED vars
  BY <1>20 DEF vars
<1>21. CASE Over
  BY <1>21 DEF Over, vars
<1> QED
  BY <1>1, <1>2, <1>3, <1>4, <1>5, <1>6, <1>7, <1>8, <1>9, <1>10, <1>11,
     <1>12, <1>13, <1>14, <1>15, <1>16, <1>17, <1>18, <1>19, <1>20, <1>21
     DEF Next, Step

\* What setting an entry, or deleting it, means for the peers nobody raced on.
LEMMA EntryStepSet ==
    ASSUME TypeOK, Settled, NEW t \in Thread, NEW v \in Session,
           ~Publishing(t), EventOf(t) = "joined", NoteRace(t),
           room' = [room EXCEPT ![PeerOf(t)] = v],
           stage' = [stage EXCEPT ![t] = "update"],
           UNCHANGED <<op, lastEvent>>
    PROVE  Settled'
  BY ConstantsAssumption
     DEF TypeOK, Settled, NoteRace, Publishing, PeerOf, EventOf, Members

\* The same for the deletion of an entry.
LEMMA EntryStepDelete ==
    ASSUME TypeOK, Settled, NEW t \in Thread,
           ~Publishing(t), EventOf(t) = "left", NoteRace(t),
           room' = [room EXCEPT ![PeerOf(t)] = NoEndpoint],
           stage' = [stage EXCEPT ![t] = "update"],
           UNCHANGED <<op, lastEvent>>
    PROVE  Settled'
  BY ConstantsAssumption
     DEF TypeOK, Settled, NoteRace, Publishing, PeerOf, EventOf, Members

\* Events follow the room for the peers nobody raced on.
LEMMA SettledStep == TypeOK /\ Handlers /\ Settled /\ [Next]_vars => Settled'
<1> SUFFICES ASSUME TypeOK, Handlers, Settled, [Next]_vars PROVE Settled'
  OBVIOUS
<1> USE DEF edpVars, attVars, history
<1>1. ASSUME NEW s \in Session, Connect(s) PROVE Settled'
  BY <1>1 DEF Connect, Settled, Publishing, PeerOf,
     EventOf, Members, TypeOK
<1>2. ASSUME NEW s \in Session, Hangup(s) PROVE Settled'
  BY <1>2 DEF Hangup, Settled, Publishing, PeerOf,
     EventOf, Members, TypeOK
<1>3. ASSUME NEW t \in Thread, NEW o \in Operation, Call(t, o) PROVE Settled'
  BY <1>3 DEF Call, OneStreamEach, Settled, Publishing, PeerOf,
     EventOf, Members, TypeOK
<1>4. ASSUME NEW t \in Thread, Refuse(t) PROVE Settled'
  BY <1>4 DEF Refuse, Settled, Publishing, PeerOf,
     EventOf, Members, TypeOK
<1>5. ASSUME NEW t \in Thread, AddEndpoint(t) PROVE Settled'
  <2>1. ~Publishing(t) /\ EventOf(t) = "joined"
    BY <1>5 DEF AddEndpoint, Publishing, EventOf, Settled, Publishing, PeerOf,
     EventOf, Members, TypeOK
  <2> QED
    BY <1>5, <2>1, EntryStepSet, ConstantsAssumption DEF AddEndpoint, SetEntry, TypeOK
<1>6. ASSUME NEW t \in Thread, Leave(t) PROVE Settled'
  <2>1. ~Publishing(t) /\ EventOf(t) = "left"
    BY <1>6 DEF Leave, Publishing, EventOf, Settled, Publishing, PeerOf,
     EventOf, Members, TypeOK
  <2> QED
    BY <1>6, <2>1, EntryStepDelete, ConstantsAssumption DEF Leave, DeleteEntry, TypeOK
<1>7. ASSUME NEW t \in Thread, HandleConnect(t) PROVE Settled'
  <2>1. ~Publishing(t) /\ EventOf(t) = "left"
    BY <1>7 DEF HandleConnect, Publishing, EventOf, Handlers, Settled, Publishing, PeerOf,
     EventOf, Members, TypeOK
  <2> QED
    BY <1>7, <2>1, EntryStepDelete, ConstantsAssumption
     DEF HandleConnect, DeleteEntry, TypeOK
<1>8. ASSUME NEW t \in Thread, AlreadyAdded(t) PROVE Settled'
  <2>1. ~Publishing(t) /\ EventOf(t) = "joined"
    BY <1>8 DEF AlreadyAdded, Publishing, EventOf, Handlers, Settled, Publishing, PeerOf,
     EventOf, Members, TypeOK
  <2>2. CASE room[PeerOf(t)] = NoEndpoint
    BY <1>8, <2>1, <2>2, EntryStepSet, ConstantsAssumption
       DEF AlreadyAdded, SetEntry, TypeOK
  <2>3. CASE room[PeerOf(t)] # NoEndpoint
    BY <1>8, <2>3 DEF AlreadyAdded, Settled, Publishing, PeerOf, EventOf,
                   Members, TypeOK
  <2> QED
    BY <2>2, <2>3
<1>9. ASSUME NEW t \in Thread, TakeList(t) PROVE Settled'
  BY <1>9 DEF TakeList, Settled, Publishing, PeerOf,
     EventOf, Members, TypeOK
<1>10. ASSUME NEW t \in Thread, RegisterEndpoints(t) PROVE Settled'
  BY <1>10 DEF RegisterEndpoints, EdpFree, Settled, Publishing, PeerOf,
     EventOf, Members, TypeOK
<1>11. ASSUME NEW t \in Thread, WriteEndpoints(t) PROVE Settled'
  BY <1>11 DEF WriteEndpoints, Forget, Settled, Publishing, PeerOf,
     EventOf, Members, TypeOK
<1>12. ASSUME NEW t \in Thread, LockEndpoints(t) PROVE Settled'
  BY <1>12 DEF LockEndpoints, EdpFree, Settled, Publishing, PeerOf,
     EventOf, Members, TypeOK
<1>13. ASSUME NEW t \in Thread, NEW s \in Session,
           SendUpdate(t, s)
    PROVE  Settled'
  BY <1>13 DEF SendUpdate, Settled, Publishing, PeerOf,
     EventOf, Members, TypeOK
<1>14. ASSUME NEW t \in Thread, UnlockEndpoints(t) PROVE Settled'
  BY <1>14 DEF UnlockEndpoints, Forget, Settled, Publishing, PeerOf,
     EventOf, Members, TypeOK
<1>15. ASSUME NEW t \in Thread, LockAttendants(t) PROVE Settled'
  BY <1>15 DEF LockAttendants, AttFree, Settled, Publishing, PeerOf,
     EventOf, Members, TypeOK
<1>16. ASSUME NEW t \in Thread, NEW s \in Session,
           SendEvent(t, s)
    PROVE  Settled'
  BY <1>16 DEF SendEvent, Settled, Publishing, PeerOf,
     EventOf, Members, TypeOK
<1>17. ASSUME NEW t \in Thread, UnlockAttendants(t) PROVE Settled'
  BY <1>17 DEF UnlockAttendants, AfterBroadcast, Settled, Publishing, PeerOf,
     EventOf, Members, TypeOK
<1>18. ASSUME NEW t \in Thread, WriteState(t) PROVE Settled'
  BY <1>18 DEF WriteState, Forget, Settled, Publishing, PeerOf,
     EventOf, Members, TypeOK
<1>19. ASSUME NEW t \in Thread, RegisterAttendants(t) PROVE Settled'
  BY <1>19 DEF RegisterAttendants, AttFree, Settled, Publishing, PeerOf,
     EventOf, Members, TypeOK
<1>20. CASE UNCHANGED vars
  BY <1>20 DEF vars, Settled, Publishing, PeerOf, EventOf, Members
<1>21. CASE Over
  BY <1>21 DEF Over, vars, Settled, Publishing, PeerOf, EventOf, Members
<1> QED
  BY <1>1, <1>2, <1>3, <1>4, <1>5, <1>6, <1>7, <1>8, <1>9, <1>10, <1>11,
     <1>12, <1>13, <1>14, <1>15, <1>16, <1>17, <1>18, <1>19, <1>20, <1>21
     DEF Next, Step

-----------------------------------------------------------------------------
\* The inductive invariant, and the facts about it the theorems use.
IInv ==
    /\ TypeOK
    /\ Locks
    /\ Handlers
    /\ Opening1
    /\ Hearing
    /\ Current
    /\ ObserversFollowEvents
    /\ Settled

\* The invariant holds in an empty room.
LEMMA InitIInv == Init => IInv
<1> SUFFICES ASSUME Init PROVE IInv
  OBVIOUS
<1>1. TypeOK
  BY InitType
<1>2. Locks /\ Handlers /\ Opening1
  BY ConstantsAssumption DEF Init, Locks, Handlers, Opening1, Opening
<1>3. Hearing /\ Current
  BY DEF Init, Hearing, Current
<1>4. ObserversFollowEvents
  BY DEF Init, ObserversFollowEvents, Listening
<1>5. Settled
  BY DEF Init, Settled, Publishing, Members
<1> QED
  BY <1>1, <1>2, <1>3, <1>4, <1>5 DEF IInv

\* Every step keeps the invariant: the parts, one after the other.
LEMMA IInvStep == IInv /\ [Next]_vars => IInv'
  BY TypeStep, LocksStep, HandlersStep, Opening1Step, HearingStep, CurrentStep,
     FollowStep, SettledStep DEF IInv

\* The invariant holds in every state of every behaviour.
LEMMA IInvHolds == Spec => []IInv
<1>1. Init => IInv
  BY InitIInv
<1>2. IInv /\ [Next]_vars => IInv'
  BY IInvStep
<1> QED
  BY <1>1, <1>2, PTL DEF Spec

\* Events reach every registered attendants stream in one order: a connected
\* stream agrees with the last event about each peer it heard about, unless
\* that event is still on its way to it.
THEOREM FollowEvents == Spec => []ObserversFollowEvents
<1>1. IInv => ObserversFollowEvents
  BY DEF IInv
<1> QED
  BY <1>1, IInvHolds, PTL

\* When nobody raced on a peer and none of its threads is about to publish,
\* every connected attendants stream that heard about the peer is right.
THEOREM SeeRoom == Spec => []ObserversSeeRoom
<1>1. IInv => ObserversSeeRoom
  <2> SUFFICES ASSUME IInv, NEW p \in Peer \ raced,
                      \A t \in Thread : PeerOf(t) = p =>
                          ~Publishing(t) /\ stage[t] # "emitting",
                      NEW s \in Listening, p \in heard[s]
               PROVE  p \in attView[s] <=> p \in Members
    BY DEF ObserversSeeRoom
  <2>1. lastEvent[p] = "joined" <=> p \in Members
    BY DEF IInv, Settled
  <2>2. ~(attMu # Free /\ PeerOf(attMu) = p)
    BY DEF IInv, TypeOK, Locks
  <2>3. p \in attView[s] <=> lastEvent[p] = "joined"
    BY <2>2 DEF IInv, ObserversFollowEvents
  <2> QED
    BY <2>1, <2>3
<1> QED
  BY <1>1, IInvHolds, PTL

-----------------------------------------------------------------------------
(***************************************************************************)
(* The delivery loop implements the abstract feed.  The step that takes    *)
(* AttendantsBroadcast.mu is the step at which the event is published;     *)
(* what the loop does afterwards is invisible.                             *)
(***************************************************************************)

\* A handler runs for a session that was connected; a session that was not
\* connected yet has no stream.
Fresh ==
    /\ \A t \in Thread :
          stage[t] \notin {"idle", "waiting"} => link[SessionOf[t]] # "new"
    /\ \A s \in Session :
          link[s] = "new" => s \notin attSinks /\ attView[s] = {}

\* A session that has not begun has no stream.
LEMMA FreshStep == TypeOK /\ Fresh /\ [Next]_vars => Fresh'
<1> SUFFICES ASSUME TypeOK, Fresh, [Next]_vars PROVE Fresh'
  OBVIOUS
<1> USE ConstantsAssumption DEF TypeOK, Fresh, edpVars, attVars, history
<1>1. ASSUME NEW s \in Session, Connect(s) PROVE Fresh'
  BY <1>1 DEF Connect
<1>2. ASSUME NEW s \in Session, Hangup(s) PROVE Fresh'
  BY <1>2 DEF Hangup
<1>3. ASSUME NEW t \in Thread, NEW o \in Operation, Call(t, o) PROVE Fresh'
  BY <1>3 DEF Call, OneStreamEach
<1>4. ASSUME NEW t \in Thread, Refuse(t) PROVE Fresh'
  BY <1>4 DEF Refuse
<1>5. ASSUME NEW t \in Thread, AddEndpoint(t) PROVE Fresh'
  BY <1>5 DEF AddEndpoint, SetEntry, NoteRace
<1>6. ASSUME NEW t \in Thread, Leave(t) PROVE Fresh'
  BY <1>6 DEF Leave, DeleteEntry, NoteRace
<1>7. ASSUME NEW t \in Thread, HandleConnect(t) PROVE Fresh'
  BY <1>7 DEF HandleConnect, DeleteEntry, NoteRace
<1>8. ASSUME NEW t \in Thread, AlreadyAdded(t) PROVE Fresh'
  BY <1>8 DEF AlreadyAdded, SetEntry, NoteRace
<1>9. ASSUME NEW t \in Thread, TakeList(t) PROVE Fresh'
  BY <1>9 DEF TakeList
<1>10. ASSUME NEW t \in Thread, RegisterEndpoints(t) PROVE Fresh'
  BY <1>10 DEF RegisterEndpoints, EdpFree
<1>11. ASSUME NEW t \in Thread, WriteEndpoints(t) PROVE Fresh'
  BY <1>11 DEF WriteEndpoints, Forget
<1>12. ASSUME NEW t \in Thread, LockEndpoints(t) PROVE Fresh'
  BY <1>12 DEF LockEndpoints, EdpFree
<1>13. ASSUME NEW t \in Thread, NEW s \in Session,
           SendUpdate(t, s)
    PROVE  Fresh'
  BY <1>13 DEF SendUpdate
<1>14. ASSUME NEW t \in Thread, UnlockEndpoints(t) PROVE Fresh'
  BY <1>14 DEF UnlockEndpoints, Forget
<1>15. ASSUME NEW t \in Thread, LockAttendants(t) PROVE Fresh'
  BY <1>15 DEF LockAttendants, AttFree
<1>16. ASSUME NEW t \in Thread, NEW s \in Session,
           SendEvent(t, s)
    PROVE  Fresh'
  BY <1>16 DEF SendEvent
<1>17. ASSUME NEW t \in Thread, UnlockAttendants(t) PROVE Fresh'
  BY <1>17 DEF UnlockAttendants, AfterBroadcast
<1>18. ASSUME NEW t \in Thread, WriteState(t) PROVE Fresh'
  BY <1>18 DEF WriteState, Forget
<1>19. ASSUME NEW t \in Thread, RegisterAttendants(t) PROVE Fresh'
  BY <1>19 DEF RegisterAttendants, AttFree
<1>20. CASE UNCHANGED vars
  BY <1>20 DEF vars
<1>21. CASE Over
  BY <1>21 DEF Over, vars
<1> QED
  BY <1>1, <1>2, <1>3, <1>4, <1>5, <1>6, <1>7, <1>8, <1>9, <1>10, <1>11,
     <1>12, <1>13, <1>14, <1>15, <1>16, <1>17, <1>18, <1>19, <1>20, <1>21
     DEF Next, Step

\* Steps that touch neither the broadcaster nor a session are invisible.
LEMMA FeedStutter ==
    ASSUME UNCHANGED <<link, attVars, lastEvent>>,
           attMu # Free => op'[attMu] = op[attMu]
    PROVE  UNCHANGED Feed!feedVars
  BY DEF Feed!feedVars, Listening, ShownBy, EventOf, PeerOf, attVars

FeedMoves == [Feed!FeedNext]_(Feed!feedVars)

\* Every step of the room is a step of the feed or invisible to it.
LEMMA FeedStep == TypeOK /\ Locks /\ Opening1 /\ Fresh /\ [Next]_vars => FeedMoves
<1> SUFFICES ASSUME TypeOK, Locks, Opening1, Fresh, [Next]_vars PROVE FeedMoves
  OBVIOUS
<1> USE DEF FeedMoves, edpVars, attVars, history
<1>1. ASSUME NEW s \in Session,
           Connect(s)
    PROVE  FeedMoves
  <2>1. (attMu # Free /\ s \notin attTodo) \/ attTodo = {}
    BY <1>1 DEF Connect, Fresh, Locks, TypeOK
  <2>2. Listening' = Listening /\ lastEvent' = lastEvent
    BY <1>1 DEF Connect, Fresh, Listening, attVars, TypeOK
  <2>3. ASSUME NEW r \in Session PROVE ShownBy(r)' = ShownBy(r)
    BY <1>1, <2>1 DEF Connect, Fresh, ShownBy, EventOf, PeerOf, attVars, TypeOK
  <2> QED
    BY <2>2, <2>3 DEF Feed!feedVars
<1>2. ASSUME NEW s \in Session,
           Hangup(s)
    PROVE  FeedMoves
  <2>1. Listening' = Listening \ {s} /\ lastEvent' = lastEvent
    BY <1>2 DEF Hangup, Listening, attVars, TypeOK
  <2>2. ASSUME NEW r \in Session
        PROVE  ShownBy(r)' = IF r = s THEN {} ELSE ShownBy(r)
    BY <1>2 DEF Hangup, ShownBy, EventOf, PeerOf, attVars, TypeOK
  <2>3. Feed!Drop(s)
    BY <2>1, <2>2 DEF Feed!Drop
  <2> QED
    BY <2>3 DEF Feed!FeedNext
<1>3. ASSUME NEW t \in Thread, NEW o \in Operation,
           Call(t, o)
    PROVE  FeedMoves
  <2>1. UNCHANGED <<link, attVars, lastEvent>> /\ (attMu # Free => op'[attMu] = op[attMu])
    BY <1>3 DEF Call, TypeOK, Locks
  <2> QED
    BY <2>1, FeedStutter
<1>4. ASSUME NEW t \in Thread, Refuse(t) PROVE FeedMoves
  <2>1. UNCHANGED <<link, attVars, lastEvent>> /\ (attMu # Free => op'[attMu] = op[attMu])
    BY <1>4 DEF Refuse
  <2> QED
    BY <2>1, FeedStutter
<1>5. ASSUME NEW t \in Thread,
           AddEndpoint(t)
    PROVE  FeedMoves
  <2>1. UNCHANGED <<link, attVars, lastEvent>> /\ (attMu # Free => op'[attMu] = op[attMu])
    BY <1>5 DEF AddEndpoint, SetEntry, NoteRace
  <2> QED
    BY <2>1, FeedStutter
<1>6. ASSUME NEW t \in Thread, Leave(t) PROVE FeedMoves
  <2>1. UNCHANGED <<link, attVars, lastEvent>> /\ (attMu # Free => op'[attMu] = op[attMu])
    BY <1>6 DEF Leave, DeleteEntry, NoteRace
  <2> QED
    BY <2>1, FeedStutter
<1>7. ASSUME NEW t \in Thread,
           HandleConnect(t)
    PROVE  FeedMoves
  <2>1. UNCHANGED <<link, attVars, lastEvent>> /\ (attMu # Free => op'[attMu] = op[attMu])
    BY <1>7 DEF HandleConnect, DeleteEntry, NoteRace
  <2> QED
    BY <2>1, FeedStutter
<1>8. ASSUME NEW t \in Thread,
           AlreadyAdded(t)
    PROVE  FeedMoves
  <2>1. UNCHANGED <<link, attVars, lastEvent>> /\ (attMu # Free => op'[attMu] = op[attMu])
    BY <1>8 DEF AlreadyAdded, SetEntry, NoteRace
  <2> QED
    BY <2>1, FeedStutter
<1>9. ASSUME NEW t \in Thread,
           TakeList(t)
    PROVE  FeedMoves
  <2>1. UNCHANGED <<link, attVars, lastEvent>> /\ (attMu # Free => op'[attMu] = op[attMu])
    BY <1>9 DEF TakeList
  <2> QED
    BY <2>1, FeedStutter
<1>10. ASSUME NEW t \in Thread,
           RegisterEndpoints(t)
    PROVE  FeedMoves
  <2>1. UNCHANGED <<link, attVars, lastEvent>> /\ (attMu # Free => op'[attMu] = op[attMu])
    BY <1>10 DEF RegisterEndpoints, EdpFree
  <2> QED
    BY <2>1, FeedStutter
<1>11. ASSUME NEW t \in Thread,
           WriteEndpoints(t)
    PROVE  FeedMoves
  <2>1. UNCHANGED <<link, attVars, lastEvent>> /\ (attMu # Free => op'[attMu] = op[attMu])
    BY <1>11 DEF WriteEndpoints, Forget
  <2> QED
    BY <2>1, FeedStutter
<1>12. ASSUME NEW t \in Thread,
           LockEndpoints(t)
    PROVE  FeedMoves
  <2>1. UNCHANGED <<link, attVars, lastEvent>> /\ (attMu # Free => op'[attMu] = op[attMu])
    BY <1>12 DEF LockEndpoints, EdpFree
  <2> QED
    BY <2>1, FeedStutter
<1>13. ASSUME NEW t \in Thread, NEW s \in Session,
           SendUpdate(t, s)
    PROVE  FeedMoves
  <2>1. UNCHANGED <<link, attVars, lastEvent>> /\ (attMu # Free => op'[attMu] = op[attMu])
    BY <1>13 DEF SendUpdate
  <2> QED
    BY <2>1, FeedStutter
<1>14. ASSUME NEW t \in Thread,
           UnlockEndpoints(t)
    PROVE  FeedMoves
  <2>1. UNCHANGED <<link, attVars, lastEvent>> /\ (attMu # Free => op'[attMu] = op[attMu])
    BY <1>14 DEF UnlockEndpoints, Forget
  <2> QED
    BY <2>1, FeedStutter
<1>15. ASSUME NEW t \in Thread,
           LockAttendants(t)
    PROVE  FeedMoves
  <2>1. attTodo = {} /\ attMu' = t /\ attMu' # Free
    BY <1>15, ConstantsAssumption DEF LockAttendants, AttFree, Locks
  <2>2. /\ UNCHANGED Listening
        /\ lastEvent' = [lastEvent EXCEPT ![PeerOf(t)] = EventOf(t)]
    BY <1>15 DEF LockAttendants, Listening, EventOf, PeerOf
  <2>3. ASSUME NEW s \in Session
        PROVE  ShownBy(s)' = IF s \in Listening
                             THEN Apply(ShownBy(s), EventOf(t), PeerOf(t))
                             ELSE ShownBy(s)
    BY <1>15, <2>1 DEF LockAttendants, ShownBy, Listening, EventOf, PeerOf
  <2>4. EventOf(t) \in Feed!Event /\ PeerOf(t) \in Peer
    BY ConstantsAssumption DEF EventOf, PeerOf, Feed!Event
  <2>5. Feed!Publish(EventOf(t), PeerOf(t))
    BY <2>2, <2>3 DEF Feed!Publish, Feed!Apply, Apply
  <2> QED
    BY <2>4, <2>5 DEF Feed!FeedNext
<1>16. ASSUME NEW t \in Thread, NEW s \in Session,
           SendEvent(t, s)
    PROVE  FeedMoves
  <2>1. attMu = t /\ attMu' = t /\ attMu # Free
    BY <1>16, ConstantsAssumption DEF SendEvent, Locks
  <2>2. Listening' = Listening /\ lastEvent' = lastEvent
    BY <1>16 DEF SendEvent, Listening
  <2>3. ASSUME NEW r \in Session PROVE ShownBy(r)' = ShownBy(r)
    <3>1. CASE link[s] = "live"
      BY <1>16, <2>1, <3>1 DEF SendEvent, ShownBy, EventOf, PeerOf, TypeOK
    <3>2. CASE link[s] # "live"
      BY <1>16, <2>1, <3>2 DEF SendEvent, ShownBy, EventOf, PeerOf, TypeOK
    <3> QED
      BY <3>1, <3>2
  <2> QED
    BY <2>2, <2>3 DEF Feed!feedVars
<1>17. ASSUME NEW t \in Thread,
           UnlockAttendants(t)
    PROVE  FeedMoves
  <2>1. Listening' = Listening /\ lastEvent' = lastEvent
    BY <1>17 DEF UnlockAttendants, Listening
  <2>2. ASSUME NEW s \in Session PROVE ShownBy(s)' = ShownBy(s)
    BY <1>17 DEF UnlockAttendants, ShownBy
  <2> QED
    BY <2>1, <2>2 DEF Feed!feedVars
<1>18. ASSUME NEW t \in Thread,
           WriteState(t)
    PROVE  FeedMoves
  <2> DEFINE o == SessionOf[t]
  <2>1. o \in Session /\ o \notin attSinks /\ o \notin attTodo
    BY <1>18, ConstantsAssumption DEF WriteState, Opening1, Opening, TypeOK
  <2>2. UNCHANGED <<link, attMu, attSinks, attTodo, op, lastEvent>>
    BY <1>18 DEF WriteState
  <2>3. CASE link[o] = "live"
    <3>1. attView' = [attView EXCEPT ![o] = list[t]]
      BY <1>18, <2>3 DEF WriteState
    <3>2. Listening' = Listening /\ o \notin Listening
      BY <2>1, <2>2 DEF Listening
    <3>3. ASSUME NEW r \in Session
          PROVE  ShownBy(r)' = IF r = o THEN list[t] ELSE ShownBy(r)
      BY <2>1, <2>2, <2>3, <3>1 DEF ShownBy, EventOf, PeerOf, TypeOK
    <3>4. Feed!Open(o, list[t])
      BY <2>2, <3>2, <3>3 DEF Feed!Open
    <3> QED
      BY <2>1, <3>4 DEF Feed!FeedNext, TypeOK
  <2>4. CASE link[o] # "live"
    BY <1>18, <2>2, <2>4, FeedStutter DEF WriteState, attVars
  <2> QED
    BY <2>3, <2>4
<1>19. ASSUME NEW t \in Thread,
           RegisterAttendants(t)
    PROVE  FeedMoves
  <2> DEFINE o == SessionOf[t]
  <2>1. o \in Session /\ attTodo = {} /\ UNCHANGED <<link, attView, attTodo, lastEvent>>
    BY <1>19, ConstantsAssumption DEF RegisterAttendants, AttFree, Locks
  <2>2. ASSUME NEW r \in Session PROVE ShownBy(r)' = ShownBy(r)
    BY <2>1 DEF ShownBy
  <2>3. CASE link[o] = "live"
    <3>1. Listening' = Listening \union {o}
      BY <1>19, <2>1, <2>3 DEF RegisterAttendants, Listening
    <3>2. Feed!Subscribe(o)
      BY <2>1, <2>2, <3>1 DEF Feed!Subscribe
    <3> QED
      BY <2>1, <3>2 DEF Feed!FeedNext
  <2>4. CASE link[o] # "live"
    <3>1. Listening' = Listening
      BY <1>19, <2>1, <2>4 DEF RegisterAttendants, Listening
    <3> QED
      BY <2>1, <2>2, <3>1 DEF Feed!feedVars
  <2> QED
    BY <2>3, <2>4
<1>20. CASE UNCHANGED vars
  BY <1>20, FeedStutter DEF vars
<1>21. CASE Over
  BY <1>21, FeedStutter DEF Over, vars
<1> QED
  BY <1>1, <1>2, <1>3, <1>4, <1>5, <1>6, <1>7, <1>8, <1>9, <1>10, <1>11,
     <1>12, <1>13, <1>14, <1>15, <1>16, <1>17, <1>18, <1>19, <1>20, <1>21
     DEF Next, Step

\* The attendants broadcaster implements the abstract feed, for any number of
\* peers, sessions and handlers: an event reaches all subscribers in one step.
THEOREM FeedImplemented == Spec => AttendantsFeed
<1>1. Init => Feed!FeedInit
  BY DEF Init, Feed!FeedInit, Listening, ShownBy
<1>2. Init => Fresh
  BY DEF Init, Fresh
<1>3. IInv /\ Fresh /\ [Next]_vars => Fresh' /\ FeedMoves
  BY FreshStep, FeedStep DEF IInv
<1> QED
  BY <1>1, <1>2, <1>3, IInvHolds, PTL
     DEF Spec, AttendantsFeed, Feed!FeedSpec, FeedMoves

-----------------------------------------------------------------------------
(***************************************************************************)
(* Lists of the members.  Unless the last change of the room overtook a    *)
(* list that was not sent yet: whoever holds a list holds the current one  *)
(* (ListsCurrent); one with an outdated list is inside the loop, and then  *)
(* the thread that outdated it waits to update (LoopCurrent); and a stream *)
(* that does not show the members has their list on its way (Coming).      *)
(***************************************************************************)

ListsCurrent == \A t \in Thread : HoldsList(t) => list[t] = Members

Waiting == \E t \in Thread : stage[t] = "update"

LoopCurrent == \A t \in Thread : stage[t] = "updating" => list[t] = Members \/ Waiting

\* The handler of endpoints that opened the stream s has yet to write to it.
OpeningStages == {"registered", "update", "updating", "emit", "emitting", "list", "write"}

Opens(t, s) == SessionOf[t] = s /\ op[t] = "endpoints" /\ stage[t] \in OpeningStages

\* The loop under way is going to reach s with the current list.
Reaches(t, s) == stage[t] = "updating" /\ list[t] = Members /\ s \in edpTodo

Served(s) == Waiting \/ \E t \in Thread : Opens(t, s) \/ Reaches(t, s)

Coming == \A s \in edpSinks : link[s] = "ended" \/ edpView[s] = Members \/ Served(s)

Recovering == ~contended => ListsCurrent /\ LoopCurrent /\ Coming

\* A change of the room, by a thread that held no list.
LEMMA EntryRecovers ==
    ASSUME TypeOK, NEW t \in Thread, NoteRace(t), list' = [list EXCEPT ![t] = Members'],
           stage' = [stage EXCEPT ![t] = "update"], UNCHANGED op
    PROVE  Recovering'
<1>1. stage'[t] = "update" /\ list'[t] = Members'
  BY DEF TypeOK
<1>2. Waiting'
  BY <1>1 DEF Waiting
<1>3. ASSUME ~contended' PROVE ListsCurrent'
  <2>1. \A u \in Thread \ {t} : ~HoldsList(u)
    BY <1>3 DEF NoteRace
  <2>2. \A u \in Thread \ {t} : ~HoldsList(u)'
    BY <2>1 DEF HoldsList, TypeOK
  <2>. QED
    BY <1>1, <2>2 DEF ListsCurrent
<1>. QED
  BY <1>2, <1>3 DEF Recovering, LoopCurrent, Coming, Served

\* Steps that leave the room, the lists and the loop alone, of a thread that neither updates nor
\* opens a stream, or goes on to open it.
LEMMA OthersRecover ==
    ASSUME TypeOK, Recovering, NEW t \in Thread, NEW next,
           UNCHANGED <<room, list, edpVars, contended>>, \A s \in Session : link[s] = "ended" => link'[s] = "ended",
           stage' = [stage EXCEPT ![t] = next], stage[t] \notin {"update", "updating"},
           next \notin {"update", "updating"}, next = "write" => op'[t] # "endpoints",
           \A u \in Thread \ {t} : op'[u] = op[u],
           stage[t] \in OpeningStages /\ op[t] = "endpoints" =>
               next \in OpeningStages /\ op'[t] = "endpoints"
    PROVE  Recovering'
<1>1. Members' = Members
  BY DEF Members
<1>2. \A u \in Thread : u # t => stage'[u] = stage[u]
  BY DEF TypeOK
<1>3. stage'[t] = next
  BY DEF TypeOK
<1>4. \A u \in Thread : HoldsList(u)' => HoldsList(u)
  BY <1>2, <1>3 DEF HoldsList
<1>5. Waiting <=> Waiting'
  BY <1>2, <1>3 DEF Waiting
<1>6. ListsCurrent => ListsCurrent'
  BY <1>1, <1>4 DEF ListsCurrent
<1>7. LoopCurrent => LoopCurrent'
  BY <1>1, <1>2, <1>3, <1>5 DEF LoopCurrent
<1>8. Coming => Coming'
  <2>1. \A s \in Session : Served(s) => Served(s)'
    BY <1>1, <1>2, <1>3, <1>5 DEF Served, Opens, Reaches, edpVars
  <2>2. edpSinks' = edpSinks /\ edpView' = edpView /\ edpSinks \subseteq Session
    BY DEF edpVars, TypeOK
  <2>. QED
    BY <1>1, <2>1, <2>2 DEF Coming
<1>. QED
  BY <1>6, <1>7, <1>8 DEF Recovering

\* Every step keeps it so.
LEMMA RecoveringStep ==
    TypeOK /\ Locks /\ Handlers /\ Fresh /\ Recovering /\ [Next]_vars => Recovering'
<1> SUFFICES ASSUME TypeOK, Locks, Handlers, Fresh, Recovering, [Next]_vars PROVE Recovering'
  OBVIOUS
<1> USE DEF edpVars, attVars, history
<1>0. /\ stage \in [Thread -> Stages] /\ op \in [Thread -> Operation]
      /\ list \in [Thread -> SUBSET Peer] /\ edpSinks \subseteq Session
      /\ edpTodo \subseteq edpSinks /\ edpView \in [Session -> SUBSET Peer]
      /\ link \in [Session -> {"new", "live", "ended"}] /\ SessionOf \in [Thread -> Session]
  BY ConstantsAssumption DEF TypeOK
<1>b. edpSinks \subseteq Session
  BY <1>0
<1>a. ASSUME UNCHANGED <<room, stage, op, list, edpVars, contended>>,
             \A s \in Session : link[s] = "ended" => link'[s] = "ended"
      PROVE  Recovering'
  <2>1. /\ Members' = Members /\ Waiting' = Waiting
        /\ \A u \in Thread : HoldsList(u)' = HoldsList(u)
        /\ \A u \in Thread, s \in Session : Opens(u, s)' = Opens(u, s) /\ Reaches(u, s)' = Reaches(u, s)
    BY <1>a DEF Members, Waiting, HoldsList, Opens, Reaches
  <2>. QED
    BY <1>b, <1>a, <2>1 DEF Recovering, ListsCurrent, LoopCurrent, Coming, Served
<1>1. ASSUME NEW s \in Session, Connect(s) \/ Hangup(s) PROVE Recovering'
  BY <1>0, <1>1, <1>a DEF Connect, Hangup
<1>2. ASSUME NEW t \in Thread, NEW o \in Operation, Call(t, o) PROVE Recovering'
  <2>1. stage[t] \notin OpeningStages
    BY <1>2 DEF Call, OpeningStages
  <2>. QED
    BY <1>0, <1>2, <2>1, OthersRecover DEF Call
<1>3. ASSUME NEW t \in Thread, Refuse(t) PROVE Recovering'
  <2>1. stage[t] = "called" /\ stage[t] \notin OpeningStages
    BY <1>3 DEF Refuse, OpeningStages
  <2>2. stage'[t] = "idle" /\ stage' = [stage EXCEPT ![t] = "idle"] /\ UNCHANGED <<room, op, list, edpVars, contended>>
    BY <1>0, <1>3 DEF Refuse, history
  <2>. QED
    BY <1>0, <1>3, <2>1, <2>2, OthersRecover DEF Refuse
<1>4. ASSUME NEW t \in Thread, AddEndpoint(t) \/ Leave(t) \/ HandleConnect(t) PROVE Recovering'
  <2>1. CASE AddEndpoint(t)
    BY <2>1, EntryRecovers DEF AddEndpoint, SetEntry
  <2>2. CASE Leave(t)
    BY <2>2, EntryRecovers DEF Leave, DeleteEntry
  <2>3. CASE HandleConnect(t)
    BY <2>3, EntryRecovers DEF HandleConnect, DeleteEntry
  <2>. QED
    BY <1>4, <2>1, <2>2, <2>3
<1>5. ASSUME NEW t \in Thread, AlreadyAdded(t) PROVE Recovering'
  <2>1. CASE SetEntry(t)
    BY <1>5, <2>1, EntryRecovers DEF AlreadyAdded, SetEntry
  <2>2. CASE stage' = [stage EXCEPT ![t] = "list"] /\ UNCHANGED <<room, list, raced, contended>>
    <3>1. stage'[t] = "list" /\ stage[t] = "registered" /\ op' = op
      BY <1>0, <1>5, <2>2 DEF AlreadyAdded
    <3>2. "list" \in OpeningStages
      BY DEF OpeningStages
    <3>. QED
      BY <1>0, <1>5, <2>2, <3>1, <3>2, OthersRecover DEF AlreadyAdded
  <2>. QED
    BY <1>5, <2>1, <2>2 DEF AlreadyAdded
<1>6. ASSUME NEW t \in Thread, TakeList(t) PROVE Recovering'
  <2>1. /\ Members' = Members /\ stage[t] = "list" /\ stage'[t] = "write" /\ list'[t] = Members
        /\ \A u \in Thread \ {t} : stage'[u] = stage[u] /\ list'[u] = list[u]
        /\ op' = op /\ link' = link /\ contended' = contended
        /\ edpSinks' = edpSinks /\ edpTodo' = edpTodo /\ edpView' = edpView
    BY <1>0, <1>6 DEF TakeList, Members
  <2>2. Waiting => Waiting'
    BY <2>1 DEF Waiting
  <2>3. ListsCurrent => ListsCurrent'
    BY <2>1 DEF ListsCurrent, HoldsList
  <2>4. LoopCurrent => LoopCurrent'
    BY <2>1, <2>2 DEF LoopCurrent
  <2>5. \A s \in Session : Served(s) => Served(s)'
    BY <2>1, <2>2 DEF Served, Opens, Reaches, OpeningStages
  <2>6. Coming => Coming'
    BY <1>b, <2>1, <2>5 DEF Coming
  <2>. QED
    BY <2>1, <2>3, <2>4, <2>6 DEF Recovering
<1>7. ASSUME NEW t \in Thread, RegisterEndpoints(t) PROVE Recovering'
  <2>1. /\ Members' = Members /\ stage[t] = "called" /\ stage'[t] = "registered" /\ op[t] = "endpoints"
        /\ \A u \in Thread \ {t} : stage'[u] = stage[u]
        /\ op' = op /\ link' = link /\ contended' = contended /\ list' = list
        /\ edpSinks' = edpSinks \union {SessionOf[t]} /\ edpTodo' = edpTodo /\ edpView' = edpView
    BY <1>0, <1>7 DEF RegisterEndpoints, Members
  <2>2. Waiting => Waiting'
    BY <2>1 DEF Waiting
  <2>3. ListsCurrent => ListsCurrent'
    BY <2>1 DEF ListsCurrent, HoldsList
  <2>4. LoopCurrent => LoopCurrent'
    BY <2>1, <2>2 DEF LoopCurrent
  <2>5. \A s \in Session : Served(s) \/ s = SessionOf[t] => Served(s)'
    BY <2>1, <2>2 DEF Served, Opens, Reaches, OpeningStages
  <2>6. Coming => Coming'
    <3>1. ASSUME Coming, NEW s \in edpSinks'
          PROVE  link'[s] = "ended" \/ edpView'[s] = Members' \/ Served(s)'
      <4>1. s \in Session
        BY <1>0, <1>b, <2>1
      <4>. QED
        BY <2>1, <2>5, <3>1, <4>1 DEF Coming
    <3>. QED
      BY <3>1 DEF Coming
  <2>. QED
    BY <2>1, <2>3, <2>4, <2>6 DEF Recovering
<1>8. ASSUME NEW t \in Thread, WriteEndpoints(t) PROVE Recovering'
  <2>1. /\ Members' = Members /\ stage[t] = "write" /\ stage'[t] = "idle" /\ op[t] = "endpoints"
        /\ \A u \in Thread \ {t} : stage'[u] = stage[u] /\ list'[u] = list[u]
        /\ op' = op /\ link' = link /\ contended' = contended
        /\ edpSinks' = edpSinks /\ edpTodo' = edpTodo
    BY <1>0, <1>8 DEF WriteEndpoints, Forget, Members
  <2>2. Waiting => Waiting'
    BY <2>1 DEF Waiting
  <2>3. ListsCurrent => ListsCurrent'
    BY <2>1 DEF ListsCurrent, HoldsList
  <2>4. LoopCurrent => LoopCurrent'
    BY <2>1, <2>2 DEF LoopCurrent
  <2>5. ASSUME ListsCurrent PROVE link[SessionOf[t]] = "ended" \/ edpView'[SessionOf[t]] = Members
    <3>1. list[t] = Members
      BY <2>1, <2>5 DEF ListsCurrent, HoldsList
    <3>2. link[SessionOf[t]] # "new"
      BY <2>1 DEF Fresh
    <3>. QED
      BY <1>0, <1>8, <3>1, <3>2 DEF WriteEndpoints
  <2>6. \A s \in Session : s # SessionOf[t] => edpView'[s] = edpView[s]
    BY <1>0, <1>8 DEF WriteEndpoints
  <2>7. \A s \in Session : Served(s) => Served(s)' \/ s = SessionOf[t]
    BY <2>1, <2>2 DEF Served, Opens, Reaches, OpeningStages
  <2>8. ListsCurrent /\ Coming => Coming'
    BY <1>b, <2>1, <2>5, <2>6, <2>7 DEF Coming
  <2>. QED
    BY <2>1, <2>3, <2>4, <2>8 DEF Recovering
<1>9. ASSUME NEW t \in Thread, LockEndpoints(t) PROVE Recovering'
  <2>1. /\ Members' = Members /\ stage[t] = "update" /\ stage'[t] = "updating"
        /\ \A u \in Thread \ {t} : stage'[u] = stage[u]
        /\ op' = op /\ link' = link /\ contended' = contended /\ list' = list
        /\ edpSinks' = edpSinks /\ edpTodo' = edpSinks /\ edpView' = edpView
    BY <1>0, <1>9 DEF LockEndpoints, Members
  <2>2. \A u \in Thread : stage[u] # "updating"
    BY <1>9, ConstantsAssumption DEF LockEndpoints, EdpFree, Locks
  <2>3. ListsCurrent => list[t] = Members
    BY <2>1 DEF ListsCurrent, HoldsList
  <2>4. ListsCurrent => ListsCurrent'
    BY <2>1 DEF ListsCurrent, HoldsList
  <2>5. ListsCurrent => LoopCurrent'
    BY <2>1, <2>2, <2>3 DEF LoopCurrent
  <2>6. ListsCurrent => \A s \in edpSinks' : Reaches(t, s)'
    BY <2>1, <2>3 DEF Reaches
  <2>7. ListsCurrent => Coming'
    BY <2>6 DEF Coming, Served
  <2>. QED
    BY <2>1, <2>4, <2>5, <2>7 DEF Recovering
<1>10. ASSUME NEW t \in Thread, NEW s \in Session, SendUpdate(t, s) PROVE Recovering'
  <2>1. /\ Members' = Members /\ stage[t] = "updating" /\ UNCHANGED <<stage, op, list, link, contended>>
        /\ edpTodo' = edpTodo \ {s} /\ edpSinks' \subseteq edpSinks
    BY <1>10 DEF SendUpdate, Members
  <2>2. link[s] # "live" => s \notin edpSinks'
    BY <1>10 DEF SendUpdate
  <2>3. link[s] = "live" => edpView'[s] = list[t]
    BY <1>0, <1>10 DEF SendUpdate
  <2>4. \A r \in Session : r # s => edpView'[r] = edpView[r]
    BY <1>0, <1>10 DEF SendUpdate
  <2>5. Waiting' = Waiting
    BY <2>1 DEF Waiting
  <2>6. ListsCurrent => ListsCurrent'
    BY <2>1 DEF ListsCurrent, HoldsList
  <2>7. LoopCurrent => LoopCurrent'
    BY <2>1, <2>5 DEF LoopCurrent
  <2>8. LoopCurrent => list[t] = Members \/ Waiting
    BY <2>1 DEF LoopCurrent
  <2>9. ASSUME LoopCurrent, Coming, NEW r \in edpSinks'
        PROVE  link'[r] = "ended" \/ edpView'[r] = Members' \/ Served(r)'
    <3>1. CASE r = s
      BY <2>1, <2>2, <2>3, <2>5, <2>8, <2>9, <3>1 DEF Served
    <3>2. CASE r # s
      <4>1. r \in edpSinks /\ r \in Session
        BY <1>b, <2>1
      <4>2. link[r] = "ended" \/ edpView[r] = Members \/ Served(r)
        BY <2>9, <4>1 DEF Coming
      <4>3. Served(r) => Served(r)'
        BY <2>1, <2>5, <3>2, <4>1 DEF Served, Opens, Reaches
      <4>. QED
        BY <2>1, <2>4, <3>2, <4>1, <4>2, <4>3
    <3>. QED
      BY <3>1, <3>2
  <2>10. LoopCurrent /\ Coming => Coming'
    BY <2>9 DEF Coming
  <2>. QED
    BY <2>1, <2>6, <2>7, <2>10 DEF Recovering
<1>11. ASSUME NEW t \in Thread, UnlockEndpoints(t) PROVE Recovering'
  <2>1. /\ Members' = Members /\ stage[t] = "updating" /\ stage'[t] = "emit" /\ edpTodo = {}
        /\ \A u \in Thread \ {t} : stage'[u] = stage[u] /\ list'[u] = list[u]
        /\ op' = op /\ link' = link /\ contended' = contended
        /\ edpSinks' = edpSinks /\ edpTodo' = edpTodo /\ edpView' = edpView
    BY <1>0, <1>11 DEF UnlockEndpoints, Forget, Members
  <2>2. Waiting => Waiting'
    BY <2>1 DEF Waiting
  <2>3. ListsCurrent => ListsCurrent'
    BY <2>1 DEF ListsCurrent, HoldsList
  <2>4. LoopCurrent => LoopCurrent'
    BY <2>1, <2>2 DEF LoopCurrent
  <2>5. \A s \in Session : Served(s) => Served(s)'
    BY <2>1, <2>2 DEF Served, Opens, Reaches, OpeningStages
  <2>6. Coming => Coming'
    BY <1>b, <2>1, <2>5 DEF Coming
  <2>. QED
    BY <2>1, <2>3, <2>4, <2>6 DEF Recovering
<1>12. ASSUME NEW t \in Thread, LockAttendants(t) PROVE Recovering'
  <2>1. "emitting" \in OpeningStages
    BY DEF OpeningStages
  <2>. QED
    BY <1>0, <1>12, <2>1, OthersRecover DEF LockAttendants
<1>13. ASSUME NEW t \in Thread, NEW s \in Session, SendEvent(t, s) PROVE Recovering'
  BY <1>13, <1>a DEF SendEvent
<1>14. ASSUME NEW t \in Thread, UnlockAttendants(t) PROVE Recovering'
  <2>1. AfterBroadcast(t) \in {"done", "list", "idle"}
    BY DEF AfterBroadcast
  <2>2. op[t] = "endpoints" => AfterBroadcast(t) = "list"
    BY DEF AfterBroadcast
  <2>3. "list" \in OpeningStages
    BY DEF OpeningStages
  <2>. QED
    BY <1>0, <1>14, <2>1, <2>2, <2>3, OthersRecover DEF UnlockAttendants
<1>15. ASSUME NEW t \in Thread, WriteState(t) PROVE Recovering'
  <2>1. /\ Members' = Members /\ stage[t] = "write" /\ stage'[t] \in {"idle", "register"}
        /\ op[t] = "attendants"
        /\ \A u \in Thread \ {t} : stage'[u] = stage[u] /\ list'[u] = list[u]
        /\ op' = op /\ link' = link /\ contended' = contended
        /\ edpSinks' = edpSinks /\ edpTodo' = edpTodo /\ edpView' = edpView
    BY <1>0, <1>15 DEF WriteState, Forget, Members
  <2>2. Waiting => Waiting'
    BY <2>1 DEF Waiting
  <2>3. ListsCurrent => ListsCurrent'
    BY <2>1 DEF ListsCurrent, HoldsList
  <2>4. LoopCurrent => LoopCurrent'
    BY <2>1, <2>2 DEF LoopCurrent
  <2>5. \A s \in Session : Served(s) => Served(s)'
    BY <2>1, <2>2 DEF Served, Opens, Reaches, OpeningStages
  <2>6. Coming => Coming'
    BY <1>b, <2>1, <2>5 DEF Coming
  <2>. QED
    BY <2>1, <2>3, <2>4, <2>6 DEF Recovering
<1>16. ASSUME NEW t \in Thread, RegisterAttendants(t) PROVE Recovering'
  <2>1. op[t] = "attendants"
    BY <1>16 DEF RegisterAttendants, Handlers
  <2>. QED
    BY <1>0, <1>16, <2>1, OthersRecover DEF RegisterAttendants
<1>17. CASE Over \/ UNCHANGED vars
  BY <1>17, <1>a DEF Over, vars
<1> QED
  BY <1>1, <1>2, <1>3, <1>4, <1>5, <1>6, <1>7, <1>8, <1>9, <1>10, <1>11, <1>12, <1>13, <1>14,
     <1>15, <1>16, <1>17
     DEF Next, Step

\* Streams of tunnel.endpoints recover: when the handlers are done, and no list was overtaken by
\* the last change of the room, every connected stream shows exactly the members
\* (internal/broadcasts/endpoints.go, Update; muxrpc/handlers/tunnel/server, endpoints).
THEOREM StreamsRecover == Spec => []EndpointsRecover
<1>1. Init => Fresh /\ Recovering
  <2>1. Init => Fresh
    BY DEF Init, Fresh
  <2>2. Init => ListsCurrent /\ LoopCurrent /\ Coming
    BY DEF Init, ListsCurrent, LoopCurrent, Coming, HoldsList
  <2>. QED
    BY <2>1, <2>2 DEF Recovering
<1>2. IInv /\ Fresh /\ Recovering /\ [Next]_vars => Fresh' /\ Recovering'
  BY FreshStep, RecoveringStep DEF IInv
<1>3. Recovering => EndpointsRecover
  <2>. SUFFICES ASSUME Recovering, Quiet, ~contended, NEW s \in edpSinks, link[s] = "live"
                PROVE  edpView[s] = Members
    BY DEF EndpointsRecover
  <2>1. \A t \in Thread : stage[t] \in {"idle", "done", "waiting"}
    BY DEF Quiet
  <2>. QED
    BY <2>1 DEF Recovering, Coming, Served, Waiting, Opens, OpeningStages, Reaches
<1>. QED
  BY <1>1, <1>2, <1>3, IInvHolds, PTL DEF Spec
=============================================================================
