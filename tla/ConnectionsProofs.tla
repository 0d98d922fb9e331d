------------------------- MODULE ConnectionsProofs -------------------------
(***************************************************************************)
(* Theorems about Connections, for any number of connections and feeds and *)
(* for both trackers.                                                      *)
(*                                                                         *)
(* Entries says that the map of the tracker only holds connections that    *)
(* were let in, under their own feed, with an open channel.  It holds      *)
(* whatever overlaps.  Alone says what is true of a feed as long as one    *)
(* goroutine at a time was inside OnAccept for it: the one inside either   *)
(* sees the entry it looked up or no entry at all.                         *)
(***************************************************************************)
EXTENDS Connections, TLAPS

Entries ==
    /\ \A f \in Feed : active[f] # None =>
          FeedOf[active[f]] = f /\ ~done[active[f]]
    /\ \A c \in Conn :
          stage[c] \in {"new", "offered"} \/ Entering(c) =>
              ~done[c] /\ \A f \in Feed : active[f] # c

Policy == ~LastWins => \A c \in Conn : ~Entering(c)

Alone ==
    \A f \in Feed \ overlapped : \A c \in Conn : FeedOf[c] = f /\ Entering(c) =>
        /\ \A d \in Conn : FeedOf[d] = f /\ Entering(d) => c = d
        /\ stage[c] = "admit" => active[f] = None
        /\ stage[c] # "admit" => active[f] \in {old[c], None}

IInv ==
    /\ TypeOK
    /\ Entries
    /\ Policy
    /\ Alone
    /\ TrackerKnowsSession
    /\ RemotesServe

-----------------------------------------------------------------------------
\* Types are preserved.
LEMMA TypeStep == TypeOK /\ [Next]_vars => TypeOK'
<1> SUFFICES ASSUME TypeOK, [Next]_vars PROVE TypeOK'
  OBVIOUS
<1> USE ConnectionsAssumption DEF TypeOK, Stages
<1>1. ASSUME NEW c \in Conn, Arrive(c) PROVE TypeOK'
  BY <1>1 DEF Arrive
<1>2. ASSUME NEW c \in Conn, Disconnect(c) PROVE TypeOK'
  BY <1>2 DEF Disconnect
<1>3. ASSUME NEW c \in Conn, OnAccept(c) PROVE TypeOK'
  <2>1. \E s \in {"accepted", "closed"} : stage' = [stage EXCEPT ![c] = s]
    BY <1>3 DEF OnAccept
  <2>2. active' \in [Feed -> Conn \union {None}] /\ open' \in [Conn -> BOOLEAN]
    BY <1>3 DEF OnAccept
  <2>. QED
    BY <1>3, <2>1, <2>2 DEF OnAccept
<1>4. ASSUME NEW c \in Conn, LookUp(c) PROVE TypeOK'
  BY <1>4 DEF LookUp
<1>5. ASSUME NEW c \in Conn, Evict(c) PROVE TypeOK'
  BY <1>5 DEF Evict
<1>6. ASSUME NEW c \in Conn, OldGone(c) PROVE TypeOK'
  BY <1>6 DEF OldGone
<1>7. ASSUME NEW c \in Conn, GiveUp(c) PROVE TypeOK'
  BY <1>7 DEF GiveUp
<1>8. ASSUME NEW c \in Conn, Admit(c) PROVE TypeOK'
  BY <1>8 DEF Admit
<1>9. ASSUME NEW c \in Conn, NoHandler(c) PROVE TypeOK'
  BY <1>9 DEF NoHandler
<1>10. ASSUME NEW c \in Conn, addRemote(c) PROVE TypeOK'
  BY <1>10 DEF addRemote
<1>11. ASSUME NEW c \in Conn, ServeReturns(c) PROVE TypeOK'
  BY <1>11 DEF ServeReturns
<1>12. ASSUME NEW c \in Conn, removeRemote(c) PROVE TypeOK'
  BY <1>12 DEF removeRemote
<1>13. ASSUME NEW c \in Conn, OnClose(c) PROVE TypeOK'
  BY <1>13 DEF OnClose
<1>14. CASE CloseRemotes
  BY <1>14 DEF CloseRemotes
<1>15. CASE CloseAll
  BY <1>15 DEF CloseAll
<1>16. CASE Over
  BY <1>16 DEF Over, vars
<1>17. CASE UNCHANGED vars
  BY <1>17 DEF vars
<1> QED
  BY <1>1, <1>2, <1>3, <1>4, <1>5, <1>6, <1>7, <1>8, <1>9, <1>10, <1>11,
     <1>12, <1>13, <1>14, <1>15, <1>16, <1>17 DEF Next, Step

\* Entries belong to connections that were let in, and their channels are open.
LEMMA EntriesStep == TypeOK /\ Entries /\ [Next]_vars => Entries'
<1> SUFFICES ASSUME TypeOK, Entries, [Next]_vars PROVE Entries'
  OBVIOUS
<1> USE ConnectionsAssumption DEF TypeOK, Entries, Entering
<1>1. ASSUME NEW c \in Conn, Arrive(c) PROVE Entries'
  BY <1>1 DEF Arrive
<1>2. ASSUME NEW c \in Conn, Disconnect(c) PROVE Entries'
  BY <1>2 DEF Disconnect
<1>3. ASSUME NEW c \in Conn, OnAccept(c) PROVE Entries'
  BY <1>3 DEF OnAccept
<1>4. ASSUME NEW c \in Conn, LookUp(c) PROVE Entries'
  BY <1>4 DEF LookUp
<1>5. ASSUME NEW c \in Conn, Evict(c) PROVE Entries'
  BY <1>5 DEF Evict
<1>6. ASSUME NEW c \in Conn, OldGone(c) PROVE Entries'
  BY <1>6 DEF OldGone
<1>7. ASSUME NEW c \in Conn, GiveUp(c) PROVE Entries'
  BY <1>7 DEF GiveUp
<1>8. ASSUME NEW c \in Conn, Admit(c) PROVE Entries'
  BY <1>8 DEF Admit
<1>9. ASSUME NEW c \in Conn, NoHandler(c) PROVE Entries'
  BY <1>9 DEF NoHandler
<1>10. ASSUME NEW c \in Conn, addRemote(c) PROVE Entries'
  BY <1>10 DEF addRemote
<1>11. ASSUME NEW c \in Conn, ServeReturns(c) PROVE Entries'
  BY <1>11 DEF ServeReturns
<1>12. ASSUME NEW c \in Conn, removeRemote(c) PROVE Entries'
  BY <1>12 DEF removeRemote
<1>13. ASSUME NEW c \in Conn, OnClose(c) PROVE Entries'
  BY <1>13 DEF OnClose
<1>14. CASE CloseRemotes
  BY <1>14 DEF CloseRemotes
<1>15. CASE CloseAll
  BY <1>15 DEF CloseAll
<1>16. CASE Over
  BY <1>16 DEF Over, vars
<1>17. CASE UNCHANGED vars
  BY <1>17 DEF vars
<1> QED
  BY <1>1, <1>2, <1>3, <1>4, <1>5, <1>6, <1>7, <1>8, <1>9, <1>10, <1>11,
     <1>12, <1>13, <1>14, <1>15, <1>16, <1>17 DEF Next, Step

\* Nobody is inside trackerLastWins.OnAccept if that is not the tracker.
LEMMA PolicyStep == TypeOK /\ Policy /\ [Next]_vars => Policy'
<1> SUFFICES ASSUME TypeOK, Policy, [Next]_vars PROVE Policy'
  OBVIOUS
<1> USE DEF TypeOK, Policy, Entering
<1>1. ASSUME NEW c \in Conn, Arrive(c) PROVE Policy'
  BY <1>1 DEF Arrive
<1>2. ASSUME NEW c \in Conn, Disconnect(c) PROVE Policy'
  BY <1>2 DEF Disconnect
<1>3. ASSUME NEW c \in Conn, OnAccept(c) PROVE Policy'
  BY <1>3 DEF OnAccept
<1>4. ASSUME NEW c \in Conn, LookUp(c) PROVE Policy'
  BY <1>4 DEF LookUp
<1>5. ASSUME NEW c \in Conn, Evict(c) PROVE Policy'
  BY <1>5 DEF Evict
<1>6. ASSUME NEW c \in Conn, OldGone(c) PROVE Policy'
  BY <1>6 DEF OldGone
<1>7. ASSUME NEW c \in Conn, GiveUp(c) PROVE Policy'
  BY <1>7 DEF GiveUp
<1>8. ASSUME NEW c \in Conn, Admit(c) PROVE Policy'
  BY <1>8 DEF Admit
<1>9. ASSUME NEW c \in Conn, NoHandler(c) PROVE Policy'
  BY <1>9 DEF NoHandler
<1>10. ASSUME NEW c \in Conn, addRemote(c) PROVE Policy'
  BY <1>10 DEF addRemote
<1>11. ASSUME NEW c \in Conn, ServeReturns(c) PROVE Policy'
  BY <1>11 DEF ServeReturns
<1>12. ASSUME NEW c \in Conn, removeRemote(c) PROVE Policy'
  BY <1>12 DEF removeRemote
<1>13. ASSUME NEW c \in Conn, OnClose(c) PROVE Policy'
  BY <1>13 DEF OnClose
<1>14. CASE CloseRemotes
  BY <1>14 DEF CloseRemotes
<1>15. CASE CloseAll
  BY <1>15 DEF CloseAll
<1>16. CASE Over
  BY <1>16 DEF Over, vars
<1>17. CASE UNCHANGED vars
  BY <1>17 DEF vars
<1> QED
  BY <1>1, <1>2, <1>3, <1>4, <1>5, <1>6, <1>7, <1>8, <1>9, <1>10, <1>11,
     <1>12, <1>13, <1>14, <1>15, <1>16, <1>17 DEF Next, Step

\* The one goroutine inside OnAccept sees the entry it read, or none.
LEMMA AloneStep ==
    TypeOK /\ Entries /\ Policy /\ Alone /\ TrackerKnowsSession /\ [Next]_vars
    => Alone'
<1> SUFFICES ASSUME TypeOK, Entries, Policy, Alone, TrackerKnowsSession,
                    [Next]_vars
             PROVE  Alone'
  OBVIOUS
<1> USE ConnectionsAssumption DEF TypeOK, Alone, Entering
<1>1. ASSUME NEW c \in Conn, Arrive(c) PROVE Alone'
  BY <1>1 DEF Arrive
<1>2. ASSUME NEW c \in Conn, Disconnect(c) PROVE Alone'
  BY <1>2 DEF Disconnect
<1>3. ASSUME NEW c \in Conn, OnAccept(c) PROVE Alone'
  BY <1>3 DEF OnAccept, Policy, Entering
<1>4. ASSUME NEW c \in Conn, LookUp(c) PROVE Alone'
  BY <1>4 DEF LookUp
<1>5. ASSUME NEW c \in Conn, Evict(c) PROVE Alone'
  BY <1>5 DEF Evict
<1>6. ASSUME NEW c \in Conn, OldGone(c) PROVE Alone'
  BY <1>6 DEF OldGone, Entries
<1>7. ASSUME NEW c \in Conn, GiveUp(c) PROVE Alone'
  BY <1>7 DEF GiveUp
<1>8. ASSUME NEW c \in Conn, Admit(c) PROVE Alone'
  BY <1>8 DEF Admit
<1>9. ASSUME NEW c \in Conn, NoHandler(c) PROVE Alone'
  BY <1>9 DEF NoHandler
<1>10. ASSUME NEW c \in Conn, addRemote(c) PROVE Alone'
  BY <1>10 DEF addRemote
<1>11. ASSUME NEW c \in Conn, ServeReturns(c) PROVE Alone'
  BY <1>11 DEF ServeReturns
<1>12. ASSUME NEW c \in Conn, removeRemote(c) PROVE Alone'
  BY <1>12 DEF removeRemote
<1>13. ASSUME NEW c \in Conn, OnClose(c) PROVE Alone'
  BY <1>13 DEF OnClose
<1>14. CASE CloseRemotes
  BY <1>14 DEF CloseRemotes
<1>15. CASE CloseAll
  BY <1>15 DEF CloseAll
<1>16. CASE Over
  BY <1>16 DEF Over, vars
<1>17. CASE UNCHANGED vars
  BY <1>17 DEF vars
<1> QED
  BY <1>1, <1>2, <1>3, <1>4, <1>5, <1>6, <1>7, <1>8, <1>9, <1>10, <1>11,
     <1>12, <1>13, <1>14, <1>15, <1>16, <1>17 DEF Next, Step

\* The tracker knows the session of a feed.
LEMMA KnowsStep ==
    TypeOK /\ Alone /\ TrackerKnowsSession /\ [Next]_vars
    => TrackerKnowsSession'
<1> SUFFICES ASSUME TypeOK, Alone, TrackerKnowsSession, [Next]_vars
             PROVE  TrackerKnowsSession'
  OBVIOUS
<1> USE ConnectionsAssumption DEF TypeOK, TrackerKnowsSession, Established
<1>1. ASSUME NEW c \in Conn, Arrive(c) PROVE TrackerKnowsSession'
  BY <1>1 DEF Arrive
<1>2. ASSUME NEW c \in Conn, Disconnect(c) PROVE TrackerKnowsSession'
  BY <1>2 DEF Disconnect
<1>3. ASSUME NEW c \in Conn, OnAccept(c) PROVE TrackerKnowsSession'
  BY <1>3 DEF OnAccept
<1>4. ASSUME NEW c \in Conn, LookUp(c) PROVE TrackerKnowsSession'
  BY <1>4 DEF LookUp
<1>5. ASSUME NEW c \in Conn, Evict(c) PROVE TrackerKnowsSession'
  BY <1>5 DEF Evict
<1>6. ASSUME NEW c \in Conn, OldGone(c) PROVE TrackerKnowsSession'
  BY <1>6 DEF OldGone
<1>7. ASSUME NEW c \in Conn, GiveUp(c) PROVE TrackerKnowsSession'
  BY <1>7 DEF GiveUp
<1>8. ASSUME NEW c \in Conn, Admit(c) PROVE TrackerKnowsSession'
  BY <1>8 DEF Admit, Alone, Entering
<1>9. ASSUME NEW c \in Conn, NoHandler(c) PROVE TrackerKnowsSession'
  BY <1>9 DEF NoHandler
<1>10. ASSUME NEW c \in Conn, addRemote(c) PROVE TrackerKnowsSession'
  BY <1>10 DEF addRemote
<1>11. ASSUME NEW c \in Conn, ServeReturns(c) PROVE TrackerKnowsSession'
  BY <1>11 DEF ServeReturns
<1>12. ASSUME NEW c \in Conn, removeRemote(c) PROVE TrackerKnowsSession'
  BY <1>12 DEF removeRemote
<1>13. ASSUME NEW c \in Conn, OnClose(c) PROVE TrackerKnowsSession'
  BY <1>13 DEF OnClose
<1>14. CASE CloseRemotes
  BY <1>14 DEF CloseRemotes
<1>15. CASE CloseAll
  BY <1>15 DEF CloseAll
<1>16. CASE Over
  BY <1>16 DEF Over, vars
<1>17. CASE UNCHANGED vars
  BY <1>17 DEF vars
<1> QED
  BY <1>1, <1>2, <1>3, <1>4, <1>5, <1>6, <1>7, <1>8, <1>9, <1>10, <1>11,
     <1>12, <1>13, <1>14, <1>15, <1>16, <1>17 DEF Next, Step

\* So does the remotes map.
LEMMA RemotesStep ==
    TypeOK /\ TrackerKnowsSession /\ RemotesServe /\ [Next]_vars
    => RemotesServe'
<1> SUFFICES ASSUME TypeOK, TrackerKnowsSession, RemotesServe, [Next]_vars
             PROVE  RemotesServe'
  OBVIOUS
<1> USE ConnectionsAssumption DEF TypeOK, RemotesServe
<1>1. ASSUME NEW c \in Conn, Arrive(c) PROVE RemotesServe'
  BY <1>1 DEF Arrive
<1>2. ASSUME NEW c \in Conn, Disconnect(c) PROVE RemotesServe'
  BY <1>2 DEF Disconnect
<1>3. ASSUME NEW c \in Conn, OnAccept(c) PROVE RemotesServe'
  BY <1>3 DEF OnAccept
<1>4. ASSUME NEW c \in Conn, LookUp(c) PROVE RemotesServe'
  BY <1>4 DEF LookUp
<1>5. ASSUME NEW c \in Conn, Evict(c) PROVE RemotesServe'
  BY <1>5 DEF Evict
<1>6. ASSUME NEW c \in Conn, OldGone(c) PROVE RemotesServe'
  BY <1>6 DEF OldGone
<1>7. ASSUME NEW c \in Conn, GiveUp(c) PROVE RemotesServe'
  BY <1>7 DEF GiveUp
<1>8. ASSUME NEW c \in Conn, Admit(c) PROVE RemotesServe'
  BY <1>8 DEF Admit
<1>9. ASSUME NEW c \in Conn, NoHandler(c) PROVE RemotesServe'
  BY <1>9 DEF NoHandler
<1>10. ASSUME NEW c \in Conn, addRemote(c) PROVE RemotesServe'
  BY <1>10 DEF addRemote, TrackerKnowsSession, Established
<1>11. ASSUME NEW c \in Conn, ServeReturns(c) PROVE RemotesServe'
  BY <1>11 DEF ServeReturns
<1>12. ASSUME NEW c \in Conn, removeRemote(c) PROVE RemotesServe'
  BY <1>12 DEF removeRemote, TrackerKnowsSession, Established
<1>13. ASSUME NEW c \in Conn, OnClose(c) PROVE RemotesServe'
  BY <1>13 DEF OnClose
<1>14. CASE CloseRemotes
  BY <1>14 DEF CloseRemotes
<1>15. CASE CloseAll
  BY <1>15 DEF CloseAll
<1>16. CASE Over
  BY <1>16 DEF Over, vars
<1>17. CASE UNCHANGED vars
  BY <1>17 DEF vars
<1> QED
  BY <1>1, <1>2, <1>3, <1>4, <1>5, <1>6, <1>7, <1>8, <1>9, <1>10, <1>11,
     <1>12, <1>13, <1>14, <1>15, <1>16, <1>17 DEF Next, Step

\* The initial state has no entries, no goroutines and no overlap.
LEMMA InitIInv == Init => IInv
<1> SUFFICES ASSUME Init PROVE IInv
  OBVIOUS
<1> USE ConnectionsAssumption DEF Init
<1>1. TypeOK
  BY DEF TypeOK, Stages
<1>2. Entries /\ Policy /\ Alone
  BY DEF Entries, Policy, Alone, Entering
<1>3. TrackerKnowsSession /\ RemotesServe
  BY DEF TrackerKnowsSession, RemotesServe, Established
<1> QED
  BY <1>1, <1>2, <1>3 DEF IInv

\* Every step keeps the invariant: the parts, one after the other.
LEMMA IInvStep == IInv /\ [Next]_vars => IInv'
  BY TypeStep, EntriesStep, PolicyStep, AloneStep, KnowsStep, RemotesStep
     DEF IInv

\* The invariant holds in every state of every behaviour.
LEMMA IInvHolds == Spec => []IInv
<1>1. Init => IInv
  BY InitIInv
<1>2. IInv /\ [Next]_vars => IInv'
  BY IInvStep
<1> QED
  BY <1>1, <1>2, PTL DEF Spec

-----------------------------------------------------------------------------
\* Every variable keeps its type.
THEOREM TypeCorrect == Spec => []TypeOK
<1>1. IInv => TypeOK
  BY DEF IInv
<1> QED
  BY <1>1, IInvHolds, PTL

\* No channel is closed twice, whatever the interleaving of the connections.
THEOREM ChannelsClosedOnce == Spec => []NoDoubleClose
<1>1. IInv => NoDoubleClose
  BY DEF IInv, Entries, NoDoubleClose
<1> QED
  BY <1>1, IInvHolds, PTL

\* A feed whose connections never overlapped inside OnAccept has one session
\* at most, the one in the tracker's map.
THEOREM SessionIsTracked == Spec => []TrackerKnowsSession
<1>1. IInv => TrackerKnowsSession
  BY DEF IInv
<1> QED
  BY <1>1, IInvHolds, PTL

\* And its entry in remotes is the endpoint being served.
THEOREM RemotesAreServed == Spec => []RemotesServe
<1>1. IInv => RemotesServe
  BY DEF IInv
<1> QED
  BY <1>1, IInvHolds, PTL

-----------------------------------------------------------------------------
\* Only CloseAll finishes the shutdown.
LEMMA OnlyCloseAll ==
    ASSUME [Next]_vars, shutdown' = "all", shutdown # "all"
    PROVE  CloseAll
  BY DEF Next, Step, vars, Arrive, Disconnect, OnAccept, LookUp, Evict, OldGone,
         GiveUp, Admit, NoHandler, addRemote, ServeReturns, removeRemote,
         OnClose, CloseRemotes, CloseAll, Over

\* When Close returns, no session of a feed that never overlapped is open:
\* each is the one the tracker knows, and CloseAll closes what that knows.
THEOREM SessionsAreClosed == Spec => CloseReaches
<1>1. ASSUME IInv, [Next]_vars, shutdown' = "all", shutdown # "all",
             NEW c \in Conn, Established(c), FeedOf[c] \notin overlapped
      PROVE  ~open'[c]
  <2>1. CloseAll
    BY <1>1, OnlyCloseAll
  <2>2. FeedOf[c] \in Feed \ overlapped
    BY <1>1, ConnectionsAssumption
  <2>3. active[FeedOf[c]] = c
    BY <1>1, <2>2 DEF IInv, TrackerKnowsSession
  <2>4. c \in Terminated(active)
    BY <2>2, <2>3 DEF Terminated
  <2>. QED
    BY <2>1, <2>4 DEF CloseAll
<1>2. IInv /\ [Next]_vars =>
        [shutdown' = "all" /\ shutdown # "all" =>
            \A c \in Conn : Established(c) /\ FeedOf[c] \notin overlapped => ~open'[c]]_vars
  BY <1>1
<1>. QED
  BY <1>2, IInvHolds, PTL DEF Spec, CloseReaches

-----------------------------------------------------------------------------
\* Every step enters or ends one session of a feed that never overlapped, or
\* none.  A session whose feed overlaps from now on is not counted any more.
LEMMA OrderlyStep ==
    ASSUME IInv, [Next]_vars
    PROVE  [Orderly!SessionNext]_OrderlySessions
<1>0. stage \in [Conn -> Stages] /\ overlapped \subseteq Feed
  BY DEF IInv, TypeOK
<1>. DEFINE Moves == [Orderly!SessionNext]_OrderlySessions
<1>a. ASSUME NEW c \in Conn, NEW x, stage' = [stage EXCEPT ![c] = x], UNCHANGED overlapped,
             x \in {"accepted", "serving", "served", "finish"} <=> Established(c)
      PROVE  Moves
  <2>1. OrderlySessions' = OrderlySessions
    BY <1>0, <1>a DEF OrderlySessions, Established
  <2>. QED
    BY <2>1
<1>b. ASSUME NEW c \in Conn, stage' = [stage EXCEPT ![c] = "accepted"], UNCHANGED overlapped,
             FeedOf[c] \notin overlapped => active[FeedOf[c]] = None, ~Established(c)
      PROVE  Moves
  <2>1. CASE FeedOf[c] \in overlapped
    <3>1. OrderlySessions' = OrderlySessions
      BY <1>0, <1>b, <2>1 DEF OrderlySessions, Established
    <3>. QED
      BY <3>1
  <2>2. CASE FeedOf[c] \notin overlapped
    <3>1. OrderlySessions' = OrderlySessions \union {c}
      BY <1>0, <1>b, <2>2 DEF OrderlySessions, Established
    <3>2. \A d \in OrderlySessions : FeedOf[d] # FeedOf[c]
      BY <1>b, <2>2, ConnectionsAssumption DEF IInv, TrackerKnowsSession, OrderlySessions
    <3>3. Orderly!Enter(c)
      BY <3>1, <3>2 DEF Orderly!Enter
    <3>. QED
      BY <3>3 DEF Orderly!SessionNext
  <2>. QED
    BY <2>1, <2>2
<1>1. ASSUME NEW c \in Conn, Arrive(c) PROVE Moves
  BY <1>1, <1>a DEF Arrive, Established
<1>2. ASSUME NEW c \in Conn, Disconnect(c) PROVE Moves
  BY <1>2 DEF Disconnect, OrderlySessions, Established
<1>3. ASSUME NEW c \in Conn, OnAccept(c) PROVE Moves
  <2>1. CASE active[FeedOf[c]] = None
    BY <1>3, <1>b, <2>1 DEF OnAccept, Established
  <2>2. CASE active[FeedOf[c]] # None
    BY <1>3, <1>a, <2>2 DEF OnAccept, Established
  <2>. QED
    BY <2>1, <2>2
<1>4. ASSUME NEW c \in Conn, LookUp(c) PROVE Moves
  <2>1. stage[c] = "offered" /\ \E x \in {"admit", "evict"} : stage' = [stage EXCEPT ![c] = x]
    BY <1>4 DEF LookUp
  <2>2. \A d \in Conn : Established(d)' = Established(d)
    BY <1>0, <2>1 DEF Established
  <2>3. CASE overlapped' = overlapped
    BY <2>2, <2>3 DEF OrderlySessions
  <2>4. CASE overlapped' = overlapped \union {FeedOf[c]}
    <3>1. OrderlySessions' = {d \in OrderlySessions : FeedOf[d] # FeedOf[c]}
      BY <2>2, <2>4 DEF OrderlySessions
    <3>2. CASE \A d \in OrderlySessions : FeedOf[d] # FeedOf[c]
      BY <3>1, <3>2
    <3>3. CASE \E d \in OrderlySessions : FeedOf[d] = FeedOf[c]
      <4>1. PICK d \in OrderlySessions : FeedOf[d] = FeedOf[c]
        BY <3>3
      <4>2. \A e \in OrderlySessions : FeedOf[e] = FeedOf[c] => e = d
        BY <4>1, ConnectionsAssumption DEF IInv, TrackerKnowsSession, OrderlySessions
      <4>3. OrderlySessions' = OrderlySessions \ {d}
        BY <3>1, <4>1, <4>2
      <4>4. Orderly!Exit(d) /\ d \in Conn
        BY <4>1, <4>3 DEF Orderly!Exit, OrderlySessions
      <4>. QED
        BY <4>4 DEF Orderly!SessionNext
    <3>. QED
      BY <3>2, <3>3
  <2>. QED
    BY <1>4, <2>3, <2>4 DEF LookUp
<1>5. ASSUME NEW c \in Conn, Evict(c) PROVE Moves
  BY <1>5, <1>a DEF Evict, Established
<1>6. ASSUME NEW c \in Conn, OldGone(c) PROVE Moves
  BY <1>6, <1>a DEF OldGone, Established
<1>7. ASSUME NEW c \in Conn, GiveUp(c) PROVE Moves
  BY <1>7, <1>a DEF GiveUp, Established
<1>8. ASSUME NEW c \in Conn, Admit(c) PROVE Moves
  <2>1. FeedOf[c] \notin overlapped => active[FeedOf[c]] = None
    BY <1>8, ConnectionsAssumption DEF IInv, Alone, Admit, Entering
  <2>. QED
    BY <1>8, <1>b, <2>1 DEF Admit, Established
<1>9. ASSUME NEW c \in Conn, NoHandler(c) PROVE Moves
  BY <1>9, <1>a DEF NoHandler, Established
<1>10. ASSUME NEW c \in Conn, addRemote(c) PROVE Moves
  BY <1>10, <1>a DEF addRemote, Established
<1>11. ASSUME NEW c \in Conn, ServeReturns(c) PROVE Moves
  BY <1>11, <1>a DEF ServeReturns, Established
<1>12. ASSUME NEW c \in Conn, removeRemote(c) PROVE Moves
  BY <1>12, <1>a DEF removeRemote, Established
<1>13. ASSUME NEW c \in Conn, OnClose(c) PROVE Moves
  <2>1. OrderlySessions' = OrderlySessions \ {c}
    BY <1>0, <1>13 DEF OnClose, OrderlySessions, Established
  <2>2. c \in OrderlySessions => Orderly!Exit(c)
    BY <2>1 DEF Orderly!Exit
  <2>. QED
    BY <2>1, <2>2 DEF Orderly!SessionNext
<1>14. CASE CloseRemotes \/ CloseAll \/ Over \/ UNCHANGED vars
  BY <1>14 DEF CloseRemotes, CloseAll, Over, vars, OrderlySessions, Established
<1>. QED
  BY <1>1, <1>2, <1>3, <1>4, <1>5, <1>6, <1>7, <1>8, <1>9, <1>10, <1>11,
     <1>12, <1>13, <1>14 DEF Next, Step

\* Either tracker gives a feed one session at a time, for as long as no two of
\* its connections were inside OnAccept together.
THEOREM OrderlyImplementsSingle == Spec => OneSessionUnlessOverlapped
<1>1. Init => Orderly!SessionInit
  BY DEF Init, Orderly!SessionInit, OrderlySessions, Established
<1>2. IInv /\ [Next]_vars => [Orderly!SessionNext]_OrderlySessions
  BY OrderlyStep
<1>. QED
  BY <1>1, <1>2, IInvHolds, PTL DEF Spec, OneSessionUnlessOverlapped, Orderly!SessionSpec

-----------------------------------------------------------------------------
\* connTracker never has two goroutines past a lookup, so nothing overlaps.
LEMMA NeverOverlaps ==
    ASSUME ~LastWins
    PROVE  Spec => [](overlapped = {})
<1>1. Init => overlapped = {}
  BY DEF Init
<1>2. overlapped = {} /\ [Next]_vars => (overlapped = {})'
  BY DEF Next, Step, vars, Arrive, Disconnect, OnAccept, LookUp, Evict, OldGone,
         GiveUp, Admit, NoHandler, addRemote, ServeReturns, removeRemote,
         OnClose, CloseRemotes, CloseAll, Over
<1> QED
  BY <1>1, <1>2, PTL DEF Spec

\* The tracker that refuses gives a feed one session at a time, however many
\* connections it makes and whatever else happens.
THEOREM RefuseImplementsSingle ==
    ASSUME ~LastWins
    PROVE  Spec => OneSessionPerFeed
<1>1. Init => Single!SessionInit
  BY DEF Init, Single!SessionInit, Established
<1>2. ASSUME IInv, overlapped = {}, (overlapped = {})', [Next]_vars
      PROVE  [Single!SessionNext]_({c \in Conn : Established(c)})
  <2>1. OrderlySessions = {c \in Conn : Established(c)}
    BY <1>2 DEF OrderlySessions
  <2>2. OrderlySessions' = {c \in Conn : Established(c)}'
    BY <1>2 DEF OrderlySessions
  <2>3. CASE OrderlySessions' = OrderlySessions
    BY <2>1, <2>2, <2>3
  <2>4. ASSUME NEW c \in Conn, Orderly!Enter(c) PROVE Single!Enter(c)
    BY <2>1, <2>2, <2>4 DEF Orderly!Enter, Single!Enter
  <2>5. ASSUME NEW c \in Conn, Orderly!Exit(c) PROVE Single!Exit(c)
    BY <2>1, <2>2, <2>5 DEF Orderly!Exit, Single!Exit
  <2>. QED
    BY <1>2, <2>3, <2>4, <2>5, OrderlyStep DEF Orderly!SessionNext, Single!SessionNext
<1>3. IInv /\ overlapped = {} /\ (overlapped = {})' /\ [Next]_vars =>
        [Single!SessionNext]_({c \in Conn : Established(c)})
  BY <1>2
<1>. QED
  BY <1>1, <1>3, IInvHolds, NeverOverlaps, PTL
     DEF Spec, OneSessionPerFeed, Single!SessionSpec

=============================================================================
