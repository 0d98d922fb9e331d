---------------------------- MODULE TunnelProofs ----------------------------
(***************************************************************************)
(* Proofs about tunnel.connect: a tunnel has the right two peers at its    *)
(* ends, whatever came and went in the room meanwhile.                     *)
(***************************************************************************)
EXTENDS Tunnel, TLAPS

Goroutines == Calls \X Directions

\* A goroutine is known by its call and its direction.
LEMMA GoroutineOf ==
    /\ \A c \in Calls, d \in Directions : <<c, d>> \in Goroutines /\ <<c, d>>[1] = c
    /\ \A g \in Goroutines : g[1] \in Calls
  BY DEF Goroutines

\* What Has finds, it finds in the room, for another peer than the caller.
Found(c) ==
    /\ call[c].target # Peer[call[c].from]
    /\ call[c].target \in Peers /\ entry[call[c].target] # NoSession
    /\ call' = [call EXCEPT ![c].at = "found", ![c].edp = entry[call[c].target]]

\* The handler refuses the call, or has an endpoint for it.
LEMMA HasEither ==
    ASSUME NEW c \in Calls, NEW portal, Has(c, portal)
    PROVE  call[c].at = "arguments" /\ Unchanged /\ (Goto(c, "refused") \/ Found(c))
  BY DEF Has, Found

\* The handler gives up, or starts its goroutines.
LEMMA DuplexEither ==
    ASSUME NEW c \in Calls, Duplex(c)
    PROVE  /\ call[c].at = "found" /\ source' = source
           /\ UNCHANGED <<live, entry, frames, cancelled>>
           /\ \/ Goto(c, "refused") /\ UNCHANGED copy
              \/ /\ Goto(c, "tunnel")
                 /\ copy' = [g \in Goroutines |-> IF g[1] = c THEN "runs" ELSE copy[g]]
  BY DEF Duplex, Goroutines

-----------------------------------------------------------------------------
(* Types.                                                                  *)

\* The initial state has the right types.
LEMMA TypeInit == Init => TypeOK
  BY DEF Init, TypeOK, Idle, Handlers, Stages

\* Where a handler can go to.
LEMMA AStage == "refused" \in Stages /\ "tunnel" \in Stages
  BY DEF Stages

\* A handler that moves on is a handler.
LEMMA GotoType ==
    ASSUME TypeOK, NEW c \in Calls, NEW stage \in Stages, Goto(c, stage)
    PROVE  call' \in [Calls -> Handlers]
<1>1. call \in [Calls -> Handlers]
  BY DEF TypeOK
<1>. QED
  BY <1>1 DEF Goto, Handlers

\* What it does not move stays.
LEMMA GotoKeeps ==
    ASSUME TypeOK, NEW c \in Calls, NEW stage, Goto(c, stage)
    PROVE  /\ \A d \in Calls : /\ call'[d].from = call[d].from
                              /\ call'[d].target = call[d].target
                              /\ call'[d].edp = call[d].edp
           /\ \A d \in Calls : d # c => call'[d] = call[d]
           /\ call'[c].at = stage
<1>1. call \in [Calls -> Handlers]
  BY DEF TypeOK
<1>. QED
  BY <1>1 DEF Goto, Handlers

\* Nor is anything else moved when an endpoint was found.
LEMMA FoundKeeps ==
    ASSUME TypeOK, NEW c \in Calls, Found(c)
    PROVE  /\ \A d \in Calls : d # c => call'[d] = call[d]
           /\ call'[c].from = call[c].from /\ call'[c].target = call[c].target
           /\ call'[c].edp = entry[call[c].target] /\ call'[c].at = "found"
<1>1. call \in [Calls -> Handlers]
  BY DEF TypeOK
<1>. QED
  BY <1>1 DEF Found, Handlers

\* One that found an endpoint keeps a session.
LEMMA FoundType ==
    ASSUME TypeOK, NEW c \in Calls, Found(c)
    PROVE  call' \in [Calls -> Handlers]
<1>. DEFINE mid == [call EXCEPT ![c].at = "found"]
            e == entry[call[c].target]
<1>1. e \in Sessions
  BY DEF Found, TypeOK
<1>2. mid \in [Calls -> Handlers]
  <2>1. call \in [Calls -> Handlers]
    BY DEF TypeOK
  <2>. QED
    BY <2>1 DEF Handlers, Stages
<1>3. call' = [mid EXCEPT ![c].edp = e]
  BY DEF Found
<1>. HIDE DEF mid, e
<1>. QED
  BY <1>1, <1>2, <1>3 DEF Handlers

\* Every step keeps the types.
LEMMA TypeStep == TypeOK /\ [Next]_vars => TypeOK'
<1>. SUFFICES ASSUME TypeOK, [Next]_vars PROVE TypeOK'
  OBVIOUS
<1>. USE TunnelAssumption
<1>1. ASSUME NEW s \in Sessions, AddEndpoint(s) PROVE TypeOK'
  BY <1>1 DEF AddEndpoint, TypeOK, Peers
<1>2. ASSUME NEW s \in Sessions, leave(s) \/ HandleConnect(s) PROVE TypeOK'
  BY <1>2 DEF leave, HandleConnect, Remove, TypeOK
<1>3. ASSUME NEW s \in Sessions, Hangup(s) PROVE TypeOK'
  BY <1>3 DEF Hangup, TypeOK
<1>4. ASSUME NEW c \in Calls, NEW s \in Sessions, NEW target \in Peers, Connect(c, s, target)
      PROVE  TypeOK'
  <2>1. [Idle EXCEPT !.at = "arguments", !.from = s, !.target = target] \in Handlers
    BY DEF Idle, Handlers, Stages
  <2>2. call' \in [Calls -> Handlers]
    BY <1>4, <2>1 DEF Connect, TypeOK
  <2>. QED
    BY <1>4, <2>2 DEF Connect, Unchanged, TypeOK
<1>5. ASSUME NEW c \in Calls, NEW portal \in {Self, "elsewhere"}, Has(c, portal) PROVE TypeOK'
  <2>1. call' \in [Calls -> Handlers] /\ Unchanged
    BY <1>5, HasEither, AStage, GotoType, FoundType
  <2>2. Goto(c, "refused") \/ Found(c)
    BY <1>5, HasEither
  <2>3. Found(c) => entry[call[c].target] \in Sessions
    BY DEF Found, TypeOK
  <2>4. \A d \in Calls : call'[d].at \in {"found", "tunnel"} => call'[d].edp \in Sessions
    BY <2>2, <2>3, GotoKeeps, FoundKeeps DEF TypeOK
  <2>. QED
    BY <2>1, <2>4 DEF Unchanged, TypeOK
<1>6. ASSUME NEW c \in Calls, Duplex(c) PROVE TypeOK'
  <2>1. call' \in [Calls -> Handlers]
    BY <1>6, DuplexEither, AStage, GotoType
  <2>2. copy' \in [Goroutines -> {"none", "runs", "over", "broken"}]
    BY <1>6, DuplexEither DEF TypeOK, Goroutines
  <2>3. PICK stage \in {"refused", "tunnel"} : Goto(c, stage)
    BY <1>6, DuplexEither
  <2>4. \A d \in Calls : call'[d].at \in {"found", "tunnel"} => call'[d].edp \in Sessions
    BY <1>6, <2>3, DuplexEither, GotoKeeps DEF TypeOK
  <2>. QED
    BY <1>6, <2>1, <2>2, <2>4, DuplexEither DEF TypeOK, Goroutines
<1>7. ASSUME NEW g \in Goroutines, CopyFrame(g) PROVE TypeOK'
  BY <1>7 DEF CopyFrame, Break, Ends, TypeOK, Goroutines
<1>8. ASSUME NEW g \in Goroutines, SourceEnds(g) PROVE TypeOK'
  BY <1>8 DEF SourceEnds, Break, Ends, TypeOK, Goroutines
<1>9. ASSUME NEW g \in Goroutines, Write(g) \/ EndStream(g) PROVE TypeOK'
  <2>1. CASE Write(g)
    BY <2>1 DEF Write, TypeOK, Goroutines
  <2>2. CASE EndStream(g)
    BY <2>2 DEF EndStream, TypeOK, Goroutines
  <2>. QED
    BY <1>9, <2>1, <2>2
<1>10. CASE UNCHANGED vars
  BY <1>10 DEF vars, TypeOK
<1>. QED
  BY <1>1, <1>2, <1>3, <1>4, <1>5, <1>6, <1>7, <1>8, <1>9, <1>10, GoroutineOf
     DEF Next, Copies

\* The room, the calls and the goroutines keep their types.
THEOREM TypeCorrect == Spec => []TypeOK
  BY TypeInit, TypeStep, PTL DEF Spec

-----------------------------------------------------------------------------
(***************************************************************************)
(* Routes.  The entry of a peer is a session of that peer, however late an *)
(* announce comes; a handler that found one keeps it, and the check that   *)
(* the caller is another peer, until the tunnel stands.                    *)
(***************************************************************************)
Routes ==
    /\ \A s \in Sessions, p \in Peers : entry[p] = s => Peer[s] = p
    /\ \A c \in Calls :
           /\ call[c].at \in {"found", "tunnel"} =>
                  /\ call[c].from \in Sessions /\ call[c].edp \in Sessions
                  /\ Peer[call[c].edp] = call[c].target
                  /\ Peer[call[c].from] # call[c].target
           /\ call[c].at = "arguments" => call[c].from \in Sessions

\* Nobody is in the room and nobody calls at first.
LEMMA RoutesInit == Init => Routes
  BY TunnelAssumption DEF Init, Routes, Idle

\* Every step keeps the routes.
LEMMA RoutesStep == TypeOK /\ Routes /\ [Next]_vars => Routes'
<1>. SUFFICES ASSUME TypeOK, Routes, [Next]_vars PROVE Routes'
  OBVIOUS
<1>. USE TunnelAssumption
<1>1. ASSUME NEW s \in Sessions, AddEndpoint(s) PROVE Routes'
  BY <1>1 DEF AddEndpoint, TypeOK, Routes
<1>2. ASSUME NEW s \in Sessions, leave(s) \/ HandleConnect(s) PROVE Routes'
  BY <1>2 DEF leave, HandleConnect, Remove, TypeOK, Routes
<1>3. ASSUME NEW s \in Sessions, Hangup(s) PROVE Routes'
  BY <1>3 DEF Hangup, Routes
<1>4. ASSUME NEW c \in Calls, NEW s \in Sessions, NEW target \in Peers, Connect(c, s, target)
      PROVE  Routes'
  BY <1>4 DEF Connect, Unchanged, Idle, TypeOK, Routes
<1>5. ASSUME NEW c \in Calls, NEW portal \in {Self, "elsewhere"}, Has(c, portal) PROVE Routes'
  <2>1. CASE Goto(c, "refused") /\ Unchanged
    BY <2>1, GotoKeeps DEF Unchanged, Routes
  <2>2. CASE call[c].at = "arguments" /\ Found(c) /\ Unchanged
    <3>1. PICK e \in Sessions : e = entry[call[c].target] /\ Peer[e] = call[c].target
      BY <2>2 DEF Found, TypeOK, Routes
    <3>2. /\ \A d \in Calls : d # c => call'[d] = call[d]
          /\ call'[c].from = call[c].from /\ call'[c].target = call[c].target
          /\ call'[c].edp = e /\ call'[c].at = "found"
      BY <2>2, <3>1, FoundKeeps
    <3>3. /\ entry' = entry /\ call[c].from \in Sessions
          /\ Peer[call[c].from] # call[c].target
      BY <2>2 DEF Found, Unchanged, Routes
    <3>. QED
      BY <3>1, <3>2, <3>3 DEF Routes
  <2>. QED
    BY <1>5, <2>1, <2>2, HasEither
<1>6. ASSUME NEW c \in Calls, Duplex(c) PROVE Routes'
  <2>1. PICK stage \in {"refused", "tunnel"} : Goto(c, stage)
    BY <1>6, DuplexEither
  <2>2. call[c].at = "found" /\ entry' = entry
    BY <1>6, DuplexEither
  <2>. QED
    BY <2>1, <2>2, GotoKeeps DEF Routes
<1>7. ASSUME NEW g \in Goroutines, CopyFrame(g) \/ SourceEnds(g) \/ Write(g) \/ EndStream(g)
      PROVE  Routes'
  BY <1>7 DEF CopyFrame, SourceEnds, Write, EndStream, Routes
<1>8. CASE UNCHANGED vars
  BY <1>8 DEF vars, Routes
<1>. QED
  BY <1>1, <1>2, <1>3, <1>4, <1>5, <1>6, <1>7, <1>8, GoroutineOf DEF Next, Copies

\* A tunnel leads from the peer that called to the one it asked for.
THEOREM TunnelsLeadToTheirPeers == Spec => []RightPeers
<1>1. Routes => RightPeers
  BY DEF Routes, RightPeers
<1>. QED
  BY <1>1, TypeCorrect, RoutesInit, RoutesStep, PTL DEF Spec

=============================================================================
