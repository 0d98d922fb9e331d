------------------------------- MODULE Tunnel -------------------------------
(***************************************************************************)
(* tunnel.connect (muxrpc/handlers/tunnel/server/connect.go): a peer calls *)
(* another one through the room.  The handler looks the target up, calls   *)
(* it, starts a goroutine for each direction and returns; the goroutines   *)
(* copy until their source ends, something fails or the context is         *)
(* cancelled.  Sessions end whenever they like, before and after each of   *)
(* these steps.                                                            *)
(***************************************************************************)
EXTENDS Naturals

CONSTANTS
    Sessions,     \* muxrpc sessions
    Peer,         \* session -> the peer at its other end
    Calls,        \* calls of tunnel.connect
    Self,         \* the room
    NoSession     \* no entry

Peers == {Peer[s] : s \in Sessions}
Directions == {"there", "back"}       \* caller to target, target to caller

ASSUME TunnelAssumption == NoSession \notin Sessions /\ Self \notin Peers /\ "elsewhere" # Self

VARIABLES
    live,         \* sessions that have not ended
    entry,        \* peer -> the session the room has for it (Manager.room)
    call,         \* call -> how far its handler got
    copy,         \* call, direction -> the goroutine
    source,       \* call, direction -> what it reads from
    frames,       \* call, direction -> a frame waits in the source
    cancelled     \* calls whose copies' context is cancelled

vars == <<live, entry, call, copy, source, frames, cancelled>>

Idle == [at |-> "idle", from |-> NoSession, target |-> Self, edp |-> NoSession]

Stages == {"idle", "arguments", "found", "refused", "tunnel"}
Handlers == [at: Stages, from: Sessions \cup {NoSession},
             target: Peers \cup {Self}, edp: Sessions \cup {NoSession}]

TypeOK ==
    /\ live \subseteq Sessions
    /\ entry \in [Peers -> Sessions \cup {NoSession}]
    /\ call \in [Calls -> Handlers]
    /\ \A c \in Calls : call[c].at \in {"found", "tunnel"} => call[c].edp \in Sessions
    /\ copy \in [Calls \X Directions -> {"none", "runs", "over", "broken"}]
    /\ source \in [Calls \X Directions -> {"open", "ended", "failed"}]
    /\ frames \in [Calls \X Directions -> BOOLEAN]
    /\ cancelled \subseteq Calls

Init ==
    /\ live = Sessions
    /\ entry = [p \in Peers |-> NoSession]
    /\ call = [c \in Calls |-> Idle]
    /\ copy = [g \in Calls \X Directions |-> "none"]
    /\ source = [g \in Calls \X Directions |-> "open"]
    /\ frames = [g \in Calls \X Directions |-> FALSE]
    /\ cancelled = {}

-----------------------------------------------------------------------------
(* The room.  A session's entry is replaced by that of a later one, and    *)
(* taken out by peer, whichever session ended or asked for it.  A request  *)
(* to announce or to leave may be served late, when its session is over.   *)

\* Also AlreadyAdded, which does so when the peer has no entry.
AddEndpoint(s) ==
    /\ entry' = [entry EXCEPT ![Peer[s]] = s]
    /\ UNCHANGED <<live, call, copy, source, frames, cancelled>>

Remove(p) ==
    /\ entry' = [entry EXCEPT ![p] = NoSession]
    /\ UNCHANGED <<live, call, copy, source, frames, cancelled>>

leave(s) == Remove(Peer[s])

HandleConnect(s) == s \notin live /\ Remove(Peer[s])

(* The session that writes into a source, and the one behind its sink. *)
Writer(g) == IF g[2] = "there" THEN call[g[1]].from ELSE call[g[1]].edp
Reader(g) == IF g[2] = "there" THEN call[g[1]].edp ELSE call[g[1]].from

(* A session ends: the streams it wrote into end or fail, and the contexts *)
(* of its calls are cancelled.                                             *)
Hangup(s) ==
    /\ s \in live
    /\ live' = live \ {s}
    /\ \E how \in {"ended", "failed"} :
          source' = [g \in Calls \X Directions |->
                        IF source[g] = "open" /\ copy[g] = "runs" /\ Writer(g) = s
                        THEN how ELSE source[g]]
    /\ cancelled' = cancelled \cup {c \in Calls : call[c].from = s}
    /\ UNCHANGED <<entry, call, copy, frames>>

-----------------------------------------------------------------------------
(* HandleDuplex. *)

Goto(c, at) == call' = [call EXCEPT ![c].at = at]
Unchanged == UNCHANGED <<live, entry, copy, source, frames, cancelled>>

(* The call, with one argument; with another number of them it is refused. *)
Connect(c, s, target) ==
    /\ call[c].at = "idle" /\ s \in live
    /\ call' = [call EXCEPT ![c] = [Idle EXCEPT !.at = "arguments", !.from = s, !.target = target]]
    /\ Unchanged

\* Mutant: a peer may connect to itself.
HasSelf(c, portal) ==
    /\ call[c].at = "arguments"
    /\ IF \/ portal # Self
          \/ call[c].target \notin Peers
          \/ entry[call[c].target] = NoSession
       THEN Goto(c, "refused")
       ELSE call' = [call EXCEPT ![c].at = "found", ![c].edp = entry[call[c].target]]
    /\ Unchanged

Has(c, portal) ==
    /\ call[c].at = "arguments"
    /\ IF \/ portal # Self
          \/ call[c].target = Peer[call[c].from]
          \/ call[c].target \notin Peers
          \/ entry[call[c].target] = NoSession
       THEN Goto(c, "refused")
       ELSE call' = [call EXCEPT ![c].at = "found", ![c].edp = entry[call[c].target]]
    /\ Unchanged

(* The endpoint found is called, though it may have left or been replaced. *)
Duplex(c) ==
    /\ call[c].at = "found"
    /\ \/ Goto(c, "refused") /\ UNCHANGED <<copy, source>>
       \/ /\ call[c].edp \in live /\ c \notin cancelled
          /\ Goto(c, "tunnel")
          /\ copy' = [g \in Calls \X Directions |-> IF g[1] = c THEN "runs" ELSE copy[g]]
          /\ UNCHANGED source
    /\ UNCHANGED <<live, entry, frames, cancelled>>

-----------------------------------------------------------------------------
(* The peers write frames and close their streams. *)

Write(g) ==
    /\ copy[g] = "runs" /\ source[g] = "open" /\ ~frames[g]
    /\ frames' = [frames EXCEPT ![g] = TRUE]
    /\ UNCHANGED <<live, entry, call, copy, source, cancelled>>

EndStream(g) ==
    /\ copy[g] = "runs" /\ source[g] = "open"
    /\ \E how \in {"ended", "failed"} : source' = [source EXCEPT ![g] = how]
    /\ UNCHANGED <<live, entry, call, copy, frames, cancelled>>

(* muxrpcDuplexCopy.do.  An error closes the sink and cancels the context  *)
(* of both goroutines; a source that ends leaves the other direction be.   *)

Ends(g, how) == copy' = [copy EXCEPT ![g] = how]

(* Mutant: only the sink is closed. *)
BreakAlone(g) == Ends(g, "broken") /\ UNCHANGED cancelled

Break(g) == Ends(g, "broken") /\ cancelled' = cancelled \cup {g[1]}

CopyFrame(g) ==
    /\ copy[g] = "runs" /\ frames[g]
    /\ frames' = [frames EXCEPT ![g] = FALSE]
    /\ IF Reader(g) \in live THEN UNCHANGED <<copy, cancelled>> ELSE Break(g)
    /\ UNCHANGED <<live, entry, call, source>>

(* Next returns no more: the source is done, or the context is. *)
SourceEnds(g) ==
    /\ copy[g] = "runs"
    /\ \/ source[g] = "ended" /\ ~frames[g] /\ Ends(g, "over") /\ UNCHANGED cancelled
       \/ source[g] = "failed" /\ ~frames[g] /\ Break(g)
       \/ g[1] \in cancelled /\ Break(g)
    /\ UNCHANGED <<live, entry, call, source, frames>>

Copies(c) == \E d \in Directions : CopyFrame(<<c, d>>) \/ SourceEnds(<<c, d>>)

Next ==
    \/ \E s \in Sessions : AddEndpoint(s) \/ leave(s) \/ HandleConnect(s) \/ Hangup(s)
    \/ \E c \in Calls :
          \/ \E s \in Sessions, target \in Peers : Connect(c, s, target)
          \/ \E portal \in {Self, "elsewhere"} : Has(c, portal)
          \/ Duplex(c) \/ Copies(c)
          \/ \E d \in Directions : Write(<<c, d>>) \/ EndStream(<<c, d>>)

(* Both goroutines run on: each direction for itself, and a source that is *)
(* done is seen, for Next picks at random between frames and the context.  *)
Spec ==
    /\ Init /\ [][Next]_vars
    /\ \A c \in Calls : WF_vars(\E portal \in {Self, "elsewhere"} : Has(c, portal))
    /\ \A c \in Calls : WF_vars(Duplex(c))
    /\ \A g \in Calls \X Directions : WF_vars(CopyFrame(g)) /\ SF_vars(SourceEnds(g))

-----------------------------------------------------------------------------
(* A tunnel does not outlive its caller, nor an error of one of its        *)
(* directions: the other goroutine returns as well, though its own peer    *)
(* may be silent (muxrpcDuplexCopy).                                       *)
TunnelsEnd ==
    \A c \in Calls :
        call[c].at = "tunnel"
          /\ (call[c].from \notin live \/ \E d \in Directions : copy[<<c, d>>] = "broken")
            ~> \A d \in Directions : copy[<<c, d>>] \in {"over", "broken"}

(* The sessions of a tunnel are two peers', the one that called and the    *)
(* one it asked for, whatever came and went in the room since.             *)
RightPeers ==
    \A c \in Calls :
        call[c].at = "tunnel" =>
            Peer[call[c].edp] = call[c].target /\ Peer[call[c].from] # call[c].target
=============================================================================
