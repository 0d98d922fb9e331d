---------------------------- MODULE Connections ----------------------------
(***************************************************************************)
(* Connections of authenticated peers, from accept to close:               *)
(*                                                                         *)
(*   internal/network/conntracker.go  connTracker and trackerLastWins      *)
(*   internal/network/new.go          handleConnection, the remotes map    *)
(*                                    and Close                            *)
(*                                                                         *)
(* Each connection is handled by a goroutine of its own.  The trackers     *)
(* guard their map with activeLock, but the one that is used by default    *)
(* lets the lock go while it waits for the previous connection to end, so  *)
(* several goroutines may be inside OnAccept for the same feed.            *)
(***************************************************************************)
CONSTANTS Conn,       \* connections; a connection is made once
          Feed,       \* the peers' public keys
          FeedOf,     \* FeedOf[c]: the feed authenticated on connection c
          LastWins,   \* which tracker: trackerLastWins or connTracker
          None        \* no entry

ASSUME ConnectionsAssumption ==
    /\ FeedOf \in [Conn -> Feed]
    /\ LastWins \in BOOLEAN
    /\ None \notin Conn

VARIABLES
    stage,       \* stage[c]: how far the goroutine of c is
    open,        \* open[c]: nobody closed connection c yet
    old,         \* old[c]: the entry trackerLastWins.OnAccept looked up
    active,      \* connTracker.active
    done,        \* done[c]: the channel of c's entry is closed
    remotes,     \* node.remotes
    shutdown,    \* node.Close: "no", then the remotes, then the tracker
    overlapped   \* history: feeds with two goroutines inside OnAccept

vars == <<stage, open, old, active, done, remotes, shutdown, overlapped>>

\* Inside trackerLastWins.OnAccept, past the lookup.
Entering(c) == stage[c] \in {"evict", "wait", "admit"}

\* OnAccept said yes and OnClose was not called yet.
Established(c) == stage[c] \in {"accepted", "serving", "served", "finish"}

Init ==
    /\ stage = [c \in Conn |-> "new"]
    /\ open = [c \in Conn |-> FALSE]
    /\ old = [c \in Conn |-> None]
    /\ active = [f \in Feed |-> None]
    /\ done = [c \in Conn |-> FALSE]
    /\ remotes = [f \in Feed |-> None]
    /\ shutdown = "no"
    /\ overlapped = {}

-----------------------------------------------------------------------------
(* The network.                                                            *)

\* The listener accepted and authenticated c and started handleConnection.
Arrive(c) ==
    /\ stage[c] = "new"
    /\ stage' = [stage EXCEPT ![c] = "offered"]
    /\ open' = [open EXCEPT ![c] = TRUE]
    /\ UNCHANGED <<old, active, done, remotes, shutdown, overlapped>>

\* The peer goes away, or the line is cut.
Disconnect(c) ==
    /\ open[c]
    /\ open' = [open EXCEPT ![c] = FALSE]
    /\ UNCHANGED <<stage, old, active, done, remotes, shutdown, overlapped>>

-----------------------------------------------------------------------------
(* OnAccept.                                                               *)

\* Mutant: OnClose is deferred for connections that were refused, too.
OnAcceptDefers(c) ==
    /\ ~LastWins
    /\ stage[c] = "offered"
    /\ IF active[FeedOf[c]] = None
       THEN /\ active' = [active EXCEPT ![FeedOf[c]] = c]
            /\ stage' = [stage EXCEPT ![c] = "accepted"]
       ELSE /\ stage' = [stage EXCEPT ![c] = "finish"]
            /\ UNCHANGED active
    /\ UNCHANGED <<open, old, done, remotes, shutdown, overlapped>>

\* connTracker: one critical section.
OnAccept(c) ==
    /\ ~LastWins
    /\ stage[c] = "offered"
    /\ IF active[FeedOf[c]] = None
       THEN /\ active' = [active EXCEPT ![FeedOf[c]] = c]
            /\ stage' = [stage EXCEPT ![c] = "accepted"]
            /\ UNCHANGED open
       ELSE /\ stage' = [stage EXCEPT ![c] = "closed"]
            /\ open' = [open EXCEPT ![c] = FALSE]
            /\ UNCHANGED active
    /\ UNCHANGED <<old, done, remotes, shutdown, overlapped>>

\* trackerLastWins: the entry is read under the lock, and the lock let go.
LookUp(c) ==
    /\ LastWins
    /\ stage[c] = "offered"
    /\ old' = [old EXCEPT ![c] = active[FeedOf[c]]]
    /\ stage' = [stage EXCEPT
                    ![c] = IF active[FeedOf[c]] = None THEN "admit" ELSE "evict"]
    /\ overlapped' = IF \E d \in Conn \ {c} :
                            FeedOf[d] = FeedOf[c] /\ Entering(d)
                     THEN overlapped \union {FeedOf[c]}
                     ELSE overlapped
    /\ UNCHANGED <<open, active, done, remotes, shutdown>>

\* The previous connection is closed and its context cancelled.
Evict(c) ==
    /\ stage[c] = "evict"
    /\ open' = [open EXCEPT ![old[c]] = FALSE]
    /\ stage' = [stage EXCEPT ![c] = "wait"]
    /\ UNCHANGED <<old, active, done, remotes, shutdown, overlapped>>

\* Mutant: nobody waits for the previous connection.
OldLeft(c) ==
    /\ stage[c] = "wait"
    /\ stage' = [stage EXCEPT ![c] = "admit"]
    /\ UNCHANGED <<open, old, active, done, remotes, shutdown, overlapped>>

\* The previous connection cleaned up after itself ...
OldGone(c) ==
    /\ stage[c] = "wait"
    /\ done[old[c]]
    /\ stage' = [stage EXCEPT ![c] = "admit"]
    /\ UNCHANGED <<open, old, active, done, remotes, shutdown, overlapped>>

\* Mutant: no timer.
NeverGiveUp(c) == FALSE

\* ... or it did not within ten seconds, and c is refused.
GiveUp(c) ==
    /\ stage[c] = "wait"
    /\ stage' = [stage EXCEPT ![c] = "closed"]
    /\ open' = [open EXCEPT ![c] = FALSE]
    /\ UNCHANGED <<old, active, done, remotes, shutdown, overlapped>>

Admit(c) ==
    /\ stage[c] = "admit"
    /\ active' = [active EXCEPT ![FeedOf[c]] = c]
    /\ stage' = [stage EXCEPT ![c] = "accepted"]
    /\ UNCHANGED <<open, old, done, remotes, shutdown, overlapped>>

-----------------------------------------------------------------------------
(* The rest of handleConnection.                                           *)

\* MakeHandler refuses the peer.
NoHandler(c) ==
    /\ stage[c] = "accepted"
    /\ stage' = [stage EXCEPT ![c] = "finish"]
    /\ UNCHANGED <<open, old, active, done, remotes, shutdown, overlapped>>

\* Close holds remotesLock from the first endpoint to its return.
RemotesFree == shutdown # "remotes"

addRemote(c) ==
    /\ stage[c] = "accepted"
    /\ RemotesFree
    /\ remotes' = [remotes EXCEPT ![FeedOf[c]] = c]
    /\ stage' = [stage EXCEPT ![c] = "serving"]
    /\ UNCHANGED <<open, old, active, done, shutdown, overlapped>>

ServeReturns(c) ==
    /\ stage[c] = "serving"
    /\ ~open[c]
    /\ stage' = [stage EXCEPT ![c] = "served"]
    /\ UNCHANGED <<open, old, active, done, remotes, shutdown, overlapped>>

\* Mutant: the endpoint stays behind.
keepRemote(c) ==
    /\ stage[c] = "served"
    /\ RemotesFree
    /\ stage' = [stage EXCEPT ![c] = "finish"]
    /\ UNCHANGED <<open, old, active, done, remotes, shutdown, overlapped>>

\* The entry of the feed goes, whichever connection it belongs to.
removeRemote(c) ==
    /\ stage[c] = "served"
    /\ RemotesFree
    /\ remotes' = [remotes EXCEPT ![FeedOf[c]] = None]
    /\ stage' = [stage EXCEPT ![c] = "finish"]
    /\ UNCHANGED <<open, old, active, done, shutdown, overlapped>>

\* Mutant: the channel is closed and the entry stays.
OnCloseKeeps(c) ==
    /\ stage[c] = "finish"
    /\ LET who == active[FeedOf[c]] IN
       done' = IF who = None THEN done ELSE [done EXCEPT ![who] = TRUE]
    /\ open' = [open EXCEPT ![c] = FALSE]
    /\ stage' = [stage EXCEPT ![c] = "closed"]
    /\ UNCHANGED <<old, active, remotes, shutdown, overlapped>>

\* The deferred OnClose: the entry of the feed goes and its channel is
\* closed, whichever connection it belongs to; then c is closed.
OnClose(c) ==
    /\ stage[c] = "finish"
    /\ LET who == active[FeedOf[c]] IN
       /\ done' = IF who = None THEN done ELSE [done EXCEPT ![who] = TRUE]
       /\ active' = [active EXCEPT ![FeedOf[c]] = None]
    /\ open' = [open EXCEPT ![c] = FALSE]
    /\ stage' = [stage EXCEPT ![c] = "closed"]
    /\ UNCHANGED <<old, remotes, shutdown, overlapped>>

-----------------------------------------------------------------------------
(* node.Close.                                                             *)

Terminated(m) == {c \in Conn : \E f \in Feed : m[f] = c}

\* Every endpoint in remotes is terminated ...
CloseRemotes ==
    /\ shutdown = "no"
    /\ shutdown' = "remotes"
    /\ open' = [c \in Conn |-> open[c] /\ c \notin Terminated(remotes)]
    /\ UNCHANGED <<stage, old, active, done, remotes, overlapped>>

\* Mutant: the open connections are counted and left alone.
CountAll ==
    /\ shutdown = "remotes"
    /\ shutdown' = "all"
    /\ UNCHANGED <<stage, open, old, active, done, remotes, overlapped>>

\* ... then connTracker.CloseAll closes every tracked connection and leaves
\* it to their goroutines to take the entries out.
CloseAll ==
    /\ shutdown = "remotes"
    /\ shutdown' = "all"
    /\ open' = [c \in Conn |-> open[c] /\ c \notin Terminated(active)]
    /\ UNCHANGED <<stage, old, active, done, remotes, overlapped>>

-----------------------------------------------------------------------------
\* What the goroutine of c does without the network's help.
Step(c) ==
    \/ OnAccept(c)
    \/ LookUp(c)
    \/ Evict(c)
    \/ OldGone(c)
    \/ GiveUp(c)
    \/ Admit(c)
    \/ NoHandler(c)
    \/ addRemote(c)
    \/ ServeReturns(c)
    \/ removeRemote(c)
    \/ OnClose(c)

\* Every connection came and went and the node is closed.
Over ==
    /\ \A c \in Conn : stage[c] = "closed"
    /\ shutdown = "all"
    /\ UNCHANGED vars

Next ==
    \/ \E c \in Conn : Arrive(c) \/ Disconnect(c) \/ Step(c)
    \/ CloseRemotes
    \/ CloseAll
    \/ Over

Spec == Init /\ [][Next]_vars

\* Goroutines run on, timers fire.  Arrivals, disconnects and Close need not
\* happen.
FairSpec == Spec /\ \A c \in Conn : WF_vars(Step(c))

-----------------------------------------------------------------------------
(* Properties.                                                             *)

Stages == {"new", "offered", "evict", "wait", "admit", "accepted", "serving",
           "served", "finish", "closed"}

TypeOK ==
    /\ stage \in [Conn -> Stages]
    /\ open \in [Conn -> BOOLEAN]
    /\ old \in [Conn -> Conn \union {None}]
    /\ active \in [Feed -> Conn \union {None}]
    /\ done \in [Conn -> BOOLEAN]
    /\ remotes \in [Feed -> Conn \union {None}]
    /\ shutdown \in {"no", "remotes", "all"}
    /\ overlapped \in SUBSET Feed
    /\ \A c \in Conn : stage[c] \in {"evict", "wait"} => old[c] \in Conn

(***************************************************************************)
(* OnClose closes a channel it finds by feed, and closing a channel twice  *)
(* panics.  However connections of a feed overlap, an entry that is in the *)
(* map has a channel nobody closed.                                        *)
(***************************************************************************)
NoDoubleClose == \A f \in Feed : active[f] # None => ~done[active[f]]

(***************************************************************************)
(* As long as no two connections of a feed were inside OnAccept together,  *)
(* the feed has one session at most, it is the one the tracker knows, and  *)
(* OnClose, which goes by feed, takes out its own entry.                   *)
(***************************************************************************)
TrackerKnowsSession ==
    \A f \in Feed \ overlapped : \A c \in Conn :
        FeedOf[c] = f /\ Established(c) => active[f] = c

(***************************************************************************)
(* Under the same condition the endpoint GetEndpointFor returns is the one *)
(* being served: neither is an old one left there, nor does the end of an  *)
(* old connection take out the endpoint of the new one.                    *)
(***************************************************************************)
RemotesServe ==
    \A f \in Feed \ overlapped : \A c \in Conn :
        FeedOf[c] = f => (remotes[f] = c <=> stage[c] \in {"serving", "served"})

(***************************************************************************)
(* Close reaches every session: when it has closed what the tracker knows, *)
(* no session of a feed without overlap is left open.                      *)
(***************************************************************************)
CloseReaches ==
    [][shutdown' = "all" /\ shutdown # "all" =>
          \A c \in Conn : Established(c) /\ FeedOf[c] \notin overlapped
                          => ~open'[c]]_vars

(***************************************************************************)
(* A connection that was offered is let in or refused.  An entry that was  *)
(* overwritten has a channel nobody will close; only the ten seconds save  *)
(* whoever waits for it.                                                   *)
(***************************************************************************)
OfferDecided ==
    \A c \in Conn :
        stage[c] = "offered" ~> Established(c) \/ stage[c] = "closed"

\* The abstract specification: one session per feed.
Single == INSTANCE SingleSession WITH
              sessions <- {c \in Conn : Established(c)}

(***************************************************************************)
(* connTracker, which refuses a connection while the feed has an entry,    *)
(* gives every feed one session at a time.                                 *)
(***************************************************************************)
OneSessionPerFeed == Single!SessionSpec

\* The same for the feeds of which no two connections were ever inside
\* OnAccept together.
OrderlySessions == {c \in Conn : Established(c) /\ FeedOf[c] \notin overlapped}

Orderly == INSTANCE SingleSession WITH sessions <- OrderlySessions

(***************************************************************************)
(* trackerLastWins gives a feed one session at a time, too, until two of   *)
(* its connections are inside OnAccept together: whoever comes in evicted  *)
(* the one before and has seen it go.                                      *)
(***************************************************************************)
OneSessionUnlessOverlapped == Orderly!SessionSpec

(***************************************************************************)
(* conntracker.go:111 says that the tracker "just kills the previous       *)
(* connection and let's the new one in": two connections of a feed are     *)
(* never served at the same time.                                          *)
(***************************************************************************)
LastOneWins ==
    \A c, d \in Conn :
        FeedOf[c] = FeedOf[d] /\ stage[c] = "serving" /\ stage[d] = "serving"
        /\ open[c] /\ open[d] => c = d

=============================================================================
