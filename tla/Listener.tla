------------------------------ MODULE Listener ------------------------------
(***************************************************************************)
(* The listener of the network node: Serve, the goroutine that accepts for *)
(* it, and Close (internal/network/new.go), called the way cmd/server does *)
(* it: Serve again and again until its context is cancelled, Close from    *)
(* another goroutine, once.                                                *)
(*                                                                         *)
(* listenerLock guards n.lis.  lisClose, a sync.Once, closes the listener; *)
(* whoever comes second to a Once waits for the first to finish.  Serve    *)
(* enters the Once and then takes the lock, Close has the lock and then    *)
(* enters the Once.                                                        *)
(***************************************************************************)
EXTENDS Naturals

CONSTANTS MaxServe,  \* bound: how often Serve is called
          MaxConn    \* bound: connections that arrive

ASSUME ListenerAssumption == MaxServe \in Nat /\ MaxConn \in Nat

VARIABLES
    cancelled,   \* the context of Serve
    lis,         \* n.lis is not nil
    listening,   \* the socket of the last listener is open
    lock,        \* listenerLock: "free", or held by "close"
    once,        \* lisClose: "new", "serve" (Serve is inside), "spent"
    serve,       \* how far Serve is
    accept,      \* how far the goroutine that accepts is
    close,       \* how far Close is
    served,      \* calls of Serve so far
    arrived      \* connections so far

vars == <<cancelled, lis, listening, lock, once, serve, accept, close, served, arrived>>

Init ==
    /\ cancelled = FALSE
    /\ lis = FALSE
    /\ listening = FALSE
    /\ lock = "free"
    /\ once = "new"
    /\ serve = "down"
    /\ accept = "ended"
    /\ close = "no"
    /\ served = 0
    /\ arrived = 0

Cancel ==
    /\ ~cancelled
    /\ cancelled' = TRUE
    /\ UNCHANGED <<lis, listening, lock, once, serve, accept, close, served, arrived>>

-----------------------------------------------------------------------------
(* Serve.                                                                  *)

\* Where cmd/server goes when Serve returned.
Returned == IF cancelled THEN "exit" ELSE "down"

\* The new listener, a new Once, and the goroutine that accepts.  When Close
\* was faster, cmd/server calls Serve all the same.
Listen ==
    /\ serve = "down"
    /\ served < MaxServe
    /\ lock = "free"
    /\ served' = served + 1
    /\ lis' = TRUE
    /\ listening' = TRUE
    /\ once' = "new"
    /\ serve' = "loop"
    /\ accept' = "check"
    /\ UNCHANGED <<cancelled, lock, close, arrived>>

\* The address is taken, say: n.lis is nil, and the Once is left as it was.
ListenFails ==
    /\ serve = "down"
    /\ served < MaxServe
    /\ lock = "free"
    /\ served' = served + 1
    /\ lis' = FALSE
    /\ serve' = Returned
    /\ UNCHANGED <<cancelled, listening, lock, once, accept, close, arrived>>

\* Mutant: the connection is served in the loop, not in a goroutine.
TakeAndServe ==
    /\ serve = "loop"
    /\ accept = "got"
    /\ accept' = "check"
    /\ serve' = "serving"
    /\ UNCHANGED <<cancelled, lis, listening, lock, once, close, served, arrived>>

\* conn := <-newConn
Take ==
    /\ serve = "loop"
    /\ accept = "got"
    /\ accept' = "check"
    /\ UNCHANGED <<cancelled, lis, listening, lock, once, serve, close, served, arrived>>

\* Mutant: Serve leaves as soon as somebody closed the listener.
LeaveEarly ==
    /\ serve = "loop"
    /\ cancelled \/ ~listening
    /\ serve' = "defer"
    /\ UNCHANGED <<cancelled, lis, listening, lock, once, accept, close, served, arrived>>

\* The context is cancelled, or newConn closed.
LeaveLoop ==
    /\ serve = "loop"
    /\ cancelled \/ accept = "ended"
    /\ serve' = "defer"
    /\ UNCHANGED <<cancelled, lis, listening, lock, once, accept, close, served, arrived>>

\* The deferred lisClose.Do.
EnterOnce ==
    /\ serve = "defer"
    /\ \/ once = "new" /\ once' = "serve" /\ serve' = "once"
       \/ once = "spent" /\ serve' = Returned /\ UNCHANGED once
    /\ UNCHANGED <<cancelled, lis, listening, lock, accept, close, served, arrived>>

\* The function Do runs for Serve waits for listenerLock.
CloseListener ==
    /\ serve = "once"
    /\ lock = "free"
    /\ listening' = FALSE
    /\ lis' = FALSE
    /\ once' = "spent"
    /\ serve' = Returned
    /\ UNCHANGED <<cancelled, lock, accept, close, served, arrived>>

-----------------------------------------------------------------------------
(* The goroutine that accepts.                                             *)

\* Mutant: the lock is given back on the way out only.
CheckLocks ==
    /\ accept = "check"
    /\ lock = "free"
    /\ lock' = IF lis THEN "accept" ELSE lock
    /\ accept' = IF lis THEN "read" ELSE "ended"
    /\ UNCHANGED <<cancelled, lis, listening, once, serve, close, served, arrived>>

\* n.lis is compared with nil under the lock ...
CheckListener ==
    /\ accept = "check"
    /\ lock = "free"
    /\ accept' = IF lis THEN "read" ELSE "ended"
    /\ UNCHANGED <<cancelled, lis, listening, lock, once, serve, close, served, arrived>>

\* ... and read again without it, to call its Accept.
ReadListener ==
    /\ accept = "read"
    /\ accept' = IF lis THEN "accepting" ELSE "panic"
    /\ UNCHANGED <<cancelled, lis, listening, lock, once, serve, close, served, arrived>>

Arrive ==
    /\ accept = "accepting" /\ listening
    /\ arrived < MaxConn
    /\ arrived' = arrived + 1
    /\ accept' = "got"
    /\ UNCHANGED <<cancelled, lis, listening, lock, once, serve, close, served>>

\* A handshake that fails is an error of Accept like any other.
AcceptFails ==
    /\ accept = "accepting" /\ listening
    /\ arrived < MaxConn
    /\ arrived' = arrived + 1
    /\ accept' = "check"
    /\ UNCHANGED <<cancelled, lis, listening, lock, once, serve, close, served>>

\* Mutant: every error of Accept is taken for a passing one.
AcceptRetries ==
    /\ accept = "accepting" /\ ~listening
    /\ accept' = "check"
    /\ UNCHANGED <<cancelled, lis, listening, lock, once, serve, close, served, arrived>>

\* "use of closed network connection" ends the goroutine, and newConn closes.
AcceptEnds ==
    /\ accept = "accepting" /\ ~listening
    /\ accept' = "ended"
    /\ UNCHANGED <<cancelled, lis, listening, lock, once, serve, close, served, arrived>>

-----------------------------------------------------------------------------
(* Close.                                                                  *)

LockListener ==
    /\ close = "no"
    /\ lock = "free"
    /\ lock' = "close"
    /\ close' = IF lis THEN "once" ELSE "rest"
    /\ UNCHANGED <<cancelled, lis, listening, once, serve, accept, served, arrived>>

\* Mutant: the listener is taken away as well, as Serve does it.
CloseTakes ==
    /\ close = "once"
    /\ once # "serve"
    /\ listening' = IF once = "new" THEN FALSE ELSE listening
    /\ lis' = FALSE
    /\ once' = "spent"
    /\ close' = "rest"
    /\ UNCHANGED <<cancelled, lock, serve, accept, served, arrived>>

\* Mutant: the lock is given back before the endpoints are closed.
CloseUnlocks ==
    /\ close = "once"
    /\ once # "serve"
    /\ listening' = IF once = "new" THEN FALSE ELSE listening
    /\ once' = "spent"
    /\ lock' = "free"
    /\ close' = "rest"
    /\ UNCHANGED <<cancelled, lis, serve, accept, served, arrived>>

\* lisClose.Do with the lock held.  Nobody else is inside, or Close waits.
CloseOnce ==
    /\ close = "once"
    /\ once # "serve"
    /\ listening' = IF once = "new" THEN FALSE ELSE listening
    /\ once' = "spent"
    /\ close' = "rest"
    /\ UNCHANGED <<cancelled, lis, lock, serve, accept, served, arrived>>

\* The endpoints and connections are closed (Connections.tla), and the lock
\* given back.
CloseReturns ==
    /\ close = "rest"
    /\ lock' = "free"
    /\ close' = "closed"
    /\ UNCHANGED <<cancelled, lis, listening, once, serve, accept, served, arrived>>

-----------------------------------------------------------------------------
ServeStep == LeaveLoop \/ EnterOnce \/ CloseListener
AcceptStep == CheckListener \/ ReadListener \/ AcceptEnds
CloseStep == CloseOnce \/ CloseReturns

\* Waiting for connections, or the program exits.
Rest ==
    /\ \/ serve = "loop" /\ accept = "accepting" /\ listening
       \/ serve = "exit"
    /\ close \in {"no", "closed"}
    /\ UNCHANGED vars

Next ==
    \/ Cancel \/ Listen \/ ListenFails \/ Take \/ ServeStep
    \/ Arrive \/ AcceptFails \/ AcceptStep
    \/ LockListener \/ CloseStep
    \/ Rest

Spec == Init /\ [][Next]_vars

\* Goroutines run on.  Nothing has to arrive, and nobody has to cancel or to
\* call Close.  When both cases of Serve's select are ready it picks one at
\* random, so the one that stays ready is picked some day.
FairSpec ==
    /\ Spec
    /\ WF_vars(Listen) /\ WF_vars(Take)
    /\ SF_vars(LeaveLoop) /\ WF_vars(EnterOnce) /\ SF_vars(CloseListener)
    /\ SF_vars(AcceptStep) /\ WF_vars(CloseStep)

-----------------------------------------------------------------------------
(* Properties.                                                             *)

\* The types; Close holds the lock from the listener to the last connection,
\* and Serve is inside the Once exactly while it waits for the lock.
TypeOK ==
    /\ cancelled \in BOOLEAN
    /\ lis \in BOOLEAN
    /\ listening \in BOOLEAN
    /\ lock \in {"free", "close"}
    /\ once \in {"new", "serve", "spent"}
    /\ serve \in {"down", "loop", "defer", "once", "exit"}
    /\ accept \in {"ended", "check", "read", "accepting", "got", "panic"}
    /\ close \in {"no", "once", "rest", "closed"}
    /\ served \in 0..MaxServe
    /\ arrived \in 0..MaxConn
    /\ lock = "close" <=> close \in {"once", "rest"}
    /\ once = "serve" <=> serve = "once"

\* Serve is inside the Once and waits for the lock, Close has the lock and
\* waits for the Once: nothing ends it.
LockedOut == serve = "once" /\ close = "once"

(***************************************************************************)
(* A cancelled context makes Serve return, whoever accepts or closes at    *)
(* the time: the two locks of Serve and Close are the only thing that can  *)
(* keep it.                                                                *)
(***************************************************************************)
CancelReturns == cancelled ~> serve \in {"down", "exit"} \/ LockedOut

(***************************************************************************)
(* Close ends the Serve that is running: the listener it closes makes the  *)
(* goroutine end, its channel closes, and Serve leaves the loop.           *)
(***************************************************************************)
CloseReturnsServe ==
    close = "once" ~> serve \in {"down", "exit"} \/ LockedOut

(***************************************************************************)
(* The goroutine that accepts reads n.lis without the lock.  Nobody sets   *)
(* it to nil meanwhile as long as the context lives, Close or no Close.    *)
(***************************************************************************)
AcceptNotNil == accept = "panic" => cancelled

\* A connection that was accepted is served, as long as the context lives.
ConnectionsTaken == accept = "got" ~> accept # "got" \/ cancelled

\* When Serve is called again, the goroutine of the last call has ended.
OneAccepts == serve = "down" => accept = "ended"

(***************************************************************************)
(* new.go:259: "Canceling the passed context makes the function return",   *)
(* whatever else is called at the time.                                    *)
(***************************************************************************)
CancelAlwaysReturns == cancelled ~> serve \in {"down", "exit"}

=============================================================================
