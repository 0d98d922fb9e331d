------------------------------- MODULE SignIn -------------------------------
(***************************************************************************)
(* Sign-in with SSB, started by the server:                                *)
(*                                                                         *)
(*   internal/signinwithssb/bridge.go           SignalBridge               *)
(*   muxrpc/handlers/signinwithssb/withssb.go   SendSolution and           *)
(*                                              InvalidateAllSolutions     *)
(*   web/handlers/auth/withssb.go               eventSource,               *)
(*                                              finalizeCookie, Logout     *)
(*   roomdb/sqlite/auth_withssb.go              the table of tokens        *)
(*                                                                         *)
(* A browser page listens for server-sent events about a challenge; a      *)
(* member's client sends the signed challenge over muxrpc; the bridge      *)
(* hands the outcome from one to the other over an unbuffered channel.     *)
(* The bridge has one mutex for all its sessions, and whoever signals an   *)
(* outcome keeps it until a page took the event or two minutes are over.   *)
(*                                                                         *)
(* The token a call creates is named by the call.  There is no clock: a    *)
(* timer may fire at any time after it was set.                            *)
(***************************************************************************)
CONSTANTS Challenge,    \* server challenges, the keys of the sessions
          Call,         \* calls of httpAuth.sendSolution
          Page,         \* requests for the server-sent events of a challenge
          Member,
          ChallengeOf,  \* ChallengeOf[x]: what call x solves, page x awaits
          MemberOf,     \* MemberOf[s]: who makes call s
          NoPage,       \* nobody took the event
          Free          \* the mutex is not held

ASSUME SignInAssumption ==
    /\ ChallengeOf \in [Call \union Page -> Challenge]
    /\ MemberOf \in [Call -> Member]
    /\ NoPage \notin Page
    /\ Free \notin Call

VARIABLES
    issued,     \* challenges RegisterSession returned so far
    sessions,   \* SignalBridge.sessions: challenges with an entry
    closed,     \* challenges whose channel is closed
    mu,         \* SignalBridge.mu: the call that holds it, or Free
    stage,      \* stage[s]: how far call s is
    worked,     \* worked[s]: the event of call s says it worked
    told,       \* told[s]: the page that took the event of call s
    tokens,     \* the table of tokens
    page,       \* page[p]: what page p was told, or how far it is
    stuck       \* history: tokens RemoveToken failed to remove

vars == <<issued, sessions, closed, mu, stage, worked, told, tokens, page, stuck>>

Init ==
    /\ issued = {}
    /\ sessions = {}
    /\ closed = {}
    /\ mu = Free
    /\ stage = [s \in Call |-> "new"]
    /\ worked = [s \in Call |-> FALSE]
    /\ told = [s \in Call |-> NoPage]
    /\ tokens = {}
    /\ page = [p \in Page |-> "new"]
    /\ stuck = {}

\* Mutant: the bridge is used without its mutex.
MuIgnored == TRUE

MuFree == mu = Free

-----------------------------------------------------------------------------
(* Sessions of the bridge.                                                 *)

RegisterSession(c) ==
    /\ MuFree
    /\ c \notin issued
    /\ issued' = issued \union {c}
    /\ sessions' = sessions \union {c}
    /\ UNCHANGED <<closed, mu, stage, worked, told, tokens, page, stuck>>

\* The page for a sign-in registers a session, unless it was opened with the
\* challenge of another page: then there is nothing to do.
serverInitiated(c) == RegisterSession(c)

\* After ten minutes the entry goes.  The channel is left as it is.
ExpireSession(c) ==
    /\ MuFree
    /\ c \in sessions
    /\ sessions' = sessions \ {c}
    /\ UNCHANGED <<issued, closed, mu, stage, worked, told, tokens, page, stuck>>

-----------------------------------------------------------------------------
(* SendSolution.                                                           *)

\* The caller is no member, or does not pass three arguments.
RefuseCall(s) ==
    /\ stage[s] = "new"
    /\ stage' = [stage EXCEPT ![s] = "done"]
    /\ UNCHANGED <<issued, sessions, closed, mu, worked, told, tokens, page, stuck>>

\* The solution is not valid, or CreateToken fails.
BadSolution(s) ==
    /\ stage[s] = "new"
    /\ stage' = [stage EXCEPT ![s] = "signal"]
    /\ UNCHANGED <<issued, sessions, closed, mu, worked, told, tokens, page, stuck>>

\* The solution is valid.  It is valid for any challenge the caller names:
\* whether the bridge knows the challenge turns out later.
GoodSolution(s) ==
    /\ stage[s] = "new"
    /\ tokens' = tokens \union {s}
    /\ worked' = [worked EXCEPT ![s] = TRUE]
    /\ stage' = [stage EXCEPT ![s] = "signal"]
    /\ UNCHANGED <<issued, sessions, closed, mu, told, page, stuck>>

\* What is left to do when the event could not be handed over.
AfterSignal(s) == IF worked[s] /\ told[s] = NoPage THEN "undo" ELSE "done"

\* Mutant: "no such session" is returned with the mutex held.
LockKept(s) ==
    /\ stage[s] = "signal"
    /\ MuFree
    /\ mu' = s
    /\ stage' = [stage EXCEPT
                    ![s] = IF ChallengeOf[s] \in sessions
                           THEN "sending" ELSE AfterSignal(s)]
    /\ UNCHANGED <<issued, sessions, closed, worked, told, tokens, page, stuck>>

\* sendAndClose takes the mutex and looks for the session.
sendAndClose(s) ==
    /\ stage[s] = "signal"
    /\ MuFree
    /\ IF ChallengeOf[s] \in sessions
       THEN /\ mu' = s
            /\ stage' = [stage EXCEPT ![s] = "sending"]
       ELSE /\ stage' = [stage EXCEPT ![s] = AfterSignal(s)]
            /\ UNCHANGED mu
    /\ UNCHANGED <<issued, sessions, closed, worked, told, tokens, page, stuck>>

\* Mutant: one channel for the pages of all challenges.
HandAnybody(s, p) ==
    /\ stage[s] = "sending"
    /\ page[p] = "waiting"
    /\ told' = [told EXCEPT ![s] = p]
    /\ stage' = [stage EXCEPT ![s] = "close"]
    /\ page' = [page EXCEPT ![p] = IF worked[s] THEN "success" ELSE "failed"]
    /\ UNCHANGED <<issued, sessions, closed, mu, worked, tokens, stuck>>

\* ch <- evt meets update := <-evtCh.
Hand(s, p) ==
    /\ stage[s] = "sending"
    /\ page[p] = "waiting"
    /\ ChallengeOf[p] = ChallengeOf[s]
    /\ told' = [told EXCEPT ![s] = p]
    /\ stage' = [stage EXCEPT ![s] = "close"]
    /\ page' = [page EXCEPT ![p] = IF worked[s] THEN "success" ELSE "failed"]
    /\ UNCHANGED <<issued, sessions, closed, mu, worked, tokens, stuck>>

\* Mutant: no timer.
NeverTimeOut(s) == FALSE

\* Two minutes without a page that listens.
SendTimeout(s) ==
    /\ stage[s] = "sending"
    /\ stage' = [stage EXCEPT ![s] = "close"]
    /\ UNCHANGED <<issued, sessions, closed, mu, worked, told, tokens, page, stuck>>

\* Mutant: the entry stays in the map.
CloseOnly(s) ==
    /\ stage[s] = "close"
    /\ closed' = closed \union {ChallengeOf[s]}
    /\ mu' = Free
    /\ stage' = [stage EXCEPT ![s] = AfterSignal(s)]
    /\ UNCHANGED <<issued, sessions, worked, told, tokens, page, stuck>>

\* Mutant: the entry is deleted, the channel left open.
DeleteOnly(s) ==
    /\ stage[s] = "close"
    /\ sessions' = sessions \ {ChallengeOf[s]}
    /\ mu' = Free
    /\ stage' = [stage EXCEPT ![s] = AfterSignal(s)]
    /\ UNCHANGED <<issued, closed, worked, told, tokens, page, stuck>>

\* Mutant: the error of the timeout is not returned.
TimeoutIgnored(s) ==
    /\ stage[s] = "close"
    /\ closed' = closed \union {ChallengeOf[s]}
    /\ sessions' = sessions \ {ChallengeOf[s]}
    /\ mu' = Free
    /\ stage' = [stage EXCEPT ![s] = "done"]
    /\ UNCHANGED <<issued, worked, told, tokens, page, stuck>>

\* "session is finalized either way", and the mutex given back.
Finalize(s) ==
    /\ stage[s] = "close"
    /\ closed' = closed \union {ChallengeOf[s]}
    /\ sessions' = sessions \ {ChallengeOf[s]}
    /\ mu' = Free
    /\ stage' = [stage EXCEPT ![s] = AfterSignal(s)]
    /\ UNCHANGED <<issued, worked, told, tokens, page, stuck>>

\* RemoveToken; SendSolution does not look at its error.
RemoveToken(s) ==
    /\ stage[s] = "undo"
    /\ \/ tokens' = tokens \ {s} /\ UNCHANGED stuck
       \/ stuck' = stuck \union {s} /\ UNCHANGED tokens
    /\ stage' = [stage EXCEPT ![s] = "done"]
    /\ UNCHANGED <<issued, sessions, closed, mu, worked, told, page>>

\* InvalidateAllSolutions, when there is something to wipe.
InvalidateAllSolutions(m) ==
    /\ \E s \in tokens : MemberOf[s] = m
    /\ tokens' = {s \in tokens : MemberOf[s] # m}
    /\ UNCHANGED <<issued, sessions, closed, mu, stage, worked, told, page, stuck>>

-----------------------------------------------------------------------------
(* The browser.                                                            *)

GetEventChannel(p) == ChallengeOf[p] \in sessions

\* The bridge knows the session, or the request fails.
eventSource(p) ==
    /\ page[p] = "new"
    /\ MuFree
    /\ page' = [page EXCEPT
                   ![p] = IF GetEventChannel(p) THEN "waiting" ELSE "over"]
    /\ UNCHANGED <<issued, sessions, closed, mu, stage, worked, told, tokens, stuck>>

\* A closed channel yields the zero event, which reads as a failure.
ReadClosed(p) ==
    /\ page[p] = "waiting"
    /\ ChallengeOf[p] \in closed
    /\ page' = [page EXCEPT ![p] = "failed"]
    /\ UNCHANGED <<issued, sessions, closed, mu, stage, worked, told, tokens, stuck>>

\* The browser closes the stream.
CloseRequest(p) ==
    /\ page[p] = "waiting"
    /\ page' = [page EXCEPT ![p] = "over"]
    /\ UNCHANGED <<issued, sessions, closed, mu, stage, worked, told, tokens, stuck>>

\* The token page p was told.
TokenOf(p) == CHOOSE s \in Call : told[s] = p

\* CheckToken and saveCookie.
finalizeCookie(p) ==
    /\ page[p] = "success"
    /\ page' = [page EXCEPT ![p] = IF TokenOf(p) \in tokens THEN "in" ELSE "over"]
    /\ UNCHANGED <<issued, sessions, closed, mu, stage, worked, told, tokens, stuck>>

Logout(p) ==
    /\ page[p] = "in"
    /\ tokens' = tokens \ {TokenOf(p)}
    /\ page' = [page EXCEPT ![p] = "over"]
    /\ UNCHANGED <<issued, sessions, closed, mu, stage, worked, told, stuck>>

-----------------------------------------------------------------------------
\* What a call does once its solution is there.
CallStep(s) ==
    \/ sendAndClose(s)
    \/ \E p \in Page : Hand(s, p)
    \/ SendTimeout(s)
    \/ Finalize(s)
    \/ RemoveToken(s)

\* No call is under way, no page waits, no session is left.
Over ==
    /\ \A s \in Call : stage[s] = "done"
    /\ \A p \in Page : page[p] \in {"failed", "over"}
    /\ issued = Challenge /\ sessions = {} /\ tokens = {}
    /\ UNCHANGED vars

Next ==
    \/ \E c \in Challenge : serverInitiated(c) \/ ExpireSession(c)
    \/ \E s \in Call : RefuseCall(s) \/ BadSolution(s) \/ GoodSolution(s) \/ CallStep(s)
    \/ \E m \in Member : InvalidateAllSolutions(m)
    \/ \E p \in Page : \/ eventSource(p) \/ ReadClosed(p) \/ CloseRequest(p)
                       \/ finalizeCookie(p) \/ Logout(p)
    \/ Over

Spec == Init /\ [][Next]_vars

(***************************************************************************)
(* Goroutines run on and timers fire; a Go mutex hands itself to a waiter  *)
(* it has starved, hence SF for the steps that take it.  Nobody has to     *)
(* open, close or leave a page, and nobody has to solve a challenge.       *)
(***************************************************************************)
Fairness ==
    /\ \A s \in Call : SF_vars(CallStep(s))
    /\ \A c \in Challenge : SF_vars(ExpireSession(c))
    /\ \A p \in Page : WF_vars(ReadClosed(p))

FairSpec == Spec /\ Fairness

-----------------------------------------------------------------------------
(* Properties.                                                             *)

\* The types, and the mutex is held by a call that is signalling, only.
TypeOK ==
    /\ issued \in SUBSET Challenge
    /\ sessions \in SUBSET issued
    /\ closed \in SUBSET Challenge
    /\ mu \in Call \union {Free}
    /\ stage \in [Call -> {"new", "signal", "sending", "close", "undo", "done"}]
    /\ worked \in [Call -> BOOLEAN]
    /\ told \in [Call -> Page \union {NoPage}]
    /\ tokens \in SUBSET Call
    /\ page \in [Page -> {"new", "waiting", "success", "failed", "in", "over"}]
    /\ stuck \in SUBSET Call
    /\ mu # Free => stage[mu] \in {"sending", "close"}

(***************************************************************************)
(* A send on a closed channel panics, and so does a second close.  A call  *)
(* that is sending or about to close works on a channel nobody closed and  *)
(* whose session is still in the map, ten minutes or not.                  *)
(***************************************************************************)
SendsOnOpenChannel ==
    \A s \in Call : stage[s] \in {"sending", "close"} =>
        ChallengeOf[s] \in sessions \ closed

(***************************************************************************)
(* A challenge signs one page in.  Of all the calls that solve it, with    *)
(* whichever members behind them, one hands over its event, to one page.   *)
(***************************************************************************)
AnsweredOnce ==
    \A s, u \in Call :
        /\ told[s] # NoPage /\ told[u] # NoPage
        /\ ChallengeOf[s] = ChallengeOf[u] \/ told[s] = told[u]
        => s = u

\* The call whose event a page took for challenge c, if there is one.
Answering(c) == {s \in Call : told[s] # NoPage /\ ChallengeOf[s] = c}

Unheard == [page |-> NoPage, good |-> FALSE]

AnswerTo(c) ==
    IF Answering(c) = {} THEN Unheard
    ELSE LET s == CHOOSE s \in Answering(c) : TRUE
         IN  [page |-> told[s], member |-> MemberOf[s], good |-> s \in tokens]

VisitOf(p) == IF page[p] \in {"in", "over"} THEN page[p] ELSE "out"

\* The abstract sign-in, without a bridge, channels and a mutex.
OneTime == INSTANCE OneSignIn WITH
    Unanswered <- Unheard,
    answer <- [c \in Challenge |-> AnswerTo(c)],
    visit <- [p \in Page |-> VisitOf(p)]

(***************************************************************************)
(* However pages, calls, timeouts and invalidations are mixed, a page gets *)
(* in by the one answer to its own challenge, as the member who gave it,   *)
(* and by none whose token was wiped or signed out before.                 *)
(***************************************************************************)
SignsInOnce == OneTime!SignInSpec

(***************************************************************************)
(* A token is in the table only while its call is still busy, or if a page *)
(* took it, or if removing it failed: a token nobody was told of is not    *)
(* left there when its call returns.                                       *)
(***************************************************************************)
TokensAccounted ==
    \A s \in tokens : \/ stage[s] \notin {"new", "done"}
                      \/ told[s] # NoPage
                      \/ s \in stuck

(***************************************************************************)
(* sendSolution returns: neither a missing page nor another call on the    *)
(* same bridge keeps it forever.                                           *)
(***************************************************************************)
SolutionsAnswered == \A s \in Call : stage[s] = "signal" ~> stage[s] = "done"

(***************************************************************************)
(* When a solution arrives while several pages wait for the challenge, one *)
(* gets the outcome, and none of the others is left waiting.               *)
(***************************************************************************)
ListenersReleased ==
    \A s \in Call, p \in Page :
        stage[s] = "sending" /\ page[p] = "waiting" /\ ChallengeOf[p] = ChallengeOf[s]
        ~> page[p] # "waiting"

=============================================================================
