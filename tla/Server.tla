------------------------------- MODULE Server -------------------------------
(***************************************************************************)
(* The life of the server process (cmd/server, roomsrv): what it reads     *)
(* from and creates in its repository, how it begins to serve, and how it  *)
(* stops.  A process may be started on a repository that another one uses, *)
(* and it may be killed at any moment, files half written.                 *)
(***************************************************************************)
EXTENDS Naturals, Sequences, FiniteSets

CONSTANTS
    Processes,    \* slots for processes on one repository and one HTTP address
    Starts,       \* how often a process is started (bound)
    Rotations,    \* how often the operator adds a pair of cookie keys (bound)
    Signals,      \* how many signals are sent (bound)
    Guests,       \* kinds of sessions at once (bound)
    Sockets       \* what -nounixsock may be: whether the unix socket is wanted

VARIABLES
    disk,         \* the files of the repository
    made,         \* the last key that was generated
    pc,           \* process -> how far runroomsrv got
    mem,          \* process -> what it read and was told to do
    socket,       \* the process the path of the unix socket leads to, or 0
    http,         \* the process that has the HTTP address, or 0
    stop,         \* process -> the goroutine that waits for a signal
    close,        \* process -> Server.Close
    sess,         \* process -> kinds of sessions it has
    starts,       \* processes started (bound)
    rotations,    \* pairs of keys added (bound)
    signals,      \* signals sent (bound)
    served,       \* identities that were served (history)
    raced         \* two processes were about to create the identity (history)

vars == <<disk, made, pc, mem, socket, http, stop, close, sess, starts, rotations,
          signals, served, raced>>

ASSUME ServerAssumption ==
    /\ Processes \subseteq Nat \ {0} /\ Starts \in Nat /\ Rotations \in Nat /\ Guests \in Nat
    /\ Signals \in Nat
    /\ Sockets \subseteq BOOLEAN

(* What a file can hold: keys are 2, 3 and so on.  Torn stands for what    *)
(* cannot be parsed, created but not written.  The cookie file is a        *)
(* sequence of pairs of keys; after its creation it is empty, which is     *)
(* something else than a piece of a pair.                                  *)
NoFile == 0
Torn == 1
Whole == 2

Kinds == {"tcp", "unix", "websocket"}
Callers == {"serve", "signal"}

Stages == {"off", "load key", "stat", "create key", "write key", "open", "new", "dial",
           "bind", "listen", "languages", "create cookies", "write cookies", "cookies", "csrf",
           "create csrf", "write csrf", "ready", "serving", "returning", "closing"}

(* id: the identity.  codecs: the pairs of keys for cookies, the first one *)
(* for writing.  sock: unless -nounixsock was given.                       *)
Memory == [id: Nat, codecs: Seq(Nat), sock: BOOLEAN]
Blank == [id |-> 0, codecs |-> <<>>, sock |-> FALSE]

(* by: who holds the mutex, and how far it got; at "locked" it holds       *)
(* listenerLock as well.  network: Network.Close was done.  lis: the       *)
(* listener of the network is open.  unix: that of the socket is.          *)
Closing == [by: Callers \cup {"nobody"}, at: {"network", "locked", "closers"}, closed: BOOLEAN,
            err: BOOLEAN, answers: [Callers -> {"none", "nil", "error"}],
            network: BOOLEAN, lis: BOOLEAN, unix: BOOLEAN]
NotClosing == [by |-> "nobody", at |-> "network", closed |-> FALSE, err |-> FALSE,
               answers |-> [c \in Callers |-> "none"],
               network |-> FALSE, lis |-> FALSE, unix |-> FALSE]

TypeOK ==
    /\ disk \in [secret: Nat, cookies: Seq(Nat), csrf: {NoFile, Torn, Whole}]
    /\ made \in Nat /\ made >= Torn
    /\ pc \in [Processes -> Stages]
    /\ mem \in [Processes -> Memory]
    /\ socket \in Processes \cup {0} /\ http \in Processes \cup {0}
    /\ \A p \in Processes : pc[p] = "off" => socket # p /\ http # p
    /\ stop \in [Processes -> {"none", "waits", "cancelled", "closes"}]
    /\ close \in [Processes -> Closing]
    /\ sess \in [Processes -> SUBSET Kinds]
    /\ starts \in Nat /\ rotations \in Nat /\ signals \in Nat
    /\ served \subseteq Nat /\ raced \in BOOLEAN

Init ==
    /\ disk = [secret |-> NoFile, cookies |-> <<NoFile>>, csrf |-> NoFile]
    /\ made = Torn
    /\ pc = [p \in Processes |-> "off"]
    /\ mem = [p \in Processes |-> Blank]
    /\ socket = 0 /\ http = 0
    /\ stop = [p \in Processes |-> "none"]
    /\ close = [p \in Processes |-> NotClosing]
    /\ sess = [p \in Processes |-> {}]
    /\ starts = 0 /\ rotations = 0 /\ signals = 0
    /\ served = {} /\ raced = FALSE

-----------------------------------------------------------------------------
At(p, stage) == pc[p] = stage
Goto(p, stage) == pc' = [pc EXCEPT ![p] = stage]
Freed(address, p) == IF address = p THEN 0 ELSE address

(* The process is gone, and with it all that is not on disk.  The path of  *)
(* its socket stays, but nobody answers there.                             *)
Exit(p) ==
    /\ Goto(p, "off")
    /\ mem' = [mem EXCEPT ![p] = Blank]
    /\ socket' = Freed(socket, p)
    /\ http' = Freed(http, p)
    /\ stop' = [stop EXCEPT ![p] = "none"]
    /\ close' = [close EXCEPT ![p] = NotClosing]
    /\ sess' = [sess EXCEPT ![p] = {}]

Running == <<socket, http, stop, close, sess>>
Kept == <<starts, rotations, signals, served>>

(* One stage of the start, or the start fails. *)
Pass(p, stage, next) == At(p, stage) /\ Goto(p, next) /\ UNCHANGED <<mem, Running>>
Refuse(p, stage) == At(p, stage) /\ Exit(p)

(* Flags and addresses are fine; with others the process ends at once. *)
Start(p) ==
    /\ starts < Starts
    /\ At(p, "off")
    /\ \E sock \in Sockets : mem' = [mem EXCEPT ![p].sock = sock]
    /\ Goto(p, "load key")
    /\ starts' = starts + 1
    /\ UNCHANGED <<disk, made, Running, rotations, signals, served, raced>>

-----------------------------------------------------------------------------
(* The identity.  Only a file that is not there makes the process create   *)
(* one; with any other error it goes on without a key pair and panics.     *)

LoadKeyPair(p) ==
    /\ \/ disk.secret = NoFile /\ Pass(p, "load key", "stat")
       \/ /\ disk.secret > Torn /\ At(p, "load key")
          /\ mem' = [mem EXCEPT ![p].id = disk.secret]
          /\ Goto(p, "open")
          /\ UNCHANGED Running
       \/ disk.secret = Torn /\ Refuse(p, "load key")
    /\ UNCHANGED <<disk, made, Kept, raced>>

(* Mutant: the file is not looked for a second time. *)
SaveBlindly(p) ==
    /\ Pass(p, "stat", "create key")
    /\ raced' = (raced \/ \E q \in Processes \ {p} : At(q, "create key"))
    /\ UNCHANGED <<disk, made, Kept>>

SaveKeyPair(p) ==
    /\ \/ disk.secret = NoFile /\ Pass(p, "stat", "create key")
       \/ disk.secret # NoFile /\ Refuse(p, "stat")
    /\ raced' = (raced \/ (disk.secret = NoFile
                             /\ \E q \in Processes \ {p} : At(q, "create key")))
    /\ UNCHANGED <<disk, made, Kept>>

CreateKeyFile(p) ==
    /\ Pass(p, "create key", "write key")
    /\ disk' = [disk EXCEPT !.secret = Torn]
    /\ UNCHANGED <<made, Kept, raced>>

NewKeyPair == made + 1

EncodeKeyPair(p) ==
    /\ \/ /\ At(p, "write key") /\ Goto(p, "open")
          /\ made' = NewKeyPair
          /\ disk' = [disk EXCEPT !.secret = made']
          /\ mem' = [mem EXCEPT ![p].id = made']
          /\ UNCHANGED Running
       \/ Refuse(p, "write key") /\ UNCHANGED <<disk, made>>
    /\ UNCHANGED <<Kept, raced>>

DefaultKeyPair(p) == LoadKeyPair(p) \/ SaveKeyPair(p) \/ CreateKeyFile(p) \/ EncodeKeyPair(p)

-----------------------------------------------------------------------------
(* The database, the server, the unix socket and the HTTP address. *)

OpenDatabase(p) ==
    /\ Pass(p, "open", "new") \/ Refuse(p, "open")
    /\ UNCHANGED <<disk, made, Kept, raced>>

(* The options, the handlers and the node; nothing is listened on yet. *)
New(p) ==
    /\ Pass(p, "new", IF mem[p].sock THEN "dial" ELSE "listen") \/ Refuse(p, "new")
    /\ UNCHANGED <<disk, made, Kept, raced>>

(* initUnixSock: a repository whose socket answers is in use.  Otherwise   *)
(* what is at the path is removed.                                         *)
DialSocket(p) ==
    /\ IF socket = 0 THEN Pass(p, "dial", "bind") ELSE Refuse(p, "dial")
    /\ UNCHANGED <<disk, made, Kept, raced>>

BindSocket(p) ==
    /\ \/ /\ At(p, "bind") /\ Goto(p, "listen")
          /\ socket' = p
          /\ close' = [close EXCEPT ![p].unix = TRUE]
          /\ UNCHANGED <<mem, http, stop, sess>>
       \/ Refuse(p, "bind")
    /\ UNCHANGED <<disk, made, Kept, raced>>

ListenHTTP(p) ==
    /\ \/ /\ http = 0
          /\ At(p, "listen") /\ Goto(p, "languages")
          /\ http' = p
          /\ stop' = [stop EXCEPT ![p] = "waits"]
          /\ UNCHANGED <<mem, socket, close, sess>>
       \/ http # 0 /\ Refuse(p, "listen")
    /\ UNCHANGED <<disk, made, Kept, raced>>

-----------------------------------------------------------------------------
(* handlers.New: the keys for cookies, which the languages need first and  *)
(* the sign-in needs again, and the one against forged requests.           *)

(* The loop over the file: the chunk of the first round is taken before    *)
(* anything is cut off, and so is the one of the second.                   *)
Chunks(secrets) == [i \in 1..Len(secrets) |-> secrets[IF i = 1 THEN 1 ELSE i - 1]]

LoadCookieSecrets(p, stage, next) ==
    /\ \/ disk.cookies = <<NoFile>> /\ Pass(p, stage, "create cookies")
       \/ disk.cookies = <<Torn>> /\ Refuse(p, stage)
       \/ /\ disk.cookies \notin {<<NoFile>>, <<Torn>>}
          /\ At(p, stage) /\ Goto(p, next)
          /\ mem' = [mem EXCEPT ![p].codecs = Chunks(disk.cookies)]
          /\ UNCHANGED Running
    /\ UNCHANGED <<disk, made, Kept, raced>>

CreateCookieFile(p) ==
    /\ Pass(p, "create cookies", "write cookies")
    /\ disk' = [disk EXCEPT !.cookies = <<>>]
    /\ UNCHANGED <<made, Kept, raced>>

(* The file was not there, so this is the first time it is loaded. *)
WriteCookieFile(p) ==
    /\ \/ /\ Pass(p, "write cookies", "cookies")
          /\ made' = made + 1
          /\ disk' = [disk EXCEPT !.cookies = <<made'>>]
       \/ /\ Refuse(p, "write cookies")
          /\ disk' = [disk EXCEPT !.cookies = <<Torn>>]
          /\ UNCHANGED made
    /\ UNCHANGED <<Kept, raced>>

LoadCSRFSecret(p) ==
    /\ \/ disk.csrf = NoFile /\ Pass(p, "csrf", "create csrf")
       \/ disk.csrf = Torn /\ Refuse(p, "csrf")
       \/ disk.csrf = Whole /\ Pass(p, "csrf", "ready")
    /\ UNCHANGED <<disk, made, Kept, raced>>

WriteCSRFFile(p) ==
    /\ \/ Pass(p, "create csrf", "write csrf") /\ disk' = [disk EXCEPT !.csrf = Torn]
       \/ Pass(p, "write csrf", "ready") /\ disk' = [disk EXCEPT !.csrf = Whole]
       \/ Refuse(p, "write csrf") /\ UNCHANGED disk
    /\ UNCHANGED <<made, Kept, raced>>

(* The languages, the cookies of the sign-in, the rest of the pages. *)
NewLanguages(p) == LoadCookieSecrets(p, "languages", "cookies")
NewHandlers(p) ==
    \/ NewLanguages(p) \/ CreateCookieFile(p) \/ WriteCookieFile(p)
    \/ LoadCookieSecrets(p, "cookies", "csrf") \/ LoadCSRFSecret(p) \/ WriteCSRFFile(p)

(* Whether Network.Close holds the lock of the listener: it keeps it until *)
(* the listener and the endpoints are closed.                              *)
ListenerLocked(p) == close[p].by \in Callers /\ close[p].at = "locked"

(* The goroutine that serves HTTP, and the loop around Network.Serve, which *)
(* listens, also when the process was told to end meanwhile.               *)
Serve(p) ==
    /\ At(p, "ready") /\ ~ListenerLocked(p) /\ Goto(p, "serving")
    /\ close' = [close EXCEPT ![p].lis = TRUE]
    /\ served' = served \cup {mem[p].id}
    /\ UNCHANGED <<disk, made, mem, socket, http, stop, sess, starts, rotations, signals, raced>>

-----------------------------------------------------------------------------
(* Sessions.  None is asked of the closed server: mkHandler takes the      *)
(* mutex and does not look.  A websocket may come over an HTTP connection  *)
(* that was there before the listener was closed.                          *)

Unchanged == UNCHANGED <<disk, made, Kept, raced>>

Opened(p, kind) ==
    /\ Cardinality({g \in Processes \X Kinds : g[2] \in sess[g[1]]}) < Guests
    /\ sess' = [sess EXCEPT ![p] = @ \cup {kind}]
    /\ UNCHANGED <<pc, mem, socket, http, stop, close>> /\ Unchanged

MutexFree(p) == close[p].by = "nobody"

AcceptTCP(p) ==
    At(p, "serving") /\ close[p].lis /\ MutexFree(p) /\ Opened(p, "tcp")

(* The master handler, and no look at who it is, so no mutex either. *)
AcceptUnix(p) == close[p].unix /\ Opened(p, "unix")

UpgradeWebsocket(p) ==
    /\ pc[p] \in {"serving", "returning", "closing"}
    /\ MutexFree(p) /\ Opened(p, "websocket")

(* The peer leaves, or the context of the session is cancelled. *)
EndSession(p) ==
    /\ \E kind \in sess[p] : sess' = [sess EXCEPT ![p] = @ \ {kind}]
    /\ UNCHANGED <<pc, mem, socket, http, stop, close>> /\ Unchanged

-----------------------------------------------------------------------------
(* The end.  The goroutine cancels the contexts of Serve and of the server *)
(* and closes the HTTP listener without a pause, then waits two seconds.   *)

Signal(p) ==
    /\ signals < Signals
    /\ signals' = signals + 1
    /\ stop[p] = "waits"
    /\ stop' = [stop EXCEPT ![p] = "cancelled"]
    /\ http' = Freed(http, p)
    /\ UNCHANGED <<disk, made, pc, mem, socket, close, sess, starts, rotations, served, raced>>

Slept(p) ==
    /\ stop[p] = "cancelled"
    /\ stop' = [stop EXCEPT ![p] = "closes"]
    /\ UNCHANGED <<pc, mem, socket, http, close, sess>> /\ Unchanged

(* The context is done.  Serve leaves its loop and is about to close the   *)
(* listener, inside the Once if nobody was there before.  One that cannot  *)
(* listen returns at once, and is called again unless the context is done. *)
LeaveServe(p) ==
    /\ stop[p] \in {"cancelled", "closes"}
    /\ \/ Pass(p, "serving", "returning")
       \/ ~ListenerLocked(p) /\ Pass(p, "ready", "closing")
    /\ Unchanged

(* That takes the lock; then Serve returns, and the loop ends. *)
ServeReturns(p) ==
    /\ At(p, "returning") /\ ~ListenerLocked(p) /\ Goto(p, "closing")
    /\ close' = [close EXCEPT ![p].lis = FALSE]
    /\ UNCHANGED <<mem, socket, http, stop, sess>> /\ Unchanged

Wants(p, c) ==
    /\ close[p].answers[c] = "none"
    /\ IF c = "serve" THEN At(p, "closing") ELSE stop[p] = "closes"

Answer(c, err) == IF err THEN [c EXCEPT !.err = TRUE, !.by = "nobody", !.answers[c.by] = "error"]
                         ELSE [c EXCEPT !.by = "nobody", !.answers[c.by] = "nil"]

(* Mutant: closed is read without the mutex. *)
EnterUnlocked(p, c) ==
    /\ Wants(p, c)
    /\ IF close[p].closed
       THEN close' = [close EXCEPT ![p].answers[c] = IF close[p].err THEN "error" ELSE "nil"]
       ELSE close' = [close EXCEPT ![p].by = c, ![p].at = "network", ![p].closed = TRUE]
    /\ UNCHANGED <<pc, mem, socket, http, stop, sess>> /\ Unchanged

EnterClose(p, c) ==
    /\ Wants(p, c)
    /\ close[p].by = "nobody"
    /\ IF close[p].closed
       THEN close' = [close EXCEPT ![p].answers[c] = IF close[p].err THEN "error" ELSE "nil"]
       ELSE close' = [close EXCEPT ![p].by = c, ![p].at = "network", ![p].closed = TRUE]
    /\ UNCHANGED <<pc, mem, socket, http, stop, sess>> /\ Unchanged

LockListener(p) ==
    /\ close[p].by \in Callers /\ close[p].at = "network"
    /\ close' = [close EXCEPT ![p].at = "locked"]
    /\ UNCHANGED <<pc, mem, socket, http, stop, sess>> /\ Unchanged

(* Mutant: the sessions are waited for. *)
CloseDrains(p) ==
    /\ ListenerLocked(p) /\ ~At(p, "returning") /\ sess[p] = {}
    /\ close' = [close EXCEPT ![p].at = "closers", ![p].network = TRUE, ![p].lis = FALSE]
    /\ UNCHANGED <<pc, mem, socket, http, stop, sess>> /\ Unchanged

(* Network.Close enters the Once, if Serve is not inside, and ends what    *)
(* the tracker knows.  After an error nothing else is closed.              *)
CloseNetwork(p) ==
    /\ ListenerLocked(p) /\ ~At(p, "returning")
    /\ \/ /\ close' = [close EXCEPT ![p].at = "closers", ![p].network = TRUE, ![p].lis = FALSE]
          /\ sess' = [sess EXCEPT ![p] = @ \ {"tcp"}]
       \/ /\ close' = [close EXCEPT ![p] = [Answer(@, TRUE) EXCEPT !.lis = FALSE]]
          /\ UNCHANGED sess
    /\ UNCHANGED <<pc, mem, socket, http, stop>> /\ Unchanged

(* The closers are one: the listener of the socket, which takes the path   *)
(* with it, whoever bound it last.                                         *)
CloseClosers(p) ==
    /\ close[p].by \in Callers /\ close[p].at = "closers"
    /\ \E err \in BOOLEAN :
          close' = [close EXCEPT ![p] = [Answer(@, err) EXCEPT !.unix = FALSE]]
    /\ socket' = IF close[p].unix THEN 0 ELSE socket
    /\ UNCHANGED <<pc, mem, http, stop, sess>> /\ Unchanged

(* runroomsrv returns, or two seconds after its Close the goroutine exits. *)
Leave(p) ==
    /\ \/ At(p, "closing") /\ close[p].answers["serve"] # "none"
       \/ close[p].answers["signal"] # "none"
    /\ Exit(p) /\ Unchanged

(* Killed, before it listened for signals or by a stronger one. *)
Crash(p) == ~At(p, "off") /\ Exit(p) /\ Unchanged

(* The operator puts a new pair of keys before the others. *)
Rotate ==
    /\ rotations < Rotations
    /\ \A p \in Processes : At(p, "off")
    /\ disk.cookies \notin {<<NoFile>>, <<Torn>>, <<>>}
    /\ made' = made + 1
    /\ disk' = [disk EXCEPT !.cookies = <<made'>> \o @]
    /\ rotations' = rotations + 1
    /\ UNCHANGED <<pc, mem, Running, starts, signals, served, raced>>

Boots(p) ==
    \/ DefaultKeyPair(p) \/ OpenDatabase(p) \/ New(p) \/ DialSocket(p) \/ BindSocket(p)
    \/ ListenHTTP(p) \/ NewHandlers(p) \/ Serve(p)

Stops(p) ==
    \/ Slept(p) \/ LeaveServe(p) \/ ServeReturns(p)
    \/ \E c \in Callers : EnterClose(p, c)
    \/ LockListener(p) \/ CloseNetwork(p) \/ CloseClosers(p) \/ Leave(p)

Sessions(p) == AcceptTCP(p) \/ AcceptUnix(p) \/ UpgradeWebsocket(p) \/ EndSession(p)

Next ==
    \/ \E p \in Processes : Start(p) \/ Boots(p) \/ Sessions(p) \/ Signal(p) \/ Stops(p) \/ Crash(p)
    \/ Rotate

(* Goroutines run on, and timers fire.  Nobody has to send a signal, and   *)
(* no session has to end.                                                  *)
Spec == Init /\ [][Next]_vars /\ \A p \in Processes : WF_vars(Boots(p)) /\ WF_vars(Stops(p))

-----------------------------------------------------------------------------
(* The room has one identity for good: neither a crash while the file is   *)
(* written nor a second process on the repository makes it another one,    *)
(* unless two first starts looked for the file at the same time            *)
(* (DefaultKeyPair, SaveKeyPair).                                          *)
IdentityKept == ~raced => \A a, b \in served : a = b

(* Whoever is told by Close that all went well finds all closed, also the  *)
(* second caller that came while the first was at work (Server.Close).     *)
CloseComplete ==
    \A p \in Processes, c \in Callers :
        close[p].answers[c] = "nil" => close[p].network /\ ~close[p].unix

(* Serve is inside the Once and waits for the lock, Close has the lock and *)
(* waits for the Once: neither goroutine gets to the end of the process.   *)
LockedOut(p) == At(p, "returning") /\ ListenerLocked(p)

(* A signal ends the process, whoever is still connected and however far   *)
(* its start is, but for one case: Serve was called so late that it is     *)
(* returning when Close has begun, and they wait for each other            *)
(* (runroomsrv, node.Serve, node.Close).                                   *)
ProcessEnds == \A p \in Processes : stop[p] = "cancelled" ~> At(p, "off") \/ LockedOut(p)

(* The cookie secrets should "enable key rotation as supported by gorilla":*)
(* what the file holds is used, every pair of it (utils.go).               *)
KeysInUse ==
    \A p \in Processes :
        At(p, "serving") => \A i \in 1..Len(disk.cookies) :
                               \E j \in 1..Len(mem[p].codecs) : mem[p].codecs[j] = disk.cookies[i]
=============================================================================
