# A verification project for go-ssb-room

TLA+ models of go-ssb-room: the goroutines of the room, the connections and the sign-in,
the database and the requests that use it, tunnels, and the start and stop of the server;
the TLC configurations that check them on small instances, and TLAPS proofs of what
matters most for every instance. Line numbers refer to the repository's source.

Run, in this directory:

    tlc -workers 2 -config RoomState_reconnect.cfg MCRoomState.tla
    tlapm RoomStateProofs.tla

`PROJECT.json` lists the components, the runs with their properties, the mutants
that show each property can fail, the source lines each definition models, the
disagreements between code and documentation, the hazards and the theorems.

## Inventory of the system

go-ssb-room is a server for Secure Scuttlebutt peers that cannot reach each other
directly. Peers connect with an authenticated stream, speak muxrpc over it, announce
themselves in the room, learn who else is there and open tunnels to each other. A web
dashboard manages members, invites, aliases and denied keys in an SQLite database.

| component | state | operations | talks to | module |
|---|---|---|---|---|
| room state (`roomstate`, `internal/broadcasts`, `muxrpc/handlers/tunnel/server`) | `Manager.room`, the sinks of two broadcasters, three mutexes | announce, leave, endpoints, attendants, removal at session end | every muxrpc session; tunnels and the dashboard read it | `RoomState` |
| connection tracking (`internal/network`) | `connTracker.active` with one `done` channel per entry, `node.remotes` | `OnAccept`, `OnClose`, `addRemote`, `removeRemote`, `Close` | listener, sessions, sign-in | `Connections` |
| listener (`internal/network/new.go`, `cmd/server`) | `n.lis`, `listenerLock`, `lisClose`, the channel `newConn` | `Serve`, `Close` | connection tracking | `Listener` |
| sign-in with SSB (`internal/signinwithssb`, `muxrpc/handlers/signinwithssb`, `web/handlers/auth`) | bridge sessions, one channel each, one mutex; the token table; cookies | `RegisterSession`, `sendSolution`, server-sent events, `finalizeCookie`, `Logout`, `invalidateAllSolutions`, `clientInitiated` | browser, muxrpc, token table | `SignIn`, `Requests` |
| tunnels (`connect.go`) | two copying goroutines per tunnel | `HandleDuplex` | room state | `Tunnel` |
| tables (`roomdb/sqlite`) | members, invites, aliases, tokens, passwords and reset tokens, denied keys, configuration, notices | the methods of the services, each a transaction or some queries; the ticker | all handlers | `Tables`, `RoomDB` |
| admission (`roomsrv/init_network.go`) | none of its own | `mkHandler` | tables | `Requests` |
| web handlers (`web/handlers`, `web/members`) | what a request remembers | invites, passwords, dashboard, settings, notices | tables | `Requests` |
| aliases (`muxrpc/handlers/alias`, `internal/aliases`) | none of its own | register, revoke, list, resolve | alias table | `Requests` |
| start and stop (`roomsrv`, `cmd/server`, `internal/repo`, `web/utils.go`) | files of the repository, the unix socket, the HTTP address, `closed` and the closers | `runroomsrv`, `New`, `Close`, signals | all | `Server` |
| the rest (templates, translations, paths) | none | rendering | – | – |

What is hard in it:

* **Goroutines without an order.** Every request has a goroutine, so has every
  `HandleConnect`, every connection, every server-sent event stream, every direction of a
  tunnel. The room is changed under one mutex and published after that mutex was given back.
* **Check, then act.** `trackerLastWins.OnAccept` looks up, unlocks, waits and enters;
  the accepting goroutine checks `n.lis` under the lock and uses it after; most handlers
  read rows, decide, and write later by another query.
* **State by feed, events by session.** The room, the tracker and `remotes` have one
  entry per feed, and sessions clean up by feed.
* **Blocking with a mutex held.** The broadcasters write to peers, and the bridge waits
  for a page, with their mutex.
* **Timeouts.** Ten seconds for an evicted connection, two minutes for an event, three
  for the pings, ten for a session of the bridge, a day for a token.
* **Two mutexes in two orders.** `lisClose` and `listenerLock`.
* **Crashes and a second process.** Files are created before they are written, the
  repository may be used twice, insert-user writes to the database of a running server.
* **Half of it done.** Any query may fail, and some handlers take a failure for an answer.

What makes each component correct:

* room: whoever listens is told of the changes in one order, and is right about the room
  once it is quiet; who is gone is not in the room, who is there and announced is.
* tracking: one session per feed, known to tracker and `remotes`; no channel closed twice.
* listener: `Serve` ends when cancelled or closed, no connection is lost, no panic. (The
  first does not always hold: see below.)
* sign-in: a challenge signs one page in, a token nobody got is removed, everybody is
  answered.
* tunnels: when one direction breaks, neither goroutine stays.
* tables: references are sound after every service, and each service takes effect in one
  step, with failures, crashes and other requests in between.
* requests: a cookie acts as whom it was handed out to; an invite or a reset link works
  once; a role change leaves an administrator; an alias and a password change by the hand
  of their owner; who gets in was allowed in at some time.
* start and stop: one identity for good; `Close` tells the truth; a signal ends the process
  (but for the case where `Serve` and `Close` wait for each other).

## Plan

Written, in this order: `RoomState` with its abstract `EventFeed`; `Connections` with
`SingleSession`; `SignIn` with `OneSignIn`; `Listener`; `Tables` and `RoomDB`; `Requests`,
which takes the services of `RoomDB` apart; `Server`; `Tunnel`; and proofs of each.

Left for later, in order of what they would add:

1. Composition of `Connections` and `RoomState`: the session of the one is the link of the
   other, so that evictions drive removals. Today `RoomState` lets sessions end at any time,
   which includes the evictions.
2. A websocket's packet buffer (`websocket.go`), written by one goroutine and read by another.

## The modules

Each component has a module, an `MC` module with the instances for TLC and, where there
are theorems, a `Proofs` module. Definitions that begin with the comment *Mutant* are
alternatives to the definition that follows; no specification uses them. They state a
plausible bug, and with the bug in place the property `PROJECT.json` pairs it with fails.
Variables marked *history* record something for a property; no guard reads them. Constants
and variables marked *bound* only keep instances finite.

### RoomState

`room` is `Manager.room`; `edpSinks`, `attSinks` and the two `Mu` variables belong to the
broadcasters; `edpTodo` and `attTodo` are the sinks the loop of the mutex's holder has
not reached. A thread is a goroutine: `stage`, `op` and `list` are its program counter,
its handler and its copy of the members. A step is a stretch of code between two points
at which another goroutine can get in, so

    AddEndpoint/Leave/HandleConnect   roomMu: change the entry, copy the members
    LockEndpoints .. UnlockEndpoints  EndpointsBroadcast.Update, one step per sink
    LockAttendants .. UnlockAttendants  AttendantsBroadcast.Joined/Left, the same

are separate steps, as they are in `AddEndpoint` and `Remove` (roomstate.go:88-111).
`endpoints` registers, looks at the room, perhaps joins it, and writes the list
(state.go:109-143); `attendants` joins, writes the list, registers (attendants.go:32-70).
What a client makes of its stream is folded into a set per stream: the last list, or
the initial list plus joined minus left. `link` is the session below; a write to a
session that is not live fails, and the sink is dropped. `Enumerators` stands for the
privacy mode and the member table: the peers these two handlers accept. `Refuse` may
refuse any peer, for the queries behind that may fail.

`EventFeed` is the promise of the attendants broadcaster: an event reaches all
subscribers in one step, and `last` is the last event there was about each peer. `RoomState`
implements it with a view (`ShownBy`) that counts the event under way as received.

### Connections

`active` and `done` are the tracker's map and the channels of its entries, `remotes` the
node's map of endpoints, `stage[c]` the program counter of `handleConnection` for
connection `c`, `open[c]` whether the connection is open. `LookUp`, `Evict`, `OldGone` or
`GiveUp`, and `Admit` are the stretches of `trackerLastWins.OnAccept`; `OnAccept` is the
one critical section of `connTracker`. `OnClose` and `removeRemote` go by feed, as in the
code. `node.Close` holds `remotesLock` from `CloseRemotes` to `CloseAll`.

`SingleSession` says what a tracker is for. The tracker that refuses implements it. The one
that evicts does with the sessions of the feeds none of whose connections overlapped inside
`OnAccept` (`OrderlySessions`).

### SignIn

`sessions` and `closed` are the map of the bridge and the state of its channels, `mu` its
mutex. Only `sendAndClose` holds it across steps: from the lookup until the event was
handed over or two minutes passed, and the session is finalised. `Hand` is the rendezvous
of `ch <- evt` and `<-evtCh`; `ReadClosed` is the zero event a closed channel yields. A
token is named by the call that created it; `tokens` is the table. Whether a caller is a
member, its solution valid and `CreateToken` successful are choices of `RefuseCall`,
`BadSolution` and `GoodSolution`. Time is not modelled: a timer may fire whenever it is set.

`OneSignIn` is what the flow promises: a challenge is answered once, for one page that was
opened with it; only that page gets in, as the member who answered, and not after the answer
was taken back. `SignIn` implements it: the answer of a challenge (`AnswerTo`) is what a page
heard, bound to the page when the event is handed over and not when the call begins, and it
is good as long as the token is in the table.

### Listener

`lis` is whether `n.lis` is set, `listening` whether the socket is open, `once` the state of
`lisClose`, `lock` that of `listenerLock`. `serve`, `accept` and `close` are the program
counters of `Serve`, of its goroutine and of `Close`. `Serve` is called again when it
returned and the context lives, as cmd/server/main.go:404-419 does. `ListenFails` is a call
that gets no listener and returns without the deferred function.

### Tables and RoomDB

`Tables` is the generated code of `roomdb/sqlite/models` under the schema of
`roomdb/sqlite/migrations`: a table is a set of rows, an operator takes the database and
yields rows or the next database. Ids count up and do not come back (AUTOINCREMENT),
deleting a member takes along what refers to it (ON DELETE CASCADE). Two things are named
rather than computed: a random token is the id of its row, because a collision is retried,
and a timestamp is one of three ages. `RoomDB` has a method of a service as a record of two
fields: `may`, whether the method can succeed on a database, and `then`, what it leaves. Its
specification `DBSpec` lets one method at a time take effect and says that the rows fit
together; it is what the requests rely on, and what `Requests` has to implement.

Worth knowing: `CheckToken` deletes an expired token in a transaction that it then rolls
back by returning an error, so it deletes nothing; `SetRole` counts the other
administrators, `RemoveID` does not; `RemoveID`, `Revoke` and the like look a row up and
delete it by id without a transaction.

### Requests

A request is a handler at some stage: `form[i]` is what it asks for and the cookies or the
key it comes with, `run[i]` how far it got and what it remembers. Between two queries
anything can happen. `Exec` is a single statement, `Begin` and `Commit` a transaction:
`Commit` needs that nobody wrote since `Begin`. SQLite sees to that: of two that read and then
write, one fails with SQLITE_BUSY, the one that commits later or the one that commits first,
depending on the journal; the model allows both, for any query may fail. `createOpenMode`
keeps in `of` the administrator its transaction has read. `Find` and `LoadMemberOf` are the
two queries of an eager load; if the row's member is gone at the second, the code uses a nil
pointer. Over HTTP the server recovers, over
muxrpc nothing does, and the process ends (`Up`). `Authenticate` is `ContextInjecter`: up to
three queries, of which any may fail, and then the visitor is anonymous. `CheckAllowed` reads
the mode when it is asked, the role is the one of the beginning. `insert-user` is a request
that is not the server's: it needs no `Up`, survives a `Crash`, and cleans up when it opens
the database. `Open` is the cleanup of the server's start, three statements; `Tick` the one
every five days, a transaction. `seen` is history: the databases there have been.

### Server

A process (`Processes` are slots on one repository and one HTTP address) goes through the
stages of `runroomsrv`. `disk` is what the repository holds: the identity, the pairs of keys
for cookies and the key against forged requests, each of them absent, half written or whole.
Keys are numbers counted by `made`. `socket` is the process that answers at the path of the
unix socket, `http` the one that has the address. `mem` is what a process read, `stop` its
goroutine that waits for a signal, `close[p]` `Server.Close`: who holds `closedMu`, how far
it got, `closed` and the remembered error, what each caller was told, whether the network
was closed, and whether the two listeners are open. Sessions of three kinds come and go: over TCP through mkHandler (which takes
`closedMu`), over the unix socket without, and over websockets, which neither the tracker
nor `remotes` knows. `Crash` ends a process at any stage, `Rotate` is the operator who puts
a pair of keys before the others.

Three facts of the code are easy to overlook and are in the model: an error of
`SetPrivacyMode` with `-mode` is ignored (main.go:248); an error of `DefaultKeyPair` is only
logged, and the nil pair panics next (`Refuse`); a cookie file that a crash left empty is
read as no keys at all. Two steps are taken as one: cancelling, `Shutdown` and
closing the HTTP listener follow each other without a wait, and `handlers.New` does nothing
between the files that another process could notice.

The end of `Serve` is taken apart as far as it can meet `Close`. A process at "serving" has
called `Network.Serve`; `LeaveServe` is the loop that sees the context, after which the
deferred function is inside `lisClose` ("returning"), and `ServeReturns` needs
`listenerLock`. `LockListener` is `Network.Close` taking that lock, `CloseNetwork` the rest of
it, which needs the Once. The signal handler is there before the handlers are made
(main.go:273-289), so `Serve` may be called with a context that is done and a `Close` under
way. `LockedOut` is the state in which each of the two has what the other waits for; it is
reached in `Server_lifecycle`, and `ProcessEnds` excepts it and nothing else.

### Tunnel

`call[c]` is the handler of one tunnel.connect, `copy[g]` its goroutine for one direction,
`source[g]` and `frames[g]` what that goroutine reads from. `Has` is the lookup in the
room, `Duplex` the call of the endpoint that was found, which may have left or been replaced
since. An announce or a leave may be served when its session is already over. `Break` is an error of `muxrpcDuplexCopy.do`: the sink is closed and the context of
both directions cancelled. A source that ends without an error does neither, so a tunnel
whose one side closed its stream stays half open until the other side ends it.

## The runs

The runs of `RoomState`, `Connections` and `SignIn` check for deadlock; where the modelled
system may come to rest, an action (`Over`, `Rest`) says in which states. The others do not
check for it: requests end, processes stay off, tunnels are over; and in `Listener` and
`Server`, `Serve` and `Close` can lock each other out (below). What must go on is a liveness property there.

| run | what it shows | instance |
|---|---|---|
| `RoomState_reconnect` | `ObserversFollowEvents`, `ObserversSeeRoom`, and the refinement of `EventFeed` | one peer with two sessions (announce on one, leave and attendants on the other), one listener, the removal of the first session |
| `RoomState_streams` | `TypeOK`, `EndpointsRecover`, and `HandlersReturn` under fairness | one peer that announces, leaves and is refused a stream, one with both kinds of streams |
| `RoomState_evicted` | violation: `AnnouncedStays` | one peer, two sessions |
| `Connections_lastwins` | `NoDoubleClose`, `TrackerKnowsSession`, `RemotesServe`, `CloseReaches`, and `OfferDecided` under fairness | three connections of one feed |
| `Connections_refuse` | the refinement of `SingleSession` | the refusing tracker, several connections and feeds |
| `SignIn_answers` | `TypeOK`, `SendsOnOpenChannel`, `AnsweredOnce`, `TokensAccounted`, the refinement of `OneSignIn` (`SignsInOnce`), and `SolutionsAnswered` and `ListenersReleased` under fairness | two challenges, two calls by different members and two pages for one of them, a page for the other |
| `Listener_shutdown` | `TypeOK`, `AcceptNotNil`, `OneAccepts`, and `CancelReturns`, `CloseReturnsServe`, `ConnectionsTaken` under fairness | two calls of Serve, four connections, cancel and Close at any time |
| `Requests_races` | `Integrity`, `ActsAsItself`, `TokensUsedOnce`, `AdmissionJustified`; the action properties `RoleChangeKeepsAdmin`, `AliasRevokedByOwner`, `PasswordSetByOwner`; the refinement of `DBSpec` (`DatabaseSteps`); `OldTokensGo` under fairness | 31 agendas of three requests each, one crash, any query may fail |
| `Requests_resolve` | violation: `ResolveReturns` | the same |
| `Server_lifecycle` | `IdentityKept`, `CloseComplete`, and `ProcessEnds` under fairness | two processes, two starts, one rotation, one signal, one session at a time |
| `Server_rotation` | violation: `KeysInUse` | one process, two starts, one rotation |
| `Tunnel_ends` | `RightPeers`, and `TunnelsEnd` under fairness | one call, a caller and a target with two sessions |

`TypeOK` of `Connections`, `Requests`, `Server` and `Tunnel`, and the refinement of
`SingleSession` by the tracker that evicts (`OneSessionUnlessOverlapped`), hold in these runs
as well; they are in no cfg because they are proved for every instance.

**Why the bounds are enough.** A race on the room needs two threads of one peer and an
observer; order of delivery needs two observers (the peer itself listens on its second
session). The history variables (`raced`, `contended`, `overlapped`) delimit exactly the
schedules the statements exclude, and what happens in them is told below. Two goroutines
inside `OnAccept` and a third connection that was there before cover an overwritten entry.
Two calls for one challenge and two pages cover the double answer, and each call can find the
mutex taken by the other; the second challenge shows that what happens to one leaves the
other alone. Two calls of Serve are one that Close ended and the one after it, which only the
context ends: there is no third, and the bound is never in the way. An agenda brings together
the requests that read or write the same rows: two that compete and a third that changes
what they depend on; requests about different rows meet only in the ids, and ids never
come back. A crash makes requests fail that had not committed, and a second one
finds nothing that the first did not. Two processes are enough for the race on the files
and on the socket, two starts for a crash and what comes after. Calls of tunnel.connect do
not meet. The theorems carry the safety properties to every size.

**Fairness.** Goroutines run on: weak fairness of their steps. Where a step takes a mutex
others take again and again, strong fairness: a Go mutex turns to a waiter it starved for
a millisecond. Timers fire: weak fairness of the timeouts and of the ticker. `select` picks
at random among ready cases: strong fairness for the one that keeps coming back. Once started,
the server opens its database; nobody has to restart a server that died of a panic, so
`OldTokensGo` excepts that. No peer has to connect, answer, read, hang up or be cancelled, and
no signal has to come. One assumption is about the environment: a write to a session returns,
with or without an error. A peer that keeps its connection and never reads is outside the
models, and with it the blocking it causes.

## What is proved

For all values of the constants that satisfy the named assumption of each module
(`ConstantsAssumption`, `ConnectionsAssumption`, `SignInAssumption`, `ListenerAssumption`,
`ServerAssumption`, `TunnelAssumption`; they state the types of the constants and that sentinels are no members).
`Requests` assumes that the database is sound at first and requests have the form they have
on the wire (`AgendaAssumption`), and that a cookie holds an id or token this database handed
out to its owner (`CookiesAssumption`): cookies are signed.

* `RoomStateProofs`: `TypeCorrect`, `FollowEvents`, `SeeRoom`, `FeedImplemented`,
  `StreamsRecover`. The
  invariant says that a thread inside a loop holds the mutex of that loop (`Locks`), that
  stages fit handlers (`Handlers`), that one thread at most opens the attendants stream of a
  session (`Opening1`), that a stream heard nothing before it registered (`Hearing`), that
  the event being delivered is the last event (`Current`), and that for a peer nobody raced
  on the last event agrees with the room whenever none of its threads is publishing
  (`Settled`). Neither statement is inductive alone: `ObserversFollowEvents` needs that
  only the holder delivers, and `ObserversSeeRoom` follows from it and `Settled`. The
  refinement also needs that a session that never began has no stream (`Fresh`). For
  `StreamsRecover` (`Recovering`): unless a list was overtaken, whoever holds one holds the
  current one, an outdated one inside the loop has its successor waiting for the mutex, and
  a stream that is wrong has a right list on its way.
* `ConnectionsProofs`: `TypeCorrect`, `ChannelsClosedOnce`, `SessionIsTracked`,
  `RemotesAreServed`, `RefuseImplementsSingle`. An entry belongs to a connection that was let
  in and not closed (`Entries`), so its channel is open; a goroutine alone inside `OnAccept`
  finds the entry it read, or none (`Alone`), so what it enters overwrites nothing. The last
  theorem assumes the refusing tracker, for which nothing ever overlaps.
  `OrderlyImplementsSingle` is the same for the tracker that evicts and the feeds without an
  overlap: the steps of a connection that evicts and gives up are stutters, and `Admit` is an
  `Enter` because whoever was served before has closed its channel. `SessionsAreClosed`: a
  session without overlap is in the tracker (`SessionIsTracked`), so the one step in which
  `CloseAll` closes what the tracker knows closes it, and no other step claims to have.
* `SignInProofs`: `TypeCorrect`, `ChannelsOpen`, `OneAnswer`, `TokensAreAccounted`. The mutex
  makes the call that sends unique, entries of the map have open channels, and a challenge
  is never issued twice (`Locked`); an answered challenge has a closed channel or a call
  that is about to close it (`Answered`); only calls that worked have tokens (`Accounted`).
  `ImplementsOneSignIn`: only `Hand` makes an answer, and when it does no page of that
  challenge heard one (`AnsweredOnce` makes the page of an answer unique, so the `CHOOSE` in
  the mapping has one outcome); a token leaves the table by `Logout`, `InvalidateAllSolutions`
  or `RemoveToken`, the last of which hits tokens nobody was told of. The steps of the pages are
  `Enter`, `GoAway` and `SignOut`; all others are stutters.
* `ListenerProofs`: `TypeCorrect`, `AcceptIsSafe` and `AcceptorsDoNotPile`: until the context
  is cancelled, Serve leaves its loop only when the goroutine is gone, which takes a listener
  closed by Close, through the Once, after which the deferred function does nothing
  (`Orderly`).
* `RoomDBProofs`: `ServicesKeepIntegrity`. Every service of `RoomDB` takes a sound database to
  a sound one: one lemma per statement of `Tables`, and then per service. What carries it is
  that ids of a table are at most its last one (so a new row's id is new), that `Register`
  signs for the key of the member it finds, and that what refers to a member goes with it.
* `RequestsProofs`: `TypeCorrect`, `DatabaseStepsHold`, `RolesKeepAdmin`,
  `CookiesActAsThemselves`, `TokensAreUsedOnce`, `AdmissionIsJustified`,
  `AliasesRevokedByOwners`, `PasswordsSetByOwners`, for any number of requests of any kind. The
  first three rest on `Inv`: types, a sound database, that what an
  open transaction has read still holds until somebody writes (`ReadsHold`), and that ids
  and tokens of cookies are older than the last id handed out and belonged to their owner in
  every database there was (`Remembered`). Each operation is shown to keep it and to do what
  a service does, or nothing (`RightOf`). The next three rest on `HInv`, which adds the
  databases there were: each leads to the next by `Continues` of `RoomDBProofs` (a row with
  an old id is the old row, a used token stays used; ids do not come back), so what a
  request found stays true while others go on (`Facts`). A second use of a token would have
  found it unused after the first left it used. The last two rest on `AInv`, which adds what
  entitles a request (`Claims`): who comes to look an alias up a second time has found the
  first time that it was the sender's, in a database there was, or is an administrator; the
  row kept for the deletion has the name that was asked for, now and later, since a new alias
  has a new id (`AliasSteps`); and the row insert-user keeps is that of the member it added.
  Every other step leaves passwords alone and takes aliases with their member only
  (`Spares`, shown statement by statement, then per handler). Neither property is inductive:
  the alias is judged at one query and deleted two queries later, with anything in between.
* `ServerProofs`: `TypeCorrect`, `KeepsIdentity`, `CloseIsComplete`. For the first of the last
  two (`OneIdentity`): unless two looked for the file at once, at most one process is between
  its look and the end of the creation, the file is not whole meanwhile, and everybody past
  that point has the file's identity. For the second (`Closes`): nobody asks before the socket
  is bound, the mutex has an owner until that owner is answered, and once it was given back
  without an error network and socket are closed.

* `TunnelProofs`: `TypeCorrect`, `TunnelsLeadToTheirPeers`. The entry of a
  peer is a session of that peer, however late the announce was served, and a handler keeps
  the endpoint it found and the comparison it made with the caller (`Routes`).

Every invariant, action property and refinement that a passing run checks is stated by one of
these theorems. Only model-checked is every liveness property
(`HandlersReturn`, `OfferDecided`, `SolutionsAnswered`, `ListenersReleased`, `CancelReturns`,
`CloseReturnsServe`, `ConnectionsTaken`, `OldTokensGo`, `ProcessEnds`, `TunnelsEnd`): fairness
and `ENABLED` are outside the prover's reach, as is induction over data.

## Where code and documentation disagree

Three runs end in a violation; `PROJECT.json` quotes the statement each refutes. The
cleanup of an old session evicts the peer that came back (`RoomState_evicted`). An alias
whose member is deleted between two queries is a nil pointer where an error is promised
(`Requests_resolve`). After a rotation of the cookie keys the old pair is not used, because
the loop over the file takes the first pair twice (`Server_rotation`).

Some statements do not hold and have no run of their own; they are defined at the end of their
modules, and adding one to a cfg shows the counterexample:

* `AttendantsSeeRoom`: a stream of attendants can miss an event, for its list is written before
  it is registered. `EndpointsSeeRoom`: a stream of endpoints can keep an outdated list until
  the next change. `EndedSessionsLeave`: an announce in flight when its session ends leaves
  the peer in the room. (`RoomState_reconnect.cfg`, `RoomState_streams.cfg`; these are why
  `ObserversSeeRoom` and `EndpointsRecover` except races.)
* `LastOneWins`: two connections of one feed that arrive together are both served
  (`Connections_lastwins.cfg`).
* `CancelAlwaysReturns` ("Canceling the passed context makes the function return",
  new.go:259): the deferred function of `Serve` is inside `lisClose` and waits for
  `listenerLock`, `Close` has that lock and waits for `lisClose` (new.go:275-281, 386-391), and
  neither returns. cmd/server waits two seconds between cancel and `Close`, which makes it
  unlikely once `Serve` runs; a signal while the server is still starting does not give them
  that distance, and then os.Exit is not reached. `CancelReturns`, `CloseReturnsServe` and
  `ProcessEnds` say that this is the only way (`Listener_shutdown.cfg`).
* `NotCrippled`: removing a member, unlike changing a role, can take the last administrator
  (`Requests_races.cfg`).

The conditions in `AcceptNotNil` and `ConnectionsTaken` cannot be dropped: when the context
is cancelled, the goroutine can meet the listener Serve just set to nil, or block for ever
on a connection nobody takes from it. Nothing but the end of its request releases a
page whose challenge nobody solves: after `sseTimeout` only the pings stop. And
`AliasRevokedByOwner` says no more than that the sender owned the name at some time: between
the check and the deletion the name may pass to another member, whose alias is then deleted.

## What is not modelled, and why

What handlers print, render and log; templates, translations and flash messages; the
secret-handshake and muxrpc protocols, which are libraries (their sessions are `Connect`,
`Hangup`, `Arrive`, `Disconnect`, `Call` and the kinds of sessions of `Server`); cryptography
and encodings (a signature is its signer, a key a number); generated database code that nothing
calls; mocks. Within the modelled parts: what only tests use (the tracker that accepts all,
outgoing `Connect`, the channel of `GetListenAddr`) and `Close` of the two broadcasters,
which nothing calls; the frames of websockets; data races on words that Go would report as
such; slow peers (see Fairness); a page that reconnects by itself, which is a new page with the
same challenge; a disk that loses what was written, and SQLite itself, whose transactions are
taken at their word.
