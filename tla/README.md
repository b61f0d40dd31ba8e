# Models of Nuclide's connection layer

Nuclide is an IDE that runs half in an editor and half on a remote machine.
What its packages have in common is a connection: big-dig keeps a client and
a server talking although sockets break, and the RPC layer, the tunnels, the
Thrift services and the open-file synchronisation are protocols on top of it.
These modules model that connection layer from the code under
`src/modules/big-dig` upwards, the protocols above it, and two clients of
other processes that recover from failures of their own: the client of
Watchman, and that of language servers.  The rest of the repository is mostly
presentation (React components, Atom adapters) and adapters around external
tools, and is listed at the end with the reasons why it is left out.

## 1. The system

| Component | State it keeps | Operations | Talks to |
|---|---|---|---|
| `QueuedAckTransport` (both ends) | the queue of messages not yet acknowledged, the messages received ahead of their turn, two counters, two timers, the socket in use | `send`, `reconnect`, `disconnect`, `close`, `_handleMessage`, the ack timer, the pending-message timer | a `WebSocketTransport` below; `ReliableSocket` or `BigDigServer` above |
| `WebSocketTransport` | the WebSocket, or null | `send`, `ping`, `close`; the `close`, `error`, `message`, `pong` events | the `ws` library |
| `ReliableSocket` (client) | its transport, the reconnect timer and its backoff, the ping timer, the dials in flight | dial, `open` and `error` of a dial, reconnect timer, ping timer, `send`, `close` | `QueuedAckTransport`, the heartbeat, `BigDigClient` |
| `BigDigServer` | a transport per client id, a subscriber per tag | a new WebSocket, a message, the close message | `QueuedAckTransport`, the launchers of tunnels, Thrift and RPC |
| `BigDigClient` | a subject per tag | `sendMessage`, `close` | `ReliableSocket`, the tunnel and Thrift managers |
| `XhrConnectionHeartbeat`, `ConnectionTracker` | the interval, the last result, whether it is away | heartbeat, its failure and retry, `close` | HTTPS requests; `ReliableSocket` hears of restored connections |
| Tunnels (`TunnelManager`, `Tunnel`, `Proxy`, `SocketManager`) | tunnels and their reference counts, proxies, sockets per tunnel | create a tunnel in either direction, data, close, errors | big-dig messages with the tag `tunnel`; TCP |
| Thrift services (`ThriftClientManager`, `ThriftServerManager`) | clients, a shared tunnel per service with a count; servers with a count | create and close a client, start and stop a server, timeout of a command | big-dig messages, tunnels, child processes |
| RPC (`RpcConnection`, `ObjectRegistry`) | calls waiting for an answer, live subscriptions, objects by id and their references | call, resolve, subscribe, next/error/complete, unsubscribe, dispose | any transport |
| Remote connections (`ServerConnection`, `RemoteConnection`, `ConnectionCache`) | connections by host, pending ones, the health of each | connect, share, lose, close | big-dig client, RPC, the UI |
| Open files (`NotifiersByConnection`, `BufferSubscription`, `FileCache`, `FileVersionNotifier`) | versions sent and acknowledged, buffers and requests on the server | open, edit, rename, close, resynchronise | RPC |
| `ConnectionHealthNotifier` | the notification shown, the failures in a row | a heartbeat, its failure, dispose | the heartbeat, the UI |
| `WatchmanClient` (`serializeAsyncCall` in it) | subscriptions by name with a count, the last clock per root, the client | watch, unwatch, reconnect, restore | the Watchman process |
| `MultiProjectLanguageService`, `LspLanguageService` | a promise of a service per project, who observes them; the state of each service, its connection and process, the recent crashes | ask, observe, clear; start, retry, crash, restart, stop, dispose | the language servers, the editor's dialogs, `FileCache` |
| task runner, hg, buck, debuggers, file tree, UI | see section 7 | | |

What is hard in it: the two ends notice the loss of a socket at different
times; several dials are in flight at once and their `open` events come late;
timers race the events that should cancel them; the server process restarts
and forgets everything while the client does not; and, in the protocols
above, state is read before an `await` and used after it.

## 2. Modules and their order

| Module | What it is | Checked by |
|---|---|---|
| `QueuedAckTransport` | the methods of one transport object, as operators on a record; no variables | through `AckChannel` |
| `SocketWires` | what travels on the WebSockets | through `AckChannel` |
| `ReliableChannel` | abstract specification: two ends, each is handed a prefix of what the other sent | implemented by `AckChannel` |
| `AckChannel` | two transport objects over successive sockets | `fifo`, `faulty`, proofs |
| `BigDigSession` | ReliableSocket, BigDigServer, dials, pings, close, crash and restart; implements `AckChannel` | `session_*` |
| `ThriftServices` | the two Thrift managers over a reliable channel: reference counts of servers and tunnels | `thrift` |
| `Tunnels` | the two tunnel managers and the proxies, in both directions | `bigdig_client` |
| `Heartbeat` | XhrConnectionHeartbeat and ConnectionHealthNotifier | `bigdig_client` |
| `RpcConnection` | calls, promises, observables and object references between two ends | `rpc`, `rpc_thrown` |
| `FileSync` | one file: its events, retries and resynchronisation, the server's buffer, requests for a version | `files` |
| `RemoteConnections` | findOrCreate and close for one host, the shared ServerConnection, a ConnectionCache | `nuclide` |
| `Watchman` | the Watchman client over failures of Watchman | `nuclide` |
| `LanguageServices` | the services of a MultiProjectLanguageService, and the life of the server of each | `nuclide`, `lsp_unobserved` |
| `TransportProofs` | lemmas about the operators of `QueuedAckTransport` and `SocketWires`, used by the next two | TLAPS |
| `AckChannelProofs` | theorems about `AckChannel`: types, the timer, `ChannelInv` and what follows, the refinement of `ReliableChannel`, `NoGapOnFifoSockets` | TLAPS |
| `BigDigSessionProofs` | theorems about `BigDigSession`: types, `NeverStranded`, `NoSplice`, `AmnesiaInOrder`, the refinement of `AckChannel` | TLAPS |
| `RpcConnectionProofs`, `FileSyncProofs`, `ThriftServicesProofs` | theorems about the protocols above: every invariant the runs check of them | TLAPS |
| `BigDigClientProofs` | the same about `Tunnels` and `Heartbeat`, alone and side by side | TLAPS |
| `NuclideProofs` | the same about `RemoteConnections`, `LanguageServices` and `Watchman`, alone and side by side | TLAPS |

`MCAckChannel`, `MCBigDigSession`, `MCThriftServices` and `MCRpcConnection`
define what the configurations need.  `MCBigDigClient` and `MCNuclide` put two
and three modules into one run.  They share no state in the code, so nothing is
gained by interleaving them: the initial state picks one of them, and the others
stay as they are.  The properties of a module say the same as if it were alone
(`PartsOfNuclide`: a behaviour of all three is a behaviour of each).

`BigDigSession` composes the transports, the wires and the two ends above
them.  The layers above rely on `ReliableChannel` only: their modules take the
messages of each direction as one sequence that arrives in order, and may be
cut off when an end closes the connection.

What is worth doing next: the connections that run through a tunnel
(`SocketManager`), and the requests of the LSP client that a restart cuts off.

## 3. How the modules correspond to the code

**QueuedAckTransport.** A transport object is a record whose fields are those
of the class (`_pendingSends` is `pendingSends`, and so on).  Each method is an
operator from the record before to the record after (`Reconnect`, `Enqueue`,
`HandleContent`, `HandleAck`, `HandleTransportClose`, `Close`,
`HandleAckTimer`), and the frames a method writes are a second operator
(`ReconnectFrames`, `SendFrames`, `AckFrames`).  The two `while` loops of
`_handleMessage` appear as the index at which they stop (`ProcessesUpTo`,
`AcknowledgesFirst`).  A timer is a flag: an armed timer may fire at any later
moment, so every race between a timer and an event is explored.  The text
format of frames is abstracted to records.

**SocketWires.** `wire[s][e]` is what travels on socket `s` to end `e`.  A
WebSocket delivers a prefix of what was sent, in order; when an end stops
listening to a socket, what is still on its way is dropped (`Carried`), which
is what `removeAllListeners` in `WebSocketTransport._setClosed` does.

**AckChannel.** `Accept` is the server side of a connection
(`_onWebSocketConnection`), `ClientOpens` the client side; either end may lose
its socket at any time.  `Faults` additionally lets sockets lose, reorder or
duplicate frames: the class is written against an "UnreliableTransport" and
its tests use one.

**BigDigSession.** `dialing` counts the dials the server has not seen;
`opening` holds the sockets it accepted whose `open` event is still to come,
so several dials may be pending at once and open in any order.  `ping` is the
state of `_pingTimer`, `reconnectTimer` that of `_reconnectTimer`, `registered`
whether `_clientIdToTransport` has an entry.  An unanswered dial fails before
(`DialFails`, `DialRefused`) or after (`OpenFails`) the server accepted it.
`Crash` and `Restart` replace the server process.  Subscribers answer requests
and never speak first; a reply carries the number of the incarnation that
wrote it, so that `NoSplice` can tell them apart.  `retired` is the last socket
an earlier incarnation accepted and `late` whether the client ever adopted such
a socket after the crash; both are history, which no guard reads, and `NoSplice`
and `AmnesiaInOrder` say what holds until then (section 4 has what happens
after).  `MaxDial` is at least 1: with no dial at all a client could not be on
its way back.

**ThriftServices.** One record per call of `createThriftClient` follows it, and
the client it returns, through its awaits: `starting` (the answer to
start-server), `tunnelling` (port and tunnel), `connected`, `closing`, `gone`,
or `failed`.  `tunnelTo` and `servers` are the two maps with their counts.
`tunnels` are the tunnels that exist and `holders` the server objects
subscribed to a process, so that what the maps say can be compared with what
is there.  `toServer` and `toClient` are the reliable channel.  An async
function is cut at its awaits; `creating` holds the start requests between the
two halves of `_startServer`, which all continue together when the process they
share is ready (`ServerReady`) or fails (`ServerFails`).

**Tunnels.** A tunnel is named after the call that created it.  `inClient` and
`inServer` are the two maps `_idToTunnel`, which hold tunnels, socket managers
or proxies; `proxy` is the listening socket, bound or refused as soon as
`startListening` calls `listen`, and known to be so at its next event.  The
awaits of `createTunnel` and `createReverseTunnel` are the stages "listening",
"creating" (a microtask, which runs before the next message) and "asking".  A
call is "lost" when its promise is never settled: `createReverseTunnel` wraps
an async function in a promise, and what that throws rejects nothing.

**Heartbeat.** `interval` tells a handle that is null from one that was cleared
but kept, since `_restartHeartbeatIfNecessary` looks at the handle only.
Several heartbeats may be in flight, because the interval does not wait for the
last one.  `HeartbeatRestored` of `BigDigSession` is the `reconnect` event of
this class.

**RpcConnection.** Both ends have the same actions; `wire[e]` is what travels
to `e`.  `request[e]` records every request with what its caller was told,
which is what `SettledOnce` is about; `calls` and `subs` are the maps of the
class.  An observable's request is sent when it is subscribed to.
When its end is handled, telling the observer runs the teardown of the
subscription while the entry is still in `_subscriptions`, so `HandleEnd` sends
an unsubscribe as well.  `registry` and
`proxy` are the `ObjectRegistry`: an object gets a number when it is first
marshalled, and loses it when the proxy is disposed.  `working`, `streams` and
`producing` tell the promises that will answer, the subscriptions the registry
keeps, and the observables that run and are heard.  An observable is subscribed
to through a `map` that marshals, and connected apart (lines 576-622): when a
value cannot be marshalled, the error is sent and the record removed
(`EmitsBadly`), but the connected observable runs on, which is what `detached`
keeps, until it ends by itself (`EndsUnheard`).  `Dispose` and
`DisposeSubscriptions` are the two halves of `ObjectRegistry.dispose`.

**FileSync.** A session is a `BufferSubscription`, from the opening of the file
to its closing; a text is the pair of session and change count at which the
editor had it, and `Mixed` is a text no editor had.  A call that timed out is
rejected at the client and still arrives.  `resyncs` and `closes` are the
timers of the two retries.  `HandleEdit` applies an edit to a text it was not
made for, since the server compares the replaced range only; `VersionMeansText`
says what that can lead to.

**RemoteConnections.** A call of `findOrCreate` passes the stages at which it
awaits: "initializing" (RPC and version checks), "saving" (the stored
configuration), "resolving" (the path), "describing" (the repository).
`members` is `_connections`, `removals` the calls of `removeConnection` that
await the shutdown, `registered` the entry of the host, `cached` what a
`ConnectionCache` has.

**Watchman.** Watchman answers the commands of a connection in order.  A
restore that was given up, because its attempt failed, goes on in the code, and
here ("an earlier one").  `scheduled` is the second call `serializeAsyncCall`
keeps.  Watchman may answer any command with an error (`Refuse`, the rejection in
`_command`): what awaits the command fails, and what was done before it stays.
`refused` is history: the calls whose subscribe was refused since the last
reconnect began.  `clock` counts changes of the file system, `feed` is how far
Watchman told the client, `seen` what subscribers heard.  `born` is the clock at
which the Watchman that runs was started (`WatchmanRestarts`, while no client is
connected).  Asked since a clock from before (`Fresh`), it reports none of what
was changed, since the options say `empty_on_fresh_instance` (line 273), and the
client takes over its clock all the same.  Watchman's messages about states are
left out, and a command it cancels is one that was cut off with the connection.

**LanguageServices.** `factory` is how far the promise of a project in
`_processes` is, `latest` the promise the `switchMap` of
`observeLanguageServices` awaits, `observed` the services it passed on.  `lsp[p]`
is the `LspLanguageService`: `state` is `_state`, `start` what a call of
`start()` awaits ("hosting", "spawning", "initializing", "asking"), `connection`
whether there is an `_lspConnection`, `server` its process.  Disposing of a
connection kills the process, rejects its requests and ends its dialogs; what
`start()` does about that runs in microtasks and is part of the same action
(`Disconnected`).  `_recentRestarts` is its length up to the limit, and at a
crash any number of its entries may be three minutes old.

## 4. Runs

| Run | Instance | What it shows |
|---|---|---|
| `fifo` | 2 messages one way, 1 the other, 3 sockets, both ends may close | in order, exactly once, nothing forgotten, nothing parked, refinement of `ReliableChannel` |
| `faulty` | 2 sockets that lose, reorder and duplicate; the client may close | the inductive invariant `ChannelInv`, `Watchdog`, and everything sent arrives |
| `session_crash` | 2 requests, 2 dials at once, 3 sockets, 1 restart | until a socket of the crashed server opens late, streams are never spliced and the assertion of the amnesia branch holds; until a crash, `BigDigSession` implements `AckChannel` |
| `session_live` | 1 request, 2 dials, 3 sockets, 1 restart, close | no client stranded, no timer left behind, a client does not stay disconnected; without a restart its request is answered |
| `rpc` | up to 3 requests of the client, up to 1 of the server, 2 objects, in every plan of `AllPlans`; timeouts, unsubscribing, disposing at any time | references resolve, callers are told once, the server's calls settle; observables that ended, that nobody hears or whose end is disposed are released, unless a value detached them |
| `files` | 2 sessions, 3 versions, 2 timeouts, 2 calls in flight | a version means one text, the server is in sync at rest, requests for a version get that version |
| `thrift` | 3 calls of a service, 2 pending at once, with timeouts and failing tunnels; or 3 of one whose calls do not overlap, and whose process may end | no tunnel outlives its process; every call settles; without overlap the client's count of a tunnel is the number of its clients, and an unused process stops |
| `bigdig_client` | 3 calls for tunnels of three kinds, a port taken or not, close; or 2 heartbeats and a check in flight, 2 retries | counts and ends of tunnels agree; the heartbeat recovers and takes its notification away |
| `nuclide` | 3 calls for a host, every await failing or none; or 2 calls on a Watchman client for one name or two, 2 failures of the client or of a command, 2 changes or restarts of Watchman; or the language server of one project, 2 crashes in three minutes | no server connection and no language server left hanging; every subscription of the map but a refused one is made again, and the only one, asked for once, misses nothing while Watchman runs; every call settles |
| `session_amnesia` | 1 request, 1 dial, 3 sockets, 1 restart | **violated**: a closed transport is reconnected |
| `rpc_thrown` | as `rpc` | **violated**: an error thrown before an observable exists never reaches its subscriber |
| `lsp_unobserved` | 2 projects | **violated**: a service that was returned is never observed |

The three violations are disagreements between the code and its documents:

* `BigDigServer.js:262` reconnects a transport that has closed itself
  (`QueuedAckTransport.js:255`), against "Once closed, reconnect may not be
  called".  The entry is never removed, so that client is accepted, never read,
  times out and dials again, for ever.
* `RpcConnection.js:751` looks an error-response up among the calls only.
  `NuclideRemotingFramework.md:228` promises the error through
  `Observable.throw`; the subscriber waits for ever instead.
* `MultiProjectLanguageService.js:187` switches to the promise of each new
  project.  The run finds: diagnostics are observed, a first project is asked
  about, a second one while the factory of the first still awaits, and then the
  first service is returned.  The `switchMap` has dropped its promise by then,
  so nobody observes it and its diagnostics are lost: `main.js:187` (of the LSP
  client) relies on every service being observed as soon as it is returned.

Others were met on the way.  The models show them, and the properties
are stated so as to hold beside them:

* `ReliableSocket.js:173` ignores the `open` event of a dial when the socket
  has been closed meanwhile, but nobody closes the WebSocket: the server holds
  a session for a client that is gone, whose state "cannot be resurrected".
* `QueuedAckTransport.js:254` asserts that only a new transport meets an ack of
  a message it never sent.  A socket that a crashed server accepted may open
  after the restart, when the client has used and lost a socket of the new
  server (`ReliableSocket.js:173` takes the first `open` event while it is
  disconnected): the client is then handed what the crashed server wrote, and
  the assertion fails at the next reconnect.  It takes two dials in flight at
  the crash and four sockets, 24 steps; `NoSplice` and `AmnesiaInOrder` exclude
  it by `late`.
* `ThriftClientManager.js:182` reads the tunnel cache three awaits before line
  201 writes it, so clients whose creation overlaps do not share a tunnel
  (comment at line 108), and the first of them to close closes the tunnel of
  another.  `ThriftServerManager.js:116` overwrites the entry of a start that
  overlapped: the process keeps a subscriber nobody can close (comment at line
  38).  `CountsExact` and `Released` are therefore about callers that wait for
  each other.
* `TunnelManager.js:92`: a caller that joins an existing reverse tunnel waits
  for a message that has come already; a reverse call that meets a tunnel of the
  other direction, or an overlapping one, never settles.  `Settles` is about the
  calls that create their tunnel.
* `ServerConnection.js:294`: overlapping calls make several connections to one
  host (comment at line 86: "at most one").  `ServerConnection.js:450`: the
  last connection's removal closes the server connection after an await during
  which another may have joined it (comment at `RemoteConnection.js:288`).
* `NotifiersByConnection.js:147`: a CLOSE that is retried may take the buffer
  of a file that was opened again; `InSyncAtRest` says exactly when.
* `WatchmanClient.js:174`: the clock is kept per root, so a subscription may
  miss changes another one under the same root has seen.  Under a root of its
  own it may as well: when another subscription cannot be restored, the attempt
  is given up and a new one made, but what the first had begun for this one goes
  on, so that it is restored twice, and a change may be missed in between.
  `AloneMissesNothing` is therefore about a client with
  one subscription.
* `WatchmanClient.js:174` takes the last clock of the root, although the comment
  above it (lines 165-166) says that it "is not valid" if Watchman died.  Then
  the changes up to the restore are missed, and nobody is told, because of
  `empty_on_fresh_instance`; `AloneMissesNothing` speaks of the time a Watchman
  runs.  On the other hand the comment at lines 115-117 expects too little: an
  event that cannot be read is not missed for good, since the restore asks again
  for what came after the last one that was read, if there was one.
* `WatchmanClient.js:285`: a subscribe that Watchman refuses rejects the call, but
  the entry line 284 made stays.  As the connection lives nobody reconnects; the
  next caller is handed the entry (lines 251-256) as a subscription that works,
  and hears nothing until a later failure.  `EntriesSubscribed` names this
  exception.
* `RpcConnection.js:578-607`: an observable that was connected when it emitted a
  value that cannot be marshalled loses its record, not its connection.  It
  runs, unheard, until it ends by itself; neither an unsubscribe nor the end of
  the RPC connection stops it.  `StreamsReleased` names this exception.
* `LspLanguageService.js:997`: `dispose()` while `start()` awaits the process
  finds no connection and says "Stopped"; `start()` goes on and reaches
  "Running" with a process nobody will stop.  `ServersMatchStates` makes no
  promise about Restart buttons of disposed services.

All configurations switch the deadlock check off: the models are bounded
(messages, sockets, calls) and a run that used everything up, or that closed
both ends, rightly stops.

### Bounds

* `MaxSend`, `MaxRequest`: two messages are the fewest for which order, gaps
  and partial acknowledgement differ; one in the other direction makes acks
  and content cross.
* `MaxSocket`: the first socket is lost, the second is resumed while the first
  is still in use at one end, the third is where the session settles.  The
  last socket does not fail (`Spare`): otherwise no bounded instance would
  contain a behaviour in which the network settles, and liveness would be
  vacuous.
* `MaxDial`: two dials in flight are enough for `open` events out of order.
* `MaxRestart`: one restart gives two incarnations to confuse.
* `MaxInFlight`: limits how often a faulty socket repeats a frame, since every
  repetition provokes an ack.
* `Service`, `Call`, `MaxPending` (Thrift): services share nothing but the
  channel; two pending calls overlap, and a third uses or closes what they left.
* `Call`, `Requests`, `Taken` (Tunnels): three calls are two that share a tunnel
  and one that meets them; `AllRequests` has every mixture of a tunnel, a
  reverse tunnel on the same ports, and another reverse tunnel that overlaps
  both.
* `Beat`, `Check`, and the limits (Heartbeat): two overlapping heartbeats, one
  other request, and limits of two, so that one below the limit is not the
  limit and not zero.
* `Plans` (RPC): what each end asks for.  Arbitrary requests of both ends are
  too many states; the plans have every pair of kinds, every order of using and
  disposing an object that was obtained, and an object of the client that the
  server uses while the client calls.  `MaxWire` keeps an observable from
  filling the wire.
* `MaxSession`, `MaxVersion`, `MaxTimeouts`, `MaxWire`, `MaxReplies` (files): a
  second session for what is late from the first, a version to miss and one to
  resynchronise at, and a retry that fails as well.
* `Call`, `Faults` (connections): three calls are two that create and one that
  joins.
* `Cases`, `MaxClock`, `MaxFailures` (Watchman): one name asked for twice, or
  two names under one root; a second failure while the first is being
  recovered, where a failure is that of a client or the refusal of a command.  A
  restart of Watchman counts as a change, as its clock moves on.
* `Project`, `RestartLimit` (language services): services share nothing but the
  observation, which takes two; a limit of three instead of five gives a crash
  that restarts, one after others, and one that does not.

### Fairness

Armed timers fire, sockets that work deliver, the server accepts a client
that keeps dialling, a crashed server is started again.  In `BigDigSession`
the `close` event of a broken socket is *not* assumed, since a half-open TCP
connection produces none: only the ping timer and the pending-message timer
notice it, and `Answered` would fail without either.  Acceptance is strongly
fair because failing dials disable and enable it repeatedly.  Nothing makes a
socket break, an application send or an owner close.

Above the channel messages arrive, since it is reliable while it lasts, and an
awaited operation of the system ends, one way or the other: a started process
comes up or is given up after ten attempts, a port can be listened on or not, a
request is answered or times out, Watchman answers, with a result or an error,
unless its client failed.
Everything a user or an application may do may also never happen.  In
particular:

* `Settles` of `ThriftServices` needs the timers to survive `close()`, which
  removes the listeners but leaves the timers to reject the calls.
* `Recovers` of `Heartbeat` assumes in addition, as its premise, that requests
  stop failing.
* In `RpcConnection` nothing makes an observable emit or end; promises settle.
* In `FileSync` nothing makes a call time out, or the user type again.
* In `LanguageServices` nothing makes a server answer `initialize`, for which
  there is no timer, so a start is only promised to get that far.

## 5. Proofs

Every theorem holds for any values of the constants that satisfy the named
assumptions.  Those are types (bounds are natural numbers, `Faults`, `MayClose`
and the like are sets of what the code can meet, `Plans`, `Requests` and `Cases`
have the shape the actions read), and a few that say more: a client may dial
(`MaxDial` is not 0), an editor has a first version (`MaxVersion > 0`), the calls
of `ThriftServices`, `Tunnels` and `Watchman` are finitely many, since counts are
compared with cardinalities, and so are the subscriptions of `Watchman`, which
`Promise.all` waits for.

A module of theorems states an inductive invariant as a conjunction of named
parts, shows `Init => Inv`, shows `Inv /\ [Next]_vars => Inv'` with a lemma per
action (or per action and part), and derives the properties.  Why the invariants
have to say what they say:

**AckChannel** (`TransportProofs`, `AckChannelProofs`).

* `TypeCorrect`: `TypeOK` is inductive by itself, with a lemma per operator of
  `QueuedAckTransport` and `SocketWires` (each maps transports to transports,
  frames to frames, wires to wires).
* `ChannelInvariant`: every frame in flight repeats a message its sender really
  sent or acknowledges one it really processed (`HonestWire`); what an end has
  handed over is the prefix of its peer's messages up to its counter
  (`HonestReceiver`); and the queue of an end is the tail of what it sent,
  starting no later than the first message its peer misses (`CompleteQueue`).
  `InOrderExactlyOnce` says nothing of frames in flight, and a frame that
  arrives late or twice is harmless only because of what it repeats.
  `InOrderDelivery`, `QueueComplete` and `AcksKnown` follow.
* `WatchdogArmed`: an argument about one transport at a time that does not
  depend on the network.  The conjunct about parked messages makes it inductive:
  a frame that arrives without progress must leave something for the timer to
  guard.
* `RefinesChannel`: the refinement mapping is the identity on `sent` and
  `delivered`, and the set of closed transports.  An ack must be shown not to
  close anything, which is where `ChannelInv` is used.
* `NothingParked`: with `"lose"` and `"reorder"` not among the faults (run `fifo`
  has none), `NoGapOnFifoSockets`.  The inductive invariant, `Gapless`, is about
  what the sockets carry: every message on a socket follows one ahead of it
  there or one already handed over, and the socket an end uses, while the other
  may still read it, reaches up to the last message sent, so that the next one
  leaves no gap either.  `CompleteQueue` is why a new socket starts this way.

**BigDigSession** (`BigDigSessionProofs`).  Many of its actions do the same to
a transport, so each is first shown to be one of ten effects (`Effect`: an end
loses its socket, the client adopts one, a frame is read, the server dies, and
so on); the invariants are then shown for the effects.

* `SaneAlways`, `TypeCorrect`: the types need to know that a transport uses a
  socket that was accepted, and that what is not registered is a new transport.
* `NotStranded`: whatever the order of failures, late `open` events, pings and
  timers, a client that is not closed is connected, dialling or waiting for its
  reconnect timer, and no ping timer outlives its socket.
* `NumbersAlways`: the server, and the frames to it and from it, know no more
  messages of the client than the client sent.  The client never meets an ack it
  must be amnesiac about; only the server can.
* `SessionInvariant`, from which `RepliesNeverSpliced` and `AmnesiaOnlyInOrder`
  follow, has in addition: whose voice every frame is (`Voices`: sockets up to
  `retired` carry earlier incarnations, the others this one); that each socket
  carries the replies in order, with no gap after what the client has
  (`Ordered`); and, while no late socket was adopted (`Parted`), that the client
  hears one incarnation only, that nothing reaches the present server from a
  client still on a socket of a crashed one, and that a server whose client
  remembers an earlier incarnation says nothing: it is closed, or the first
  frame it reads is the ack that will close it.

* `ImplementsChannelUntilDisturbed`: until the server crashes or the client is
  closed, the session takes the steps of `AckChannel` (with no faults, and with
  `MaxRequest` for the bound of both ends) or leaves the transports alone.  So
  what is proved of `AckChannel` for every choice of its constants holds of a
  session until then: in order, exactly once, nothing forgotten.  `AckChannel`
  lets an end give up the last socket only if the other is not on it; that the
  timers and the `close` events of the session do no more rests on
  `LastSocketHolds` (the last socket, while the server has it, is open at the
  client or about to be).  `AckChannel` also bounds the messages; that the
  session keeps the bounds rests on `Answering` (the server says no more than it
  was asked) and, for what the client counts, on `Parted`, once it is known that
  no socket was retired before a first crash (`FirstServer`).

**RpcConnection** (`ProtocolInvariant`, `TypeCorrect`, `ReferencesAlwaysResolve`,
`CallersToldOnce`).  `ReferencesResolve` is about the first message of a queue,
so the invariant is about all of them: the target of each is registered now, and
no dispose message for it is ahead of it (`InTurn`).  A registration goes only
after its proxy was disposed (`Disposed`), and a number is given out before it
is named (`MessagesGood`, `RequestsGood`, `ProxiesGood`).  That a caller is told
once rests on `Pending`: an entry of `_calls` or `_subscriptions` is a request
that waits, and there is one.

**FileSync** (`FilesInvariant`, `VersionsMeanTexts`, `AnswersAlwaysMatch`,
`InSyncWhenAtRest`).  Four facts carry the rest.  Every call and answer on its
way tells what the editor had (`CallsMeant`, `AnswersTold`).  Between the texts
of two sessions, in the queue or in the buffer, there is a CLOSE (`Separated`);
hence an edit never meets the text of another session, although CLOSE is retried
and may come late.  An ASK is followed by no text older than itself (`Asking`).
And the version of the editor, once announced, is settling (`Settling`): its
announcement is in the queue with only older versions ahead of it, or was
handled, and then the buffer has it, or a CLOSE took the buffer, or the retry
that will send it is in the queue, on its timer, or about to be caused by a
rejection still in flight.

**ThriftServices** (`ServicesInvariant`, `TunnelsLead`, `CountsAreExact`).  The
counts of the server are wrong when starts overlap, so the invariant is an
account: the granted starts that still have a tunnel or may open one, the stops
on their way, and the starts being handled are together no more than the
subscriptions of the process and what the count in the map adds to one of them
(`Covered`).  Hence the process of an open tunnel was not stopped.  This is said
of services whose process does not end by itself.  When calls do not overlap
(`OneAtATime`) the client's count of a tunnel is that of its users (`Exact`).
Nothing is proved of the server's count of a process, which a start that timed
out leaves too high.

**Tunnels** (`TunnelsInvariant`, `TunnelCountsExact`, `EndsPairedAtRest`).  Until
the client is closed, each tunnel is `Tidy`: which of the messages about it are on
their way, how often and in which order, given what the two ends hold (`Forward`,
`Reverse`), and its count is the number of its users (`Counted`).  At rest no
message is on its way, and what remains is that the ends agree.

**RemoteConnections** (`ConnectionsAttended`, `ConnectionsTypeCorrect`,
`NothingHangs`).  `NoneHanging` speaks of rest; what is inductive is that an
open connection nobody uses has a call or a removal on its way that will use it
or close it (`Attended`).

**Heartbeat** (`HeartbeatInvariant`, `NotifiedOnlyWhenAway`).  With its types
`NotificationMeansAway` is nearly inductive.  What is missing is what becomes of
the notifier: none before it was created, and gone only with the client
(`Notifier`), so that a late heartbeat finds nobody to show anything.

**Side by side** (`TunnelsTypeCorrect`, `ClientTypeCorrect`).  `TypeOK` of the
tunnels bounds their counts.  Above, that is `Counted`; below, a count drops under
-1 only when callers close their tunnels after the client closed all of them, once
for each (`Bounded`).

**LanguageServices** (`LanguagesInvariant`, `ServersMatch`).  How the state of a
service, what its `start()` awaits, its connection and its process fit together
(`Fits`) is shown for each of the operators the actions are made of, and then for
the actions.  The exception that makes it true is the service that was disposed
while it started (section 4).

**Watchman** (`WatchmanInvariant`, `EntriesAlwaysSubscribed`, `AloneNeverMisses`,
`WatchmanTypeCorrect`).

* `EntriesSubscribed` speaks of rest.  At any time, a client that failed is about
  to be replaced: the reconnect waits for its retry, or a second call of it is
  scheduled (`Replaced`); and a subscription of the map that Watchman does not
  have is about to be asked for, by a command in the queue or by a restore that
  has not got to it, or its own call was refused it and no reconnect began since
  (`EntriesPending`).
* `AloneMissesNothing`: of the commands that lead to the one subscription, at
  most one is on its way (`Lone`), Watchman does not have the subscription while
  it is, and it starts where the last event ended (`Proper`); at most one restore
  sleeps, and it is that of the attempt under way (`Sleeping`); and, if the last
  event is one of the Watchman that runs, the caller has heard of everything up to
  the last clock (`Told`).
* The bounds of `count` in `TypeOK` need to know which calls counted: a call
  awaits the answer of at most one command (`AllAwaited`, `OneEach`), so it is
  counted once, and leaves once (`Counted`).

`PartsOfNuclide` carries what is proved of the three modules over to all of them
side by side; `NuclideTypeCorrect` is the conjunction of their types there.

`ChannelInv` and `Watchdog` are also checked by TLC, in run `faulty`.  The proof
of `NoSplice` did not go through without `late`, and TLC showed why: with four
sockets it is false (section 4).  In the same way an attempt to prove
`AloneMissesNothing` of every subscription that is alone under its root led to
the behaviour of section 4 with two roots.

Every invariant and every action property of the passing runs is stated by a
theorem.  Model-checked only: liveness and the fairness it needs, which are out
of the prover's reach (`EventuallyDelivered`, `Answered`, `Reconnects`,
`StreamsReleased`, `CallsSettle`, `AskSettles`, `Settles`, `Released`,
`Recovers`).

## 6. Abstractions to keep in mind

* One client per server: `BigDigServer` treats client ids independently.
* `TypeOK` and all invariants hold in every interleaving of whole handlers:
  JavaScript runs a handler to its end, so a handler is one action.
* Amnesia of the *client* does not occur: a new client has a new id.
* In `ThriftServices` a message may be handled before the continuation of the
  previous one: `QueuedAckTransport` hands over in one loop all messages a
  frame made deliverable, and promises continue after that.
* Thrift connections are assumed to emit `close` and not `error`; an `error`
  without a listener would end the client process.
* The amnesia branch is reached in `BigDigSession` only, by a restart.
* Above the channel an async function is cut at its awaits; a continuation that
  is a microtask runs before the next message where the order matters
  (`NoMicrotask` in `Tunnels`).
* `RpcConnection`: values other than references are abstracted.  A result that
  cannot be marshalled is possible at the ends in `BadResults`.  Calls are not
  made from inside handlers; a call made there is one made right after.
* `FileSync`: one file.  Renaming is a close and an open.  Whether the range an
  edit replaces happens to hold the text it expects is a free choice when the
  whole text is another.
* `RemoteConnections`: one host, one directory per call.  The early return with a
  connection that exists already (`RemoteConnection.js:101-109`) is left out: its
  guard wants the configured path, which is a path on the host, to be a remote
  URI.
* `QueuedAckTransport`: the assertion at line 254 is not part of `HandleAck`.  It
  would fail only after a late socket (section 4), where `AmnesiaInOrder` says so
  and no property depends on what follows.
* `LanguageServices`: a project is asked about once, and diagnostics are awaited,
  as by default (`waitForDiagnostics`).
* `Tunnels`: ports of other programs do not change during a behaviour.

## 7. What is not modelled, and why

| Part | Reason |
|---|---|
| SSH handshake, server launch, certificates; `ConnectionTracker` | a sequential script of I/O and user interaction |
| The connections that run through a tunnel (`SocketManager`, the data of `Proxy`) | forwarding of TCP data over a channel already shown to be reliable |
| Thrift handlers, generated stubs | adapters over the file system, pty and processes |
| RPC service parser, type registry, proxy generator | compilation of interface files, pure data |
| Requests and notifications of the LSP client, dispatch to language services | conversion between two sets of types, one call passed on |
| `dispose()` of the Watchman client, one-shot queries | used when the process ends |
| other asynchronous utilities | small helpers with unit tests of their own |
| task runner, hg, buck | a store, and process invocations with caches |
| debuggers, file tree, quick open, UI packages | presentation state |
| language packages | run external tools and convert their output |
| vendored, generated, tooling code | not the program's own logic |

Hazards that no property covers are in `PROJECT.json` with the reason: mostly
behaviour that follows from the code and that no document excludes.
