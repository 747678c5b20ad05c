# A TLA+ model of rathole-with-proxy

`rathole` here is two programs in one binary: a port forwarder (a server and a
client that carry TCP and UDP services through a NAT) and an HTTP tunnel hub put
in front of it (clients register a tunnel over a websocket, visitors' requests go
to a healthy tunnel or to a cloud backend). This directory models the parts of
both that decide something: who is registered, who is served, which lock is held
while waiting for what, and how failures spread.

All paths are relative to `src/` unless they begin with a module name.

## 1. Inventory

### Tunnel hub: `rathole/src/main.rs`, `rathole/src/proxy.rs`

| part | state | operations |
|---|---|---|
| websocket session (`handle_socket`) | its mpsc channel (100), the entry of its id in `AppState.tunnels` | register (redis `online`, insert sender), forward a request, take a `Response`, take a `HealthUpdate`, leave the loop, send its id to the cleanup task |
| request handler (`proxy_handler`, `forward_via_tunnel`, `tunnel`) | a oneshot sender in `AppState.responses` | look the tunnel up (cookie, best, or `/tunnel/{id}`), insert the response sender, send, wait (with or without a timeout), mark success or failure, fall back to the cloud |
| cleanup task | the id it is removing | redis `offline`, remove the sender |
| process | redis, which outlives it | abort on a panic, exit after a signal, start with an empty `AppState` |
| health map (`mark_tunnel_success`, `mark_tunnel_failure`, `is_tunnel_healthy`) | per tunnel: status, counters, `last_update`, `last_transition` | success, failure, report, health test |
| choice of a tunnel (`choose_best_tunnel`, cookies) | the visitor's cookie | cookie branch, best branch, second check, cloud |

The hard behaviour is in the locks and in the order of events. `tunnels` is a
tokio `RwLock`, which is fair: a reader behind a waiting writer waits too. In two
places a read guard is a temporary of an `if let` scrutinee and lives across
`.await`s. Sessions of the same id overlap. A timeout races with a late answer. A
request reads the health map several times and acts on what it read, after it has
waited for a body and for room in a channel.

`rathole/Cargo.toml:64-68` builds with `panic = "abort"`: an `unwrap` that fails or a
`todo!()` in any task of the hub, of the server or of the client ends that process, with
nothing cleaned up. The relay and its client are built without it: there a panic ends one
task and drops what it held.

### Port forwarder: `rathole/src/server.rs`, `client.rs`, `multi_map.rs`, `config_watcher.rs`, `lib.rs`

| part | state | operations |
|---|---|---|
| server control channels | `services`, `control_channels` (a `MultiMap` behind a `RwLock`), shutdown | control and data handshakes, hot reload, shutdown |
| TCP service | queues of requests, data channels and visitors | accept, request a channel, hand over, pair, shut down |
| UDP service (server) | the bound port, the one data channel it uses, the packet being written | bind with retries, wait for a channel, visitor to client, client to visitor, shut down |
| client | `service_handles`, a task per service | add or delete a service, connect, retry with backoff, shut down |
| client control loop | one `select!` over tick, command, timeout and shutdown | health update, command, heartbeat timeout |
| client UDP data channel | `port_map` behind a `RwLock`, forwarder tasks | packet in, forwarder start and end, packet out |
| `MultiMap` | two hash maps of raw pointers to boxed items | insert, get, remove by either key, drop |
| configuration and its watcher | the old configuration, notices | parse, validate and fill in defaults; calculate events, send them |
| accept loop (server) | the connection whose transport handshake it is doing | accept, handshake with a timeout, spawn |

The hard behaviour: a handshake holds a write lock while it writes to the network;
a service is looked up before a reload and used after it; `select!` makes its
sleep anew in each round; a task looks at its shutdown signal at some points only;
unsafe code depends on the order of its steps.

Commands cross the control connection as four bytes; a read that another branch of
`select!` cancels loses the bytes it has. In the UDP service two tasks write to each
other through bounded buffers, each not reading while it writes.

### Relay: `relay/src/main.rs`, `client/src/main.rs`, `shared/src/lib.rs`

An earlier hub without health or redis. State: `tunnels` (senders by subdomain) and
`pending` (response senders by request), each behind a tokio `Mutex`. Operations:
register a session, forward a request to its client, take its response, deregister;
a handler looks its tunnel up, inserts its sender, reads the body, sends, waits, or
asks the fallback. Its hard point is one temporary guard: `tunnels` stays locked
across everything a handler waits for, so one handler at a time is served and the
sessions' registration waits with the visitors.

### Other programs

`rathole/src/bin/client.rs` (the hub's example client), the rest of the wire codec,
the transports (TCP, TLS, noise, websocket) and the command line. They are listed in
`PROJECT.json` with what is modelled of them and why the rest is left out.

## 2. Modules

| module | models | notes |
|---|---|---|
| `TunnelHub` | sessions, request handlers, cleanup task, the fair lock on `tunnels`, redis status, responses map | 3 kinds of tasks; lock queue explicit |
| `HealthMap` | the health map and its operations | |
| `TunnelHealth` | marks, reports and time in any order | the health map by itself, with history variables |
| `ProxyRouting` | the choices of `proxy_handler`, with stale reads, cookies, sessions | extends `TunnelHealth`, and implements it; one life of the process, because the health map starts empty with it |
| `TwoKeyMap` | abstract specification of a map with two unique keys | |
| `MultiMap` | the steps of the unsafe code | implements `TwoKeyMap` |
| `ControlChannels` | accept loop, server handshakes, reload, shutdown | uses the map through `TwoKeyMap`'s promise, and refines it |
| `TcpPool` | one TCP service on both sides | counted queues |
| `ControlLoop` | the client's `select!` loop with time, commands read byte by byte | |
| `ClientControl` | client handles and tasks | |
| `UdpForwarder` | the client's UDP data channel with its fair lock | |
| `UdpService` | the server's UDP pool, the connection between the two, the control channel's end | composes with `UdpForwarder` |
| `ConfigWatcher` | parsing and validation of the file, the watcher task | |
| `Relay` | the relay's sessions and handlers, its two mutexes, and its client | |
| `*_proofs` | theorems about the modules they extend | 8 modules; four also host a neighbour: `TunnelHealth_proofs` the proofs of `ProxyRouting`, `ControlChannels_proofs` those of `ConfigWatcher`, `ClientControl_proofs` those of `ControlLoop`, `UdpForwarder_proofs` those of `UdpService` |
| `MC*` | instances for TLC: symmetry sets and small configurations | |

A module that is proved about beside another one has names of its own for the usual
parts: `LoopSpec`, `LoopNext`, `loopVars` (`ControlLoop`), `WatcherSpec` and so on
(`ConfigWatcher`), `RoutingSpec` and so on (`ProxyRouting`), `ServiceSpec` and so on
(`UdpService`).

`PROJECT.json` maps every definition to the lines it stands for. An operator named
`X_Something` that stands before `X` is a mutated form of `X`: the bug a careless
change could make there, which the property it is paired with must catch.

How state corresponds to code, where it is not by name:

* `TunnelHub.conn`, `rpc` and the other `pc` variables are the await points of a
  task. Code between two awaits is one action. A critical section without an await
  is one action with the acquisition of its lock. `lockq` is the lock's queue and
  `guards` the handlers that hold a read guard across awaits.
* `TunnelHub.slot` is the oneshot channel of a request; it holds the session the
  answer came from instead of the answer.
* `TunnelHub.mark` is what the handler told the health map.
* A dropped request handler (the visitor went away) is the action `Cancel`: hyper
  drops the future at any await point.
* `ControlChannels`: a session key is a digest of a fresh nonce and the token, so
  the connection stands for it; a version stands for the service's token.
* `TcpPool`: visitors are alike and channels are alike, so queues are numbers.
  `lost` counts the data channels the client fails to open.
* `ControlLoop.queue` holds bytes, `got` what `read_exact` has so far. A command is a
  little-endian `u32` (bincode's enum tag), so `CmdLen` is 4, the value in the code.
* `TunnelHub.process` is whether the hub runs. `Abort` is enabled where an `unwrap` can
  fail: a redis call (`main.rs:97`, `332`), a header that is not text (`main.rs:223`), a
  status that does not exist (`proxy.rs:436`), an id that does not fit a cookie
  (`proxy.rs:90`). `Exit` is the graceful shutdown, which waits for the requests and not for
  the sessions. Either leaves redis as it is; `left` are the ids whose `online` is of
  an earlier process. A `ControlChannels` server that aborts and a `ClientControl` client that
  aborts are at the end of their behaviour: nothing they keep outlives them.
* `ControlChannels`: dropping a handle only signals its task (`told`), which runs on until
  it polls; `replaced` are the connections whose handle was taken out of the map.
* `ClientControl.gaveUp` records the tasks that ended because a health update failed, which
  nobody starts again; `Relay.lost` the requests whose task in the client panicked. The
  properties name these exceptions.
* `UdpService`: a packet on the connection is its visitor; one write is one packet.
  `ctl` is the control channel, which ends when the pool drops `_data_ch_req_tx`.
* `ConfigWatcher.Files` are configurations as written, with tokens and intervals that
  may be missing; `Parse` is what `Config::from_str` makes of one, or `Invalid`.
* `Relay.lockq` is the queue of the `tunnels` mutex, its head the holder; a handler
  stays at the head until it is over. `HolderWaits` are its waits without a timeout, and
  `AwaitsRoom` the one for room in a channel.
* `HealthMap.now` is the clock in units; `StaleThreshold`, `Hysteresis`,
  `CriticalFailures` and `SuccessToNormal` are the constants of `proxy.rs`.

## 3. What the runs check

The modules treat sessions, requests, services, connections and visitors alike, so an
instance needs as many of each as its longest chain of waits, and channel capacities of
one make "full" as frequent as "empty".

| run | instance | shows |
|---|---|---|
| `hub` | 2 sessions, 2 ids, 2 requests on all three routes, capacities 1, aborts, exits and restarts | `ResponsesAreAccounted`: a waiting handler can be answered once, by the session it chose, and entries left behind come from three known exits; `DeadSenderIsCleaned`; `OnlineHasSession`; `MarkAgreesWithOutcome`; `CleanupNeedsEnded` |
| `hub_live` | 3 connections of which 1 may register, 1 id, capacities 1, one request with a cookie and one on the tunnel route, aborts and exits | `RequestsEnd`, `ClosedSendersLeave`: every request ends and closed senders leave, unless the outside keeps the request or a guard for ever, or redis is silent |
| `routing` | 2 visitors, 1 tunnel, thresholds 3 and 2, hysteresis 2, stale after 2, time to 5 | `MarksAreSpaced`: marks respect the hysteresis; `RecoveryIsSlow`: recovery needs successes and time; `OnlyReportRevives`: a tunnel that was found unhealthy and has no request left comes back by a report only |
| `critical_pick` | 2 tunnels, 1 visitor | expects a violation of `NeverPicksCritical`, which is what the test at `proxy.rs:816-819` asserts: see the finding below |
| `multi_map` | 3 x 3 keys, 2 values, 4 addresses | `NoWildAccess`: no dangling pointer is followed; `IndexesAgree`; `ImplementsTwoKeyMap` |
| `tcp_pool` | pool 2, visitor queue 1, channel queue 5, 4 visitors, 2 lost, 2 broken | `StockCoversVisitors`, `NoVisitorForgotten`; `ChannelSendNeverWaits` under the read lock; `VisitorsServed`; `DroppedServiceEnds` |
| `control` | 1 service, 3 connections, 2 versions, one of type http | `ServedUntilReplaced`: who was acknowledged is served until replaced and told; `StaleOnlyIfOvertaken`; `HandshakesEnd`: handshakes, reloads and the shutdown end unless a client holds up a write, and the accept loop goes on |
| `control_loop` | health period 2, timeouts 1 and 3, buffer 5, 2 commands of 4 bytes | `CommandsAreCounted` across split reads; `NoFalseAlarm`; `HealthTicksDisarmTimeout`: above the period there is no alarm at all; `LoopIsLeft` |
| `client` | 2 services, 3 tasks, 1 failure | `NoOrphans`; `SignalledTasksEnd`; `HandleIsServed` |
| `udp` | 1 visitor, 2 forwarders, queues and connection of 1 | `MappingIsOwn`; `PacketsAreHandled` and `PoolObeysShutdown` outside two standstills; `BrokenChannelHeals` |
| `config_watcher` | 84 files with either or both sides and one that does not parse, 2 services, 2 notices | `EventsCarryTheEdits`; `RuntimeOptionsAreSet`: what reaches the server or the client has the options they unwrap |
| `relay` | 2 sessions, 1 subdomain, 3 requests, channels of 1 | `RegistryIsTrue`; `SendFindsReceiver`; `RequestIsKept`; `NobodyStarves` unless a holder waits for ever; `RepliesArrive` although the lock is held |

Why these bounds.

* `hub`: two sessions are one that overtakes another of the same id; two requests fill a
  channel of one and queue at the lock behind a writer.
* `hub_live`: three connections end while the cleanup task waits for the lock, so that one
  notice is being handled, one is in the channel of one and one waits to be sent. Only one
  of them needs to register for that; a connection that never did ends with a notice as
  well. The two requests are the two ways to hold a guard; the third route holds none, and
  its locks, waits and timeout are those of a request with a cookie that missed
  (`StickyMiss`).
* `routing`: two visitors are one whose request is on its way to the tunnel and one whose
  cookie brings more; tunnels meet in `choose_best_tunnel` only, which `critical_pick` and the
  proofs cover. The clock runs past two hysteresis periods and two staleness periods.
* `control`: three connections of one service are one that runs and two handshakes that
  race for its place; services meet only at the lock.
* `control_loop`: one timeout on each side of the health period; the shipped pair, 40 s and
  10 s, is on the side of the larger one. `OwedCap` (3) bounds the commands the server is
  ahead by, more than the two that fit in the connection; `SilenceCap` (4) lies above both
  timeouts.
* `udp`: two forwarders are one that ends and its successor; with one visitor and every
  queue at one, all tasks of the UDP service still come to wait for each other (both
  standstills are reachable).
* `relay`: three requests are one that the session is sending, one that fills the channel
  and one that holds the mutex and waits for room. With two the last wait cannot happen
  for ever, and `NobodyStarves` would hold without its exception for it; with three, TLC
  refutes it when the exception is taken out.
* `config_watcher`: files differ in tokens, default tokens, intervals and services, the
  fields the validation looks at. `tcp_pool`: four visitors exceed the pool's stock and its
  queue together.

Where a bound is not an assumption of a theorem it does not limit what section 5 proves.

The finding. The test of `choose_best_tunnel` says "It should NEVER pick the Critical
tunnel" (`proxy.rs:816`) and asserts that nothing is chosen when only a Critical tunnel is
left (`proxy.rs:819`, "Should not pick a Critical tunnel"). The function sorts the candidates
and drops none, so it returns it (`proxy.rs:368`): TLC finds a tunnel that reported Critical
and is then picked. What holds is `PrefersNonCritical` (theorem `NonCriticalPreferred`), and
that `proxy_handler` looks at the health of the pick again (`proxy.rs:265`) and takes the
request to the cloud.

Type invariants are proved (section 5) rather than listed in the runs.
`HolderIsAlone`, `TransitionCoversMark`, `CriticalNeedsReport` (only a report ends
Critical) and `PrefersNonCritical` are proved as well and have no run of their own; so are
the properties that
the proof modules define (`LookupExcludes`, `InsertSucceeds`, `KeysAreUnique`,
`GuardKeepsSender`, `OnlyCancelUnblocks`, `OnlyBreaksEndGridlock`), which TLC confirmed
or which follow from what the runs check.

Deadlock is checked in `multi_map` only. Elsewhere the system may stop: sessions,
requests, tasks and connections are used once, so a behaviour in which all are
used up ends.

### What the properties make room for

Several properties are weaker than a reader of the docs might expect. The exception
in each is a behaviour of the code:

* `RequestsEnd` has two provisos. A request may itself be kept by the outside: by its
  visitor's body (`proxy.rs:392`, `478`), by the cloud's (`508`; only the first answer is under
  the timeout), by a client on `/tunnel/{id}`, which has no timeout (`main.rs:233`), or by a
  full channel whose session is stuck in its write (`proxy.rs:415`). And if it holds a read
  guard meanwhile (`main.rs:210`, `proxy.rs:232`), the cleanup task queues behind the guard and
  later requests behind the cleanup task, the ones that should fall back to the cloud
  included. The theorem `StuckUntilCancelled` says of the tunnel route that nothing but
  the end of that visitor, or of the process, ends this.
* `ClosedSendersLeave` has the second proviso too, and excepts a redis that never answers.
* `OnlineHasSession` excepts what an earlier process left. Neither an abort nor the
  graceful shutdown (`main.rs:352`) writes `offline`, and the next process does not ask;
  the status is put right when a client of the id registers again.
* `MarkAgreesWithOutcome` is about the tunnel, not the visitor. An answer that does not
  translate (an invalid header, `proxy.rs:439`) is a 500 to the visitor and a success to
  the health map, which was told first.
* `CleanupNeedsEnded` does not say whose session ended. The cleanup task removes by
  id (`main.rs:333`), so a client that reconnects before the cleanup of its old
  session loses its new registration. `DeadSenderIsCleaned` says nothing against that: it
  is about senders that are still in the map.
* `MarksAreSpaced` is about marks only. A report changes the status without regard
  to the hysteresis (`main.rs:142`), although `proxy.rs:71` calls it the "minimal time
  to wait between transitions".
* Failures counted while the hysteresis runs may take a tunnel from Normal to
  Critical at once (`proxy.rs:190`), and the first failure of a tunnel leaves its new
  entry Normal (`proxy.rs:198`), which the test at `proxy.rs:837` expects to be Warning.
* A failed request refreshes `last_update` (`proxy.rs:180`), so a tunnel whose client
  is silent is not stale while requests fail on it.
* `OnlyReportRevives` is about tunnels without requests. The test of `proxy.rs:265` is
  followed by the waits for the body, the responses lock and the channel (`415`), so a
  request may be sent to a tunnel that turned Critical or stale meanwhile, and its outcome
  counts. What it says has another side: the entry of a tunnel is never removed, so a
  client that sends no `HealthUpdate` is cut off once it has been idle for
  `STALE_THRESHOLD`, a new session under its id included.
* `choose_best_tunnel` does not look at staleness: a stale Normal tunnel is picked before a
  fresh Warning one, and the second test then takes the request to the cloud.
* The cookie `cloud` names no tunnel, so it does not keep a visitor at the cloud
  (`proxy.rs:263`), as section 6.5 of the README says it does.
* `StaleOnlyIfOvertaken`: a handshake that looked its service up before a reload
  serves what the reload removed (`server.rs:356`).
* `HealthTicksDisarmTimeout` says what the heartbeat test does not do. The sleep is made
  anew in each round of `select!` (`client.rs:521`), so with a timeout above the health
  interval, as shipped (40 s and 10 s), the tick always comes first: a server that falls
  silent is noticed by a failing read or write only, never by this test.
* `ServedUntilReplaced` lets a task that was told run on beside its successor: the drop of
  a handle is a signal.
* `LoopIsLeft` excepts a client whose buffer is full: the server never reads the
  health messages (`client.rs:499`).
* `CommandsAreCounted` excepts a read that a health tick cut (`client.rs:506`): its
  bytes are dropped, and the rest is taken for the beginning of the next command.
* `HandleIsServed` excepts a task whose health update failed (`run` returns Ok and is
  not retried, `client.rs:502`). It and `SignalledTasksEnd` have the proviso that no peer keeps
  a task waiting for ever: the handshake reads (`client.rs:432`, `451`) have no timeout, and
  neither they nor a blocked health update look at the shutdown signal. A websocket
  handshake the server refuses is a `todo!()` (`transport/websocket.rs:261`) and aborts the
  client.
* `HandshakesEnd` has the proviso that no client holds up a write for ever. The
  acknowledgement is written under the write lock of the control channels (`server.rs:347`),
  the refusal under the read lock of the services (`server.rs:305`), and a reload that waits
  for either keeps the accept loop. The abort of the server by a service of type
  http (`todo!()`, `server.rs:465`) counts as an end.
* `PacketsAreHandled` and `PoolObeysShutdown` except two standstills. `Wedged`: a
  forwarder asks for the writer lock between the loop's two read locks, or while the
  loop holds one and waits for room in that forwarder's queue (`client.rs:333`).
  `Gridlock`: the pool writes to the client and does not read (`server.rs:699`), and
  every queue on the way round is full. Neither is passing: a wedged client stays
  wedged (`WedgedIsForGood`), and a gridlock ends with the connection only, the
  shutdown signal included (`GridlockNeedsBreak`).
* `NobodyStarves` excepts a relay handler that waits for ever with the mutex: the guard of
  `relay/src/main.rs:127` lives across its waits for the body, for room in the channel
  (`175`), for the answer and for the fallback. The wait for room is a standstill when the
  session has left its loop: it waits for the same mutex (`107`), with its receiver alive,
  and only the visitor's going away ends it.
* `RequestIsKept` excepts a request whose task in the client panicked
  (`client/src/main.rs:89-106`): the link stays up and nobody answers.
* `RepliesArrive` excepts a session that writes to its client for ever: it does not read
  meanwhile.
* `RegistryIsTrue` lets a session be unreachable once another one of its subdomain
  ended, which removes by name (`relay/src/main.rs:107`).
* `SendFindsReceiver`: the guard keeps a session's receiver alive, so the test for a
  closed channel does not send the requests of a client that left to the fallback.
* `MappingIsOwn` allows a mapping that a failed forwarder left (`client.rs:376`).
* `run` (`lib.rs:89`) reads none of the watcher's events: the properties of
  `ConfigWatcher` are about what a consumer would be told.

## 4. Fairness

In all of them tokio polls every task that can run, timers fire, and locks and queues are
served in order. What depends on a peer is not fair unless the list says so.

* `TunnelHub.FairSpec`: the hub's own steps only. Not assumed: that a client connects,
  reads what is written to it (`SocketSent`, `BreakLoop`) or answers, that a visitor sends
  its body or gives up, that the cloud or redis answers, that the process lives or starts
  again.
* `TcpPool.FairSpec`: tasks are polled, and the client acts on a command (opens the
  channel or fails to). At most `MaxLost` channels get lost, and the pool's stock
  makes up for them; `MaxLost` does not exceed `PoolSize`.
* `ControlChannels.FairSpec`: a task that can have the lock takes it, and the transport's
  handshake is ended by its timer (`TransportTimeout`). Not assumed: that a client completes
  a handshake, or reads its acknowledgement or its refusal.
* `ControlLoop.FairLoopSpec`: the task is polled and time passes. `SF` on `Shutdown` is
  tokio's `select!`, which begins with a random branch; so a branch that is ready
  again and again is taken.
* `ClientControl.Spec`: backoff ends, the signal is seen in the loop, and a connection that
  the server has closed is noticed, by the read or by the next health update. Not assumed:
  that a connection or a handshake comes to an end.
* `UdpService.FairServiceSpec`: every task that can go on does, with `SF` on the
  branches of the pool's and the forwarder's `select!`, and on the send to the
  outbound queue, because an mpsc queue serves its waiting senders in order. Packets,
  timeouts, breaks and reloads are not assumed.
* `Relay.FairSpec`: the relay's tasks are polled, with `SF` on the branch of `select!`
  that reads responses. Visitors, clients (what is written to them included), their
  targets and the fallback may be silent for ever.

The other modules have no liveness property and no fairness.

## 5. What is proved

TLAPS proves these for all values of the constants that satisfy the named
assumptions: capacities and periods positive, null values outside their sets; for
`TcpPool` that the channel queue holds `PoolSize + VisitorCap + 2`, as 4096 does for
8 + 2048; for `ControlLoop` that the count of the silence stops above the timeouts
(`LoopAssumption`); for `ConfigWatcher` that a file's sides are records of
settings and services over one set of names, and that a client's retry interval is
never missing, because `config.rs` gives it a default (`FilesAssumption`). Every
invariant and every action property of the runs is proved.

| module | inductive invariant | theorems |
|---|---|---|
| `TunnelHub_proofs` | `HubInv`: types, `GivenBooks` (what a handler at each point has been given: its session and route), `EntryBooks` (when a request may be in `responses`, in a channel, on a wire or in a slot), `SenderBooks` (what stands behind a registered sender and an `online` status, an earlier process included); beside it `NoticeIsTrue`, `GuardKeepsSender`, `LookupWaits` | `TypeCorrect`, `WaitersCanBeAnswered`, `AnswersComeFromTarget`, `LeaksAreKnown` and together `ResponsesAccounted`, `MarksAreTrue`, `DeadSendersAreCleaned`, `OnlineIsBacked`, `RemovalsFollowEnds`, `GuardsKeepSenders`, `StuckUntilCancelled` |
| `TunnelHealth_proofs` | types, and `TransitionCoversMark` | `TypeCorrect`, `ClockCoversMarks`, and the action properties `HysteresisHolds`, `OnlyReportsRestore`, `RecoveryTakesTime` |
| the same, `ProxyRouting` | `Routed`: types, and a request that was given a tunnel has one | `RoutingImplementsHealth` (every behaviour of `ProxyRouting` is one of `TunnelHealth`), from it `RoutedMarksAreSpaced`, `RoutedRecoveryIsSlow`; `RoutingTypeCorrect`, and the action properties `CutOffUntilReport`, `NonCriticalPreferred` |
| `TcpPool_proofs` | the balance of requests, channels, visitors and losses | `TypeCorrect`, `BooksBalance`, `VisitorsAreKept`, `ChannelsFit` |
| `ControlChannels_proofs` | `ChannelInv`: types, what a handle, a handshake at the lock and a task that was told have behind them, a fresh handshake's configuration is current | `TypeCorrect`, `AcknowledgedAreServed`, `HoldersAreAlone`, `OnlyOvertakenAreStale`, `InsertsSucceed`, the refinement `HandlesAreTwoKeyMap`, and from it `HandleKeysAreUnique` |
| the same, `ConfigWatcher` | `WatcherInv`: the consumer of the events is where the watcher is, and with no notice pending that is where the file is | `EventsCarried`, `OptionsAreSet` |
| `ClientControl_proofs` | handles, tasks and signals agree | `TypeCorrect`, `TasksAreHeld` |
| the same, `ControlLoop` | `LoopTypes` with `SleepInv` and `TickInv` (how the sleep is related to the silence and to the tick) and `CountInv` (the bytes read and under way are whole commands) | `LoopTypeCorrect`, `AlarmsAreTrue`, `TimeoutIsDisarmed`, `CommandsCounted` |
| `MultiMap_proofs` | `MapInv`: which of the two maps leads to each box at each point of each operation | `TypeCorrect`, `UnsafeIsSound`, `MapsAgree`, and the refinement `Implements` |
| `UdpForwarder_proofs` | port map, owners and guards agree; for the service, `WireOK`: the connection carries visitors' packets; `MainWaits` | `TypeCorrect`, `MappingsAreOwn`, `ServiceRunsForwarder` (every behaviour of `UdpService` is one of `UdpForwarder`), from it `ServiceMappingsAreOwn`, and about the standstills `WedgedIsForGood`, `GridlockNeedsBreak` |
| `Relay_proofs` | `RelayInv`: types, the run's three invariants and `RelayBooks` (ids are known; a handler that found its tunnel is at the head of the lock's queue until its end; what a session has was sent to it; a waiting handler's entry is in `pending`; links fit their sessions) | `TypeCorrect`, `RegistryTrue`, `ReceiversFound`, `RequestsKept`, `LockKeptAcrossWaits` |

Why the strengthenings are needed.

* `WaitingHasSource` is not inductive alone: a session may deliver an answer for any
  request on its wire, so one must know that a request on a wire or in a channel was
  put there by a handler that inserted its sender first, and which session it chose
  (`EntryBooks`, `GivenBooks`). `DeadSenderIsCleaned` must follow a session through
  the cleanup channel (`SenderBooks`).
* `OnlyCancelUnblocks` needs that nobody else can deliver the answer (`GivenBooks`),
  and that a handler in its lookup is in the queue (`LookupWaits`): taking out one that
  gives up must leave the writer at the head.
* `StockCoversVisitors` counts every place a request for a channel can be.
* `ServedUntilReplaced` depends on the write lock: between the removal of the old handle
  and the insertion of the new one no other handshake may touch the map. The same
  facts show that the insertion is never refused, whose answer the code discards
  (`server.rs`, `do_control_channel_handshake`), and that each drop is one removal of
  the abstract map.
* `EventsCarryTheEdits` rests on one lemma about `calculate_events` (`EventsCarry`):
  for any two configurations, either a general change carries the new one whole, or
  the additions and deletions per side do. Who applies them is therefore where the
  watcher is, whatever was edited in between.
* `NoFalseAlarm`: the sleep begins anew in each round, so it is never older than the
  silence (`SleepInv`). `HealthTicksDisarmTimeout`: nor is it older than the time since the
  last tick (`TickInv`), which is at most the period.
* `OnlyReportRevives` needs that a request on its way has its tunnel (`Routed`), that a
  status does not get better and an entry not younger without a mark or a report, and
  that marks come from requests on their way.
* `CommandsAreCounted` speaks of the commands, the code reads bytes. `CountInv` says
  that what `read_exact` has and what is under way together are commands of `CmdLen`
  bytes, the first byte of each telling its kind; arithmetic lemmas say how taking a
  command off the front and adding one at the back move the beginnings.
* `IndexesAgree` speaks of the moments between operations; `MapInv` follows a box
  through them, and the refinement maps the abstract items to the boxes no operation
  is working on: an insert takes effect when its second index is written, a removal
  when its first one is cleared.
* `SendFindsReceiver` holds because a session deregisters before it returns and needs
  the mutex for it, which the handler has (`FoundHolds`).
* `ServiceRunsForwarder` needs `WireOK` because the client reads what is on the
  connection, and `UdpForwarder` lets it read packets of visitors only.

The inductive invariants were checked with TLC on the run's instance first, and so was
that the states `HubStuck`, `Wedged` and `Gridlock` are reachable.

Only model-checked: everything about fairness (`RequestsEnd`, `ClosedSendersLeave`,
`VisitorsServed`, `DroppedServiceEnds`, `HandshakesEnd`, `LoopIsLeft`,
`SignalledTasksEnd`, `HandleIsServed`, `PacketsAreHandled`, `PoolObeysShutdown`,
`BrokenChannelHeals`, `NobodyStarves`, `RepliesArrive`), which is out of the prover's
reach.

## 6. Abstractions and what is not modelled

* The tunnel route prints the map's keys under a brief read lock of its own before
  it looks the tunnel up; this extra lock is left out.
* In `TunnelHub` a lookup may take or reject any registered tunnel: the health test
  is the subject of `TunnelHealth` and `ProxyRouting`.
* `error_rate` and latency order the candidates of equal status; any of them may
  come first in `ProxyRouting`. `hardware.rs` computes a report's status from
  floats; here a report carries any status.
* The "ws response handler dropped" arm of `forward_via_tunnel` has no action: the
  invariant `WaitingHasSource` says it is not reached.
* `ControlLoop`'s time passes only when the task is idle.
* Of a configuration file only the fields the validation reads or fills in are
  modelled; a file that TOML does not parse is `Broken`.
* `run` in `lib.rs` starts the watcher but never reads its events, so the forwarding
  that a reload needs does not exist and is not modelled.
* Messages are whole, except control commands, whose reads may be cancelled. Of UDP
  traffic only the first byte is read in a `select!` branch's condition
  (`server.rs:704`), and a read of one byte is not cut.

Not modelled, and why:

* The hub's login route: it makes a token and touches no state the properties speak of.
  Whether a client has a valid one is the constant `Trusted`.
* Between the signal and its `Exit` the hub still takes requests in the model; axum takes no
  new connection then, so the code has fewer behaviours there.
* The loop of `rathole/src/bin/client.rs`: the hub must hold against any client, so
  `TunnelHub` lets its client answer, stay silent or leave at any time.
* Socket options, TLS, noise and websocket framing, argument parsing, the layout of
  messages: conversions and I/O of libraries, without state of their own.
* `hardware.rs`: floating-point percentages of the client's numbers.

## 7. Plan

Done: the hub with the end and the restart of its process, the health map, routing, the map and its
refinement, control channels with the accept loop, the TCP pool, the client's tasks
and loop with split reads, both halves of the UDP service, the configuration and its
watcher, the relay; proofs of every invariant and action property of the runs.

Next, in this order:

1. The safety half of what is only model-checked: that a holder of the server's write lock
   is at a point it leaves by itself or by a failure, that the relay's standstill at a
   full channel ends with its visitor only, and that a service's drop leaves no task of the
   TCP pool at a wait nobody ends.
2. An abstract specification of a request (accepted, forwarded once, answered once or
   failed) that both `TunnelHub` and `Relay` implement.
3. The extra read lock of the tunnel route.
