# A formal model of wujie

wujie is a proxy client. A Flutter application (`lib/`) drives a Go core
(`core/`: a bridge in the repository's own files around the vendored kernel
`core/Clash.Meta`). On a desktop the core is a child process that connects back
to a socket of the client, on Windows optionally spawned by a helper service
written in Rust (`services/helper`); on Android it is a shared library called
through JNI, and the VPN is a TUN device handed over from Kotlin. On top sits an
XBoard panel client (`lib/xboard`) with, among others, a support chat over a web
socket.

This directory holds TLA+ modules for the parts whose correctness depends on the
order in which things happen, TLC configurations that check them on small
instances, and TLAPS proofs that the same properties hold for every size.

Paths below are relative to the root of the repository.

## Inventory

### Android TUN bridge — `core/lib_android.go`, `component/dialer/socket_hook.go`

- *State*: the globals `tunHandler`, `runTime`, `tunLock`,
  `dialer.DefaultSocketHook`; in each `TunHandler` the listener, the Java
  callback and a weighted semaphore `limit`.
- *Operations*: `startTUN`, `stopTun` (a goroutine each), and the dial hook, which
  every socket of the kernel runs and which calls back into Java.
- *Interaction*: dials read the globals without `tunLock`; only the semaphore
  (one unit per dial, all four for `close`) keeps them from a freed callback.
- *Hard*: the two critical sections of a start; `close` waiting under a lock for
  dials that are in Java; a global read twice.
- *Correct when*: no callback is used after it is released or released twice; a
  stop is a stop; nothing deadlocks.

### Android services and plugins — `GlobalState.kt`, `VpnPlugin.kt`, `MainActivity.kt`

- *State*: `runState`, two Flutter engines, the binding of the VPN service, the
  options of the last start.
- *Operations*: start and stop from the tile, the interface and the quick start;
  the callbacks of the binding, of the permission dialog and of the status question.
- *Interaction*: requests travel through Dart and may be lost with an engine; each
  start and stop ends in a goroutine of the TUN bridge.
- *Hard*: everything but the Kotlin code itself is asynchronous; no call checks
  that what it started has happened.
- *Correct when*: the run state agrees with the core, a stop is not undone by
  what comes late, no state is without a way out.

### Core bridge — `core/hub.go`, `common.go`, `action.go`, `listener/listener.go`

- *State*: `isInit`, `isRunning`, `currentConfig`, `runLock`, `logSubscriber`, the
  listener globals of the kernel and the sockets behind them.
- *Operations*: one handler per method of the client, a goroutine each.
- *Interaction*: most handlers hold `runLock`; `handleShutdown`, the TUN bridge and
  the two handlers of the log do not; `handleChangeProxy` hands the lock to a
  goroutine; whoever logs waits for the observable of the log.
- *Hard*: nil configurations before and during a setup, half-bound listeners,
  the shutdown beside another listener loop, two requests for the log at once.
- *Correct when*: ports are open exactly while running and as configured, no open
  socket is forgotten, the applied configuration is the reported one, each
  request is answered, and nothing panics outside known windows.

### Core launcher and helper — `lib/clash/service.dart`, `services/helper/src/service/hub.rs`

- *State*: in Dart `isStarting`, `process`, `socketCompleter`; in Rust the
  `PROCESS` mutex; the core processes and their connections.
- *Operations*: `reStart`, `shutdown`, the accept loop; `/start`, `/stop`.
- *Interaction*: HTTP with a two-second time-out, a socket, child processes.
- *Hard*: every `await` is a point of interleaving; the helper goes on after the
  client gave up; the helper gives its lock back between stop and spawn; closing the
  socket of a dead core throws.
- *Correct when*: a core that runs is known to whoever started it, restarts are
  not refused for nothing, and messages go to a live core.

### Requests of the client — `lib/clash/interface.dart`, `common/future.dart`

- *State*: `callbackCompleterMap`; per request a completer and two timers.
- *Operations*: `invoke`, `sendMessage`, `handleResult`, the timers.
- *Interaction*: a message awaits the launcher's `socketCompleter`.
- *Hard*: the completer awaited may be replaced, the answer may come before,
  between or after the timers.
- *Correct when*: a request sent in peace reaches the core, and while its caller
  waits its completer is there.

### Fake-IP pool — `component/fakeip/pool.go`, `cachefile.go`, `memory.go`

- *State*: offset and cycle in memory, the two directions of the mapping in a
  bbolt bucket (or two LRU lists), saved offset and cycle.
- *Operations*: `Lookup`, `LookBack`, `FlushFakeIP`, `StoreState`, `restoreState`;
  `CloneFrom` at a reload.
- *Interaction*: DNS answers and connections hold the mutex; the REST interface
  flushes and a new configuration clones without it.
- *Hard*: two records in two transactions, flush without the mutex, a place saved
  only at shutdown, crash and restart, wrap-around; two LRU lists that nothing
  links but the order of calls.
- *Correct when*: an answer maps back to its host, hosts do not share addresses,
  the address reused is the oldest.

### Provider — `component/resource/fetcher.go`, `vehicle.go`, `adapter/provider/provider.go`

- *State*: the file, its hash, the ETag in the cache file, proxies and version; in
  each group a cache of the proxies under a version.
- *Operations*: the pull loop, an update the client asks for, a push
  (`SideUpdate`), the start of the process; `GetProxies` at every dial.
- *Hard*: contents are read outside the mutex and installed under it; the ETag is
  stored before its contents have been looked at; the version is read unlocked.
- *Correct when*: a group never keeps old proxies under the current version, the
  file has what is installed, and what the server has arrives.

### Support chat connection — `online_support/services/websocket_service.dart`

- *State*: `_channel`, `_isConnected`, `_isDisposed`, two timers.
- *Operations*: `connect`, `_disconnect`, `_reconnect`, `dispose`, channel events.
- *Hard*: awaits inside `connect` and `_disconnect`, late events of old channels.
- *Correct when*: there is always a way back to a connection, one channel at a
  time, and login state and connection follow one another.

## Modules

| Module | Models | Proofs | Runs |
|---|---|---|---|
| `TunDevice` | what the TUN bridge promises the kernel and Java: the abstract specification | | |
| `TunSwitch` | what startTUN and stopTun promise the client: the abstract specification | | |
| `TunHandler` | TUN bridge with the dial hook and the semaphore; implements `TunDevice` and `TunSwitch` | `TunHandlerProofs` | `tun_safety`, `tun_live`, `tun_hook` |
| `VpnState` | Kotlin's run state above `TunSwitch`, the two engines, binding and permission | `VpnStateProofs` | `vpn` |
| `LogSubscriber` | the two log requests and the observable of the log | | |
| `CoreBridge` | request handlers composed with the mixed listener and `LogSubscriber` | `CoreBridgeProofs` | `core`, `core_ports` |
| `CoreLauncher` | ClashService composed with the helper and the cores | `ClientInvokeProofs` | |
| `ClientInvoke` | requests and answers, composed with `CoreLauncher` | `ClientInvokeProofs` | `client` |
| `FakeIP` | what a pool promises, whatever its store: the abstract specification | | |
| `FakeIPPool` | pool, bucket, crash and restart; implements `FakeIP` | `FakeIPPoolProofs` | `fakeip` |
| `FakeIPMemory` | pool, two LRU lists, reload; implements `FakeIP` | `FakeIPMemoryProofs` | `fakeip_memory` |
| `Provider` | fetcher, HTTP vehicle, ETag, provider and the cache of a group | `ProviderProofs` | `provider` |
| `SupportWebSocket` | chat connection with the auto connector | `SupportWebSocketProofs` | `websocket`, `websocket_logout` |

`MC<module>` adds the symmetry set a run uses. In every module an operator
commented as a *faulty variant* stands beside the operator it could be confused
with: a run under which it is substituted must fail, which shows that the
property is about the code and not about the shape of the model. `Next` never
uses one.

### TunHandler

A thread has a program counter; a start or stop is an element of `Ops`, a
goroutine that dials one of `Dialers`. A `TunHandler` object, and the callback in
it, bears the name of the start that creates it. `StopLock` … `StopUnlock` are
`handleStopTun` with `close()` inside (`CloseAcquire`, `CloseHook`, `CloseFree`),
`StartLock` … `StartUnlock` are the second critical section of
`handleStartTun`. `Dial` and `CallHook` are the test of `DefaultSocketHook` in
`dialer.go` and its later use in `socket_hook.go`; `Resolve` is the resolver of
`process.go`, which keeps a local. `LoadHandler` is the read of the global in
the closure and `DialAcquire` … `DialReturn` are `handleProtect` and
`handleResolveProcess`; `CallHook` may also refuse the connection at once, as the hook does when
`ShouldBlockConnection` says so. `Acquire` and `Release` are those of
`golang.org/x/sync/semaphore`, FIFO queue included. `released` and `seen` are
history. A nil call panics, and nothing runs after that.

`TunDevice` says the same without locks, semaphore and hook: a start installs a
device with a callback, the device may go up, and once, when no dial is inside the
callback, it is closed for good; dials enter only a device that is up. A handler is
"up" while it has listener and callback, "closed" when the callback was released,
and a dial is inside from `DialUse` to `DialReturn`. Closing a handler a second time
is invisible.

`TunSwitch` says what the client can rely on: goroutines of several kinds are under
way, one that has run leaves the run time as its kind wants it, and a start passes
through a moment without one. A stop counts as under way until it has set the run time
to nil, a start until it has set it; the run time bears the name of the start that set
it.

### VpnState

The goroutines and the run time are those of `TunSwitch`: `StartStops` and `RunGo` are
its steps, so what `TunHandler` is proved to implement is what the run state is
checked against.

One event of the main thread is one step. All Kotlin code runs there, so its
`runLock`, a reentrant lock that `handleStart` and `handleStop` never give back,
excludes nothing and is left out. What interleaves is what the code waits for:
`requests` are the calls of `VpnPlugin` on their way through Dart (`Deliver`,
`QuickStart`, `ServiceStops`), `connecting` the bindings whose
`onServiceConnected` is to come, `asking` the permission dialog, `status` the
question of `syncStatus`, and `goOps` the goroutines of `startTUN` and `stopTun`,
whose inside is `TunHandler`; of a start the moment is kept in which its own `handleStopTun` has cleared the run time
(`StartStops`), for `getRunTime` reads it without a lock. The services live
in the process of the application, so that `onServiceDisconnected` never comes and
bindings connect in order. The `exit(0)` after `vpn.stop` in the service isolate
never runs: `handleTryDestroy` destroys the engine of its own caller
(`ServiceStops`); it does run when there was nothing to stop.
`ServiceCreated` is `FlClashVpnService.onCreate`, which makes a service engine where a
stop or an interface has destroyed the one before; without an interface that engine
starts the VPN by itself. The model lets it happen at any time while a binding waits,
and again when the engine goes once more, which is more than Android does.

The Android client has no transaction over these steps, and a run state that lies
is easily reached. `odd` records what has gone wrong and is not yet repaired:
`drift` (the run state was set from an old answer, or to STOP by the end of the
activity), `raced` (goroutines of a start and a stop were under way together),
`rejected` (Android refused the device), `lost` (a stop came while a start waited
for a binding or the permission), `ignored` (a request reached nobody, or
`bindService` was refused, whose result nobody looks at). Each
property says which of these it cannot exclude; each is needed, TLC finds a
counterexample without it.

### LogSubscriber and CoreBridge

A request is one goroutine. A configuration is represented by the address it gives
the mixed port, a TCP and an UDP socket, which stands for all ports. The other
kinds are created and stopped in the same places. Where only UDP cannot be
bound, mixed and socks close the TCP half, socks without naming either; redir and
tproxy keep TCP alone, so `NoSocketLeaks`, which says that both halves are served or
none, is about the first two and `ReportedPortIsOpen` about mixed. `known` is the pair of globals `mixedListener` and
`mixedUDPLister`, `bound` the sockets really open. `Compare`, `BindTCP`,
`BindUDP`, `LogMixed` are `ReCreateMixed`; `TestListener`, `CloseListener`,
`ForgetListener` are `StopListener`, which takes no lock and reads the global
three times. `Compare` is one step although the code closes and clears each
listener in two; a shutdown in between could only add a panic of the sort
`PanicsOnlyThen` already allows under `raced`. `raced` records that
`handleShutdown` ran beside another listener loop, `lapsed` that the last loop but
for a stop's was a shutdown's or could not bind. So `PortsFollowConfig` has two
directions: what is open is so in a running core and at the current address, and a
running core with a port to open has it open, unless `lapsed`.

`partial` is the set of requests whose parameters leave a field out: `updateConfig`
and `handleChangeProxy` decode into structs of pointers and dereference them untested
(`common.go:228-232`, `hub.go:110-111`). The client of this repository always sends
those fields (`lib/models/core.dart`, `lib/models/clash_config.dart`); the handlers
do not rely on anything else. `RejectUpdate` answers what cannot be decoded.
`DecodeProxy`, `FindGroup`, `SelectProxy` are the goroutine of `handleChangeProxy`,
one step for each of its ways out, all of which must give `runLock` back.
`PanicsOnlyThen` is complete for the requests modelled; the type assertions on
`action.Data` in `action.go`, which panic before any handler runs, are not.

`LogSubscriber` has `handleStartLog` and `handleStopLog` (`LogTest` … `Store`), the
goroutine a start leaves behind, which reads the global only when it first runs
(`Range`), and the observable: `process()` holds its mutex while it hands a line to
every subscription (`LineBlocks`, `LineEmitted`). Two overlapping requests may
leave a subscription that nobody reads. When its buffer of 200 lines is full,
`process()` waits for ever with the mutex held, and every handler that logs waits
with it, some with `runLock`: `RequestsAnswered` excepts `logRaced`, and without
the exception TLC shows just that.

### CoreLauncher and ClientInvoke

`link` is the socket of the completer now in the field (`None` while it is not
completed): `reStart` and `_destroySocket` replace it, the accept loop replaces
and completes it. Each `await` ends an action,
that of `Process.start` too: between `Spawn`, where the core is born, and
`SpawnReturns`, where it becomes `process`, only the waiting reStart knows it
(`child`). A shutdown in between finds the field empty; `missed` records a shutdown
that killed `process` while a reStart was under way. `stopReq` and `startReq` are the
HTTP requests as the helper sees them; the client may give up at any moment while
the request goes on. The helper's `start` has two steps, for it gives its mutex
back in between. A core process may start, connect or die at any time. `close()` on
the socket of a dead core may throw: in a call that ends the call (`CloseThrows`),
in the accept loop it ends the loop (`AcceptDies`). `kill` is immediate.

`ClientInvoke` adds requests. A message awaits the completer of the moment it was
sent: it is written when the accept loop completes that one (`Linked`), and
stranded when the field is given another (`Replace`, `Destroyed`). `TimeOut` and
`Forget` are the two timers of `safeFuture`. `calm` is history: the requests sent
while nothing could replace the completer, as long as no reStart or shutdown has begun
since. `QuietMessagesArrive` says of them that they are neither stranded nor written
to a closed socket, and that while one waits every connected core with an open socket is
one the accept loop has yet to take: the next it takes gets the message. A core need
not connect, so that nothing is said of when; an exception of `_destroySocket`, an
accept loop that has ended, a `/stop` on its way and a core the helper has lost are
excepted where they matter. That the composition implements
`CoreLauncher` is a theorem (`Implements`), so the properties of the launcher are
checked and proved in it.

### FakeIPPool

`byHost` and `byIP` are the two kinds of records in the bucket, each written in a
step of its own. A lookup holds `mux`; `FlushStore`/`FlushPlace` and
`StoreOffset`/`StoreCycle` do not and interleave with it. `Restart` kills the
process between any two steps and runs `New` with `restoreState`, which flushes the
bucket when the saved offset lies outside the range of a profile that has been changed.
A new range in which the saved offset still lies, or with no saved offset, is left out:
the range is constant but for that flush. `order`,
`stale`, `torn` and `raced` are history: `order` lists the addresses, the one
handed out longest ago first.

### FakeIP and FakeIPMemory

`FakeIP` knows only `mapping`, the pairs of host and address in force. A step
forgets pairs or adds one for a host that had none, taking its address from
whoever had it. Both pools map their host-to-address direction to it (`Answers`),
and both may declare the promise `void` when an operation that takes no mutex has
overlapped one that does.

In `FakeIPMemory` a list is a sequence of pairs, the oldest first; `Touch`, `Set`
and `Delete` are the operations of `LruCache`, each under the mutex of the list and
so one step. A query is several of them: `LookupHit`, `TouchHost` are
`GetByHost`; `LookBack`, `TouchIP` are `GetByIP`; `LookupMiss` … `PutByHost` are
`get` with `DelByIP` in three steps and `PutByHost`. `FlushIP`, `FlushHost`,
`FlushPlace` are `FlushFakeIP`; `CloneIP`, `CloneHost`, `Switch` are `PatchFrom`
and the switch to the new pool in `updateDNS`, whose offset begins anew.

`Overlap` says which meetings of them break the promise: a host that is given an
address beside a flush or a reload, a query between the two copies, a flush beside a
reload. Without any of the three TLC finds a counterexample to `Consistent` or to
`ImplementsFakeIP`. The model ends there, for the lists may then hold
anything; hits and look-backs beside a flush, and queries that only read after
the copies, are harmless, and the run shows it.

### Provider

`Ask`, `ReadFails`, `NotModified`, `Answered`, `Fetched` are `HTTPVehicle.Read`, which
reads hash and ETag when it begins, gets the answer, and stores the new ETag when the
body is read to its end; it may fail before either.
`Load` … `Bump` are `loadBuf` under its mutex, with a write that may fail or tear
the file. `ReadVersion` and `GetProxies` are a dial through a group. `Restart` ends
the process at any step and runs `Initial`. Contents stand for their hash. `Payload` is the
list of proxies in the profile a provider begins with, or `None` without one: it is
installed as long as nothing has been loaded (`Installed`).

The group reads version and proxies without a lock of the provider. The model lets
it see the two stores of `setProxies` in the order they are made, which amd64
guarantees; on arm64 the unlocked reads are a data race whose outcomes Go does not
limit, and `CacheIsCurrent` says nothing about it.

### SupportWebSocket

A channel bears the name of the call of `connect` that opens it. `Login` and
`Logout` are the auto connector. `_disconnect` is `BeginDisconnect`, up to its
`await sink.close()`, and `EndDisconnect`, after it. The events of a channel may come
at any time, also after the client closed it, which is more than the library
does. `_reconnectAttempts` only sets the delay and is left out.
`sink.close()` is taken not to throw, which is so in `web_socket_channel` 3.0.3, the
version `pubspec.lock` names. Were it to throw, `_disconnect` would end before
`_channel = null` and `_reconnect()`, and an ended channel would leave nothing behind
that connects again: `NeverStranded` rests on this assumption.

## Runs

| Run | Instance | Shows |
|---|---|---|
| `tun_safety` | 3 operations, 3 dials, weight 2, symmetry | refinement of `TunDevice` and `TunSwitch`, no use after release, hook backed by a handler, stopped means closed, a device is orphaned only by overlapping starts |
| `tun_live` | 2 operations, 2 dials, weight 2, no symmetry | each operation finishes, each dial returns |
| `tun_hook` | 2 operations, 1 dial, weight 4 | violation: the hook found set is nil when called |
| `vpn` | no constants: every state of the model | the run state agrees with the core, a stop sticks, no limbo, the service fits the mode |
| `core` | 3 requests of any kind, 2 addresses and the default, no symmetry | ports are open when and only when they should be, no leaked socket, applied equals reported, what panics of the requests modelled, somebody reads the log, each request is answered |
| `core_ports` | 2 requests, 1 address | violation: a closed listener is reported |
| `client` | 3 calls, 2 cores, 1 request, Windows, symmetry | who owns a running core, when restarts stay refused, where messages go and which of them are sure to be written |
| `fakeip` | 4 hosts, 2 lookups, 3 addresses, symmetry | answers map back, one address per host, oldest reused first, refinement of `FakeIP` |
| `fakeip_memory` | 5 hosts, 2 queries, 4 addresses, lists of 3, symmetry | the lists stay mirror images, no list outgrows its size, refinement of `FakeIP` |
| `provider` | the pull loop, one update, one push, one dial; 2 good contents, a bad one and a payload | no old list under a new version, the file follows, contents arrive |
| `websocket` | 5 connects, symmetry | never stranded, one channel at a time |
| `websocket_logout` | 2 connects | violation: the channel stays open after logout |

### Bounds, and why they are enough

- *TUN*: with weight 2, two dials exhaust the semaphore and a third queues behind a
  waiting `close`, the case the FIFO rule is for; the weight of the code, 4, needs
  five dials for the same situations and adds no new one. Three operations allow a
  start between the two halves of another with a stop besides.
- *VPN*: none. `requests` and `goOps` hold kinds: a second request of a kind is as good
  as one made later, and any number of goroutines of a kind may run before the kind
  is gone. The state space of the model is finite and TLC visits all of it.
- *Core*: a setup, a start, and a third request that races either (shutdown, TUN
  start, update or a request for the log). Two addresses besides the default tell
  changed from unchanged. A request runs once.
- *Client*: two calls that overlap, and one before them that has left a process
  behind; two cores, so that one may be lost. Four cores can be spawned by three
  calls: that instance is too large for a run in minutes, but the invariant was
  checked on it in part, and it showed that `LinkedWhenQuiet` must except `overlap`
  (a core the helper has lost connects last). The proofs have no such bound. The run
  is for Windows, whose behaviours include those of the other platforms except that
  `shutdown` always asks the helper first.
- *Fake-IP*: three addresses for four hosts make the pool wrap around and reuse; two
  lookups contend for the mutex. Offsets and records are the whole state, so the
  number of lookups, flushes, stores and crashes is not bounded. In memory, lists of
  three evict before the four addresses wrap around, and after a reload addresses
  still in use are met again; the fifth host finds every address taken.
- *Provider*: `MaxChanges` = 1 change on the server and `MaxRestarts` = 1 restart: an
  old answer and a newer one, before and after a restart. The pull loop runs for
  ever.
- *Chat*: a login and four reconnects: an error and the end of one channel with a
  connect in flight for each, and one after that.

What is proved (next section) does not rest on these bounds.

`CHECK_DEADLOCK FALSE` is said where the environment may stop: all calls made, all
requests sent, all connects used.

### Fairness

`TunHandler.FairSpec` and `CoreBridge.FairSpec` make a goroutine that has begun
weakly fair: the Go scheduler is preemptive, and `sync.Mutex` hands over to a
waiter that has starved for a millisecond. What users, Kotlin and the kernel
*begin* is never fair. Calls into Java and binds return. `Provider.FairSpec` adds
that the timer of the pull loop fires, that a request ends, and, strongly fair,
that a server asked again and again answers some day, a body read again and again is
some day read to its end, and a file written again and again is some day written; no other goroutine need ever succeed.

Nothing is assumed of the support chat: `sink.close()` of a channel that never
connected may not complete, so that no liveness property could be justified, and
the safety property `NeverStranded` says instead that something is always pending. In
the launcher a core need not connect, and in `VpnState` the user, the dialog and
the system need not answer; their properties are about what is known, or about the
moment when nothing is on its way.

## What is proved

All theorems hold for any finite or infinite sets given as constants, under the
assumptions named in the modules, which only say that the constants are apart, that
nil is none of them, and that sizes are positive: `LimitAssumption`,
`ThreadAssumption`, `PoolAssumption`, `MemoryAssumption`, `CoreAssumption`,
`LauncherAssumption`, `InvokeAssumption`, `ProviderAssumption`, `NoneAssumption`.
Every safety property that a run checks is proved, and so are the action properties
and the refinements (`TunHandler` of `TunDevice` and `TunSwitch`, two pools of `FakeIP`, the client of
its launcher). Each inductive invariant was first checked with TLC.

**`TunHandlerProofs`** — `Invariance` and, from it, `TypeCorrect`,
`CallbackSafety` (`NoUseAfterRelease`), `ReleaseOnce`, `HookSafety`,
`StopSafety`, `OrphanSafety`. `NoUseAfterRelease` is not inductive: that a dial
inside Java has a live callback rests on the semaphore, whose exclusion rests on
its queue. The invariant has two halves.

- `SyncInv` is about synchronisation: past the lock an operation holds `tunLock`
  (`LockInv`), queue entries are distinct waiting threads that work on that handler
  (`QueueInv`), who is past the semaphore holds units of the right one
  (`HoldInv`), an operation among the holders is alone (`ExclusionInv`), and
  nobody works on nil (`HandlerInv`). The lemmas `AcquireStep` and `ReleaseStep`
  show once that the semaphore keeps it; `SyncNext` has one step per action.
- `ObjectInv` is about objects: a handler not yet installed is untouched
  (`FreshInv`), a handler that listens owns its callback and an owned callback has
  not been released (`OwnInv`),
  a dial in use sees a listener (`UseInv`), what each phase of a start or stop has
  established (`PhaseInv`), what `seen` means (`SeenInv`), with `HookBacked` and
  `StoppedMeansClosed` themselves. It needs `SyncInv`:
  between `Acquire` and `Release` of a `close` no dial is in use.

`Implements` (`ImplementsBoth`) maps every step to one of `TunDevice` or to
nothing: `CloseFree` is `Close` if the handler still owns its callback (lemma
`CloseMaps`, where the exclusion is needed once more), `DialUse` is `Enter` because
a listener comes with a callback (`OwnInv`), and all that moves threads to and from
locks and queues is invisible. It also maps every step to one of `TunSwitch`: with
`StopLock` a stop has run and a start has stopped, with `StartLock` the start has run.
That needs one more invariant, `SwitchInv`: what goes on after its stop phase, and what
has set the run time, is a start.

**`VpnStateProofs`** — `Invariance` and, from it, `Typed`, `Agrees`
(`RunStateAgrees`), `StopStays` (`StopSticks`), `NotInLimbo` (`NoLimbo`) and `Fits`
(`ServiceFits`). The last but one is inductive; the others speak of a moment without
goroutines, so the invariant says what the goroutine under way will bring about. Two
of opposite effect have raced (`RacedInv`); the run state is ahead of the goroutine
it was set with (`AgreeInv`), and an answer to `syncStatus` that nothing has
overtaken is right (`CalmInv`), for it will be the run state; after a stop neither a
binding, a dialog nor a start goroutine is under way (`StopInv`); and as long as the
mode has not been changed, bindings, goroutines and device are all of that mode
(`FitInv`). The last two parts show that two exceptions are not needed: an old
answer (`drift`) cannot undo a stop, and neither it nor a race can give the core
another service than `VpnPlugin` holds. `BuiltOnSwitch` is the other half of
`Implements`: but for the end of the process every step is one of `TunSwitch`, or
leaves the goroutines and the run time alone. So what the model assumes of the bridge
is exactly what the bridge is proved to keep.

**`CoreBridgeProofs`** — `Typed`, `Applied` (`ConfigApplied`), `PortsFollow`
(`PortsFollowConfig`), `NoLeaks` (`NoSocketLeaks`), `Panics` (`PanicsOnlyThen`),
`LogIsRead` (`SubscriptionsAreRead`). None is inductive, for a handler is between
two consistent states most of the time. The invariant says which method reaches
which place (`Shapes`), that whoever is past `runLock` holds it, also after it was
handed to a goroutine (`Mutex`), when a configuration may be missing or not yet
applied (`ConfigInv`), and what each place of the two listener loops relies on
(`InRecreate`, `InStop`) as long as no shutdown has raced. The log has an invariant
of its own: with no two requests at work at once, the subscription, the global and
the reader agree place by place.

**`ClientInvokeProofs`** — `LauncherSafe` is the inductive invariant of the
launcher: `isStarting` covers the one `reStart` past its guard (`StartInv`); the
field of whoever is about to spawn is empty, and a core of the client that runs is the
one in the field or awaited (`TrackInv`); after a finished shutdown with no other call
under way nothing can spawn (`ExitInv`); before the first spawn
nothing runs (`FreshInv`); what is being closed is marked closed (`SocketInv`), and a socket is in one
place, the queue, the accept loop's hand or the field, until it is closed (`PlaceInv`); and
a connected core whose socket is open is linked, in the accept loop's hand or in the
queue, or somebody is on the way to kill it. The second half proves that the
composition implements the launcher (`Implements`), so that the properties of
`CoreLauncher` carry over (`ServiceTracks`, `HelperTracks`, `NotStuck`, `Linking`),
and then its own: `Typed` and `Arrives` (`QuietMessagesArrive`), for which a message
that waits since a calm moment keeps everything that replaces the completer away
(`CalmInv`).

**`FakeIPPoolProofs`** — `PoolInvariance`, `TypeCorrect`, `AnswersSafety`
(`AnswersMapBack`), `OneAddressSafety` (`OneAddressPerHost`), `OldestFirst`
(`OldestReusedFirst`) and `PoolImplements` (`ImplementsFakeIP`: every step is a step
of `FakeIP` or a stutter), across flushes, stores and crashes at any step.
`AnswersMapBack` alone is not inductive: the record of the
host is written after that of its address, so the invariant adds that whoever is inside
`get` holds the mutex (`Exclusive`) and what it relies on at each place
(`Handing`); `MapBack` is the forward direction, and `OneAddress` the backward one
with the lookup that is between its two records excepted. For the refinement
`Handing` also says that the host in flight has no record yet, and `MapBack` that
no other host has its address: so `PutByHost` is `Assign` (lemma `PutAssigns`),
deletion, flush and restart are `Forget`, and the rest is invisible.
`OldestReusedFirst` rests on `Rotation`: as long as the offset is not stale, the
history list is a stretch of the cycle of addresses that ends just before the next
one, so that the next address is in use only when the list is the whole cycle and
begins with it (lemma `Moves` says what moving an entry to the end does).

**`FakeIPMemoryProofs`** — `ListsMirror` (`Consistent`) and `AnswersRefine`
(`ImplementsFakeIP`). Nothing links the two lists but the order of calls, so the
invariant says for each place inside a query how far one list is ahead of the other:
`Looking` between the two touches of a hit or a look-back, `Giving` along `get`,
`DelByIP` and the two writes. It holds while no flush is half done (`Alike`;
`Flushes` says what a half-done one has cleared), and `Reload` that the copies are
alike and hold the answers in force. The lemmas before it are about `LruCache`: that
deleting, touching and adding do to a list and to its flipped copy the same
(`FlipDeletes`, `SetsNew`), eviction included. In the refinement `Unlink` and
`FlushIP` are `Forget`, `PutByHost` with its eviction is `Assign`, and a reload is
invisible.

**`ProviderProofs`** — `Typed`, `Current` (`CacheIsCurrent`), `Follows`
(`FileFollows`). The version runs behind the proxies between the two stores of
`setProxies` and nowhere else (`Behind`); there a dial may cache new proxies under
the old version, which is harmless because the next version is greater than any
that a dial has seen (`CacheInv`).

**`SupportWebSocketProofs`** — `Typed`, `NotStranded` (`NeverStranded`),
`OneAtATime` (`OneChannel`). Until a channel reports an error the connection is in
one hand at a time (`OneHand`): the timer, one call of `connect`, the open channel,
or one `_disconnect` after its end.

**Model-checked only**: the liveness properties (`OperationsFinish`, `DialsReturn`,
`RequestsAnswered`, `ContentsArrive`), which are beyond the prover. `VpnState` has no
constants, so that its run covers every state of the model and the proof says why.

## Findings

1. *The dial hook is read twice* (`tun_hook`). `dialer.go` tests
   `DefaultSocketHook` and `socket_hook.go` calls it later through the global.
   A stop in between makes that a call of nil, which ends the process.
2. *A closed listener is reported* (`core_ports`). When the UDP half of the mixed
   port cannot be bound, `ReCreateMixed` closes the TCP listener and keeps the
   pointer; `GetPorts` reports its port.
3. *Logout does not disconnect* (`websocket_logout`). `dispose` sets `_isDisposed`
   and then calls `_disconnect`, which returns at once because of it. Channel and
   heartbeat go on, and the service, a singleton, ignores the next login.

Conditions under which a property has an exception are in its statement and its
comment: a shutdown beside a listener loop (`raced`), two requests for the log at
once (`logRaced`), two `/start` requests inside
the helper (`overlap`), a socket dropped after an await or left by an exception
(`clobbered`), an accept loop that has ended (`serving`), `isStarting`
left set by the helper's success or an exception (`kept`), a shutdown while a reStart is
under way (`missed`), a port that could not be bound or that a shutdown has closed
(`lapsed`), a flush inside a lookup
(`raced`; with the store in memory also a reload, see `Overlap`), a crash between
two records (`torn`), a restart from an old offset (`stale`), a file torn by a write
that failed (`Torn`), an error reported by a channel (`failed`), and the oddities of
`VpnState`. They are worth a reader's attention: each is a way in which the code
fails to keep what it promises otherwise.

## Not modelled

The modules cover the parts in which this repository's own code meets
concurrency, and the kernel parts these lean on. By lines that is a small share of
the tree, a few per cent, and it will stay small: the Go code is almost all the
vendored mihomo kernel (`core/Clash.Meta`: protocol codecs, congestion control, rules,
DNS, configuration parsing, generated protobuf) and the Dart code mostly widgets, pages
and HTTP calls. What is left out, and why:

- *Kernel: protocols, rules, DNS, tunnel, configuration.* Upstream code that this
  repository does not change. Codecs and parsers transform data and share no state
  between actors; a model of them would spell out formats.
- *AnyTLS session pool* (`transport/anytls/session`). One upstream protocol with
  mutexes of its own, and no state shared with what this repository adds.
- *Group health checks* (`groupbase.go`, `healthcheck.go`, `urltest.go`).
  Selection compares measured delays. The failure counter is tested and set in two
  steps, so two health checks may start where one would do: a repeated harmless
  check. The cache of proxies of a group is in `Provider`.
- *Domain and subscription races* (`domain_racing_service.dart`,
  `concurrent_subscription_service.dart`). One completer, tested and completed
  without an `await` in between: no interleaving reaches it.
- *Inbound listeners of a profile* (`listener/patch.go`). `stopListeners` never names
  them, so they stay open after a stop, whatever the order of calls.
- *Two pools over one bucket* (`pool.go`, a reload with the persistent store): the
  two have a mutex each, and exclude nothing.
- *The Android request port* (`lib/clash/lib.dart`): its completer is replaced in one
  step. *File vehicle and watcher, intervals and backoff* of the provider; the
  callback that `startTUN` leaks when the descriptor is 0; the external provider
  handlers that answer nil on failure: sequential, one line each.
- *Widgets, controller and XBoard SDK* (`lib/`): layout, preferences, HTTP and JSON.
  Their calls of the core are the environment of `CoreBridge` and `ClientInvoke`.
- *Build, packaging, generated bindings, vendored plugins.*
