# Verification of BiteClash

BiteClash is a Flutter proxy client. On the desktop the app starts a separate
*Core* process (Go), directly or through a privileged *Helper* service (Rust), and
talks to it over a local socket served by native code inside the app (Rust). On
Android the Core is linked into the process and an Android service owns it.

This directory holds TLA+ models of the parts in which processes, threads and
callbacks meet, the TLC instances that check them, and theorems that TLAPS proves
for every value of their constants. `PROJECT.json` maps each definition to the
lines it models, and lists runs, mutants, hazards, findings and theorems.

    tlc -config Lifecycle.cfg DesktopLifecycle    # any run: cfg and module
    tlapm DesktopLifecycle_proofs.tla             # any *_proofs module

## 1. Inventory

### Modelled

| Part | State | Operations | What is hard | What makes it correct |
|---|---|---|---|---|
| Helper service, `services/helper/src/service/hub.rs`, `linux.rs`, `windows.rs` | the listener, connections, `MANAGED_CORE` (mutex), the child process, the cgroup or job | bind, accept, routes, `POST /start`, `POST /stop`, graceful shutdown, restart | requests outlive their clients; a Core may survive termination; the Helper may die between spawn and adoption; accept errors | never two Cores; a stop touches its own session only; the shutdown leaves no Core a client waits for; every request is answered |
| Helper client, `lib/core/desktop/helper_client.dart`, `launcher.dart`, `process_probe.dart` | the call in progress, the lease | resolve, start with release and fallback, stop with probe | a deadline of the client passes while the Helper goes on; the Helper may be gone or new | a lease that is over has no Core; the app does not start a Core beside the Helper's |
| Helper installation, `linux.rs`, `windows.rs` | the registration and reported status of the service; the unit file and what systemd loaded | install, uninstall, the service process, its failure restart | commands overlap, fail at any call, or are killed; status is polled | one Helper; a command that ends well has done what it says; a Helper keeps its owner |
| Desktop Core lifecycle, `lib/core/desktop/lifecycle.dart`, `transport.dart`, `model.dart` | pending commands, `_state`, `_session`, `_unconfirmedLease`, the recovery in progress, the bound transport | start, restart, stop, close; transport events; launcher and lease | commands arrive at every await of the worker; crashes race stops; stops fail | the latest intent wins; one Core; no Core forgotten; every command answered; a lost Core reported |
| Core event delivery, `core/message.go` | three bounded channels, batch, timer, burst count | `sendMessage`, `runMessageBatcher` | several producers evict at once; the batcher selects between channels | nothing lost silently or twice; order kept; no class starved; the last batch is sent |
| Core IPC connection, `core/server.go`, `exit.go` | `conn`, `writeMu`, the process | `send`, `serve`, `releaseOnExit` | a host that stalls in the middle of a frame; death of either side | frames arrive whole; every send returns |
| Native IPC server, `plugins/rust_api/rust/src/ipc` | `RUNNING`, `STATE`, `LIFECYCLE`, one server and one writer thread, the send queue, partial frames | `restart_server`, `stop_server`, `send_message`, accept, read, write | globals shared by the old and the new server thread; joins; a byte budget counted by many threads | one server; quiet once stopped; events alternate; calls return; the budget is exact; frames go out whole |
| Core RPC client, `lib/core/desktop/rpc_client.dart` | `_pending` with its completers and timers | `invoke`, responses, transport events, `close` | a response, the re-armed timeout, a disconnect and close race | an entry is there while its caller is owed an answer; nobody gives up too soon or too late |
| Application actions, `lib/providers/actions/core.dart`, `setup.dart` | the restart revision, the latest run request, authorization, two schedulers | start, stop, restart, apply, update, authorize | calls overtake, join and start one another | what is shown as running runs; a restart covers who joined it; TUN has its rights; calls end |
| System exit, `lib/providers/actions/system_exit.dart` | the exit operation, the watchdog | `exit` and its steps | steps hang or fail | the app ends, once |
| Hot keys, `lib/manager/hotkey_manager.dart`, `plugins/rust_api/rust/src/hotkey` | the chain of updates, the owner thread's queue, the registry, `IDS` | `set_hot_keys`, `Registry::replace`, the forwarder | wake-ups against jobs; keys the system does not give back | registries agree; no action of earlier settings, once they are replaced; the last settings win |
| Android run state, `ServiceStateMachine.kt`, `ServiceController.kt`, `RunIntentArbiter.kt`, `PendingCallback.kt` | the latest request, two locks, the bound service, `runState` | start, stop, permissions, the loss of the service | coroutines on a pool of threads; answers to replaced requests; losses | intent, state and service agree when quiet; a stop holds; every request answered |

How they interact: the app's actions drive the lifecycle and call the Core through
the RPC client. The lifecycle binds a transport, which restarts the native server
and listens to its events (ready, connected, disconnected, error), and asks a
launcher for a Core process whose *lease* it keeps. The Core dials the socket once,
answers method calls, sends batches of events, and exits when the link ends. The
launcher is the operating system (`DirectCoreLauncher`) or the Helper over HTTP
(`HelperLauncher`), the second with a fallback to the first. The Helper is installed
and removed by commands of its own binary.

### Not modelled

| Part | Why not |
|---|---|
| Core interface of the app: `controller.dart`, `interface.dart`, `event.dart`, `method.dart` | typed wrappers and fan-out of events, without state beyond the handler in use |
| Boot guard: `boot_guard.dart`, `boot_record.dart` | a sequential decision over a boot record, in the plan |
| Task pool and file lock | a counting limit, and a lock of the operating system |
| Android services (`VpnService.kt` and the like) | known to `RunState` as started, lost or unbound; the rest is calls into Android |
| Core methods: `core/hub.go`, `common.go`, `method.go`, `lib.go` | handlers over the proxy engine, a submodule that is not in the tree |
| Core process entry: flags, dialling, file ownership | straight-line I/O; that the Core dials once is used |
| Script engine | one call in, one value out |
| User interface, models, l10n, database | presentation, generated code, SQLite's transactions |
| `frb_generated.rs` and its Dart side | generated glue |
| Gateway, OpenWrt, packaging, release tools | configuration around the same programs |

What is left out of a part that is modelled is said in `PROJECT.json` with the
component and below with the module.

## 2. Modules

| Module | Models | Used by |
|---|---|---|
| `HelperService` | the Helper's request threads, its lock and the Cores it spawns | `HelperFront` |
| `HelperFront` | the server around them: listener, connections, routes, drained shutdown | `HelperLaunch`, `MCHelperWindows` |
| `HelperLaunch` | the app as the client of that server | `MCHelperLinux` |
| `ScmService`, `UnitInstall` | the Helper's commands on Windows and on Linux | `MCHelperWindows`, `MCHelperLinux` |
| `LatestIntent` | abstract: what start, stop, restart and close promise | instantiated by `DesktopLifecycle` |
| `DesktopLifecycle` | the reconciler with its transport, its Cores and a launcher | `MCDesktopLifecycle` |
| `EventQueue` | producers, channels and the batcher | - |
| `FrameDelivery` | the Core's senders, the socket, an arbitrary host, the end of the process | `FrameReader` |
| `FrameReader` | the app's reader as that host | `MCCalls` |
| `CoreRpc` | calls of the app against transport events, timers and close | `MCCalls` |
| `SystemExit` | the exit with its watchdog | `MCCalls` |
| `IpcServer` | restart and stop callers, server threads, writers, peers | - |
| `SendQueue` | callers of `send_message`, the channel and its byte budget | `FrameWriter` |
| `FrameWriter` | the writer thread behind that channel, and its end | - |
| `Hotkeys` | chain, owner thread, registry, forwarder, key table | `MCHotkeys`, `MCApp` |
| `AppActions` | restart worker, run requests, setups, authorization | `MCApp` |
| `RunState` | the Android state machine, its permissions and its service | - |

`Helper_proofs` (the Helper, its client and its installation),
`DesktopLifecycle_proofs`, `EventQueue_proofs`, `CoreLink_proofs` (frames, reader and
calls), `IpcServer_proofs`, `FrameWriter_proofs` (with the send queue), `App_proofs`
(actions and hot keys) and `RunState_proofs` hold the theorems.

Operators named "Mutant of X" are plausible bugs of the code, one for each checked
property; no specification uses them. Replacing X by its mutant makes TLC find the
property violated, which shows that the property can tell.

### The Helper and its client

One thread per HTTP request, and `Main`, the service thread that releases the Core
on shutdown. `pc[r]` follows `start_request`, `stop_request` and
`release_managed_core` from one blocking call to the next; the mutex is `lock`, and
it is not fair. `JobObject` selects the platform: FALSE is Linux (a Core is in the
service's control group from birth, and SIGTERM comes before SIGKILL), TRUE is
Windows (the Core is bound to a job object after it was spawned). Cores are named by
the attempt that made them, so that no property depends on pids not being reused.

`HelperFront` names a request by its connection. hyper drops the handler of a client
that hangs up, not the thread it awaits, so the request goes on. `/ping` and `/logs`
are answered in one step; the ring of log lines is left out.

`HelperLaunch` makes the calls of `helper_client.dart` one at a time, as the
lifecycle does, with `at` the await it is in. A deadline passes at any time: the
client hangs up, and what it asked for may yet be done. A session id is new to every
start. The ping is one step that may refuse; answers that do not parse are left out.
Its specification implements `HelperFront` (`LaunchImplementsFront`).

### Installation

Each command is a process that goes from one call of the Service Control Manager, or
of the file system and `systemctl`, to the next; a call may fail and a process may be
killed. A unit file is told by the account it names, one whose write was cut short
names nobody. `Installed` and `Gone` say what a command promises, and hold of
commands that do not overlap another (`alone`).

### LatestIntent and DesktopLifecycle

`LatestIntent` is the contract: commands are numbered, the latest may be applied and
then takes the older ones along as coalesced or superseded, or all commands up to a
number fail; a Core starts only when a start is unanswered and none runs; a stop is
applied only when none runs.

`DesktopLifecycle` is the code. Its worker runs `_runWorker`, `_reconcile`,
`_startSession` and `_stopSession`; a value of `pc` is the await the worker is at,
and an action is what it does from one await to the next.

* Dart is single threaded. `Quiet` holds when no microtask of the worker can run;
  transport events, timers and returning awaits need it. `Submit` does not: commands
  may arrive from microtasks, which `test/core/desktop/lifecycle_test.dart:326`
  sweeps on purpose.
* Connection generations are named by the Core that made them, since a Core dials
  once (`core/server.go:175`).
* `VerifyPeerPid`, TRUE on Windows (`lib/core/service.dart:48`), makes the lifecycle
  compare the peer's pid with the lease. `LauncherLeaks` lets a launcher report an
  error although it started a Core: the late start that `FallbackIsAlone` allows.
* `LossWhileLaunching` lets a connection end before `launcher.start` has returned.
* Left out: the session-mismatch branch (`lifecycle.dart:414-422`), for the Helper
  client rejects such an answer before; commands after `close()`, which are rejected
  without a change of state; payloads of errors; the state stream.

### The link to the Core

Every `select` of `message.go` is one step of `EventQueue`, so producers and the
batcher interleave between any two. The channels are package variables that no
production code closes, so the `!ok` branches and the final flush are left out.

`FrameDelivery` models `send` with its mutex and write deadline, down to the part of
a frame the socket has accepted. `FrameReader` replaces its host by the code that
reads: a poll takes what is there and keeps the rest for later. In the other
direction `SendQueue` has the callers, the channel and the byte budget that a caller
reserves and the writer gives back in separate steps, and `FrameWriter` the writes,
which the socket takes a part of, and the stop that joins the writer.

`IpcServer` has the callers of `restart_server` and `stop_server`, each server thread
from bind to `finish_server`, and the writer thread of its connection. Errors
that only get reported, data frames and poisoned locks are left out. Its
`EventsAlternate` (a theorem) is what `DesktopLifecycle` assumes of the server.

`CoreRpc` counts time in units; a timer fires in the unit it is due. The exchange of
a transport is one step, and decoding is left out. In `SystemExit` a step may end,
fail or hang, since what it does is the caller's.

### The app

In `AppActions` a call, or the restart worker, is a process with one step per await.
A call that was started and has ended leaves nothing behind; the first launch,
`suspend`, start times and the debouncers are left out, and a Core fails only where
it is called. The user may grant TUN its rights in any setup, the worker's own and
those of other calls during a restart included; `late` remembers that a grant joined
a restart past its launch (section 4).
In `Hotkeys` one call is in flight, and the owner thread, the system and the
forwarder run beside it; `threaded` says whether the platform needs that thread. The
forwarder looks a press up under the lock of `IDS` (`LookUp`) and reports it under that
of the sink (`Report`); `overtaken` remembers that settings were published in between.

A step of `RunState` ends where the code suspends or where another thread could
change what it has read. `app` is the engine that `ServiceStateHost` has attached, with
its activity and its plugins: they come and go at any time, also while a service runs or
a request waits (`ActivityComes`, `ActivityGone`). `gateway` is the plugin a request has
picked, and what it posts to the main thread is a step of its own (`MainThread`), at
which the activity may be gone: then the notification is skipped, and nothing is
remembered. An activity created before the last one is destroyed, an engine without an
activity, exceptions of Android calls, the restoring of the configuration before a start
without Flutter, and the broadcast lease are left out.

`MCApp`, `MCCalls`, `MCHelperLinux` and `MCHelperWindows` check parts that share nothing:
a behaviour takes one of them. `MCHelperLinux` takes the server with any clients, the
server with the app, or the unit's installation; `MCHelperWindows` the server or the
service's.

## 3. Runs

| Run | Instance | Shows |
|---|---|---|
| `HelperLinux` | 3 requests, 2 sessions, 2 Cores, 1 restart, symmetric; any clients, or the app; or 2 commands, 2 accounts, 1 fault, 1 crash | one Core; the app falls back only beside Cores it gave up; a lease that is over has no Core; a command that ends well tells the truth; the Helper keeps its owner |
| `HelperWindows` | 2 requests, 1 session, 2 Cores, a job that may not bind, 1 restart, 1 accept error; or 2 installers, 2 service processes, 1 fault, 1 crash; fair | after the drained shutdown runs no Core a client waits for or was given; a request is answered; one Helper; a stop takes effect |
| `Lifecycle` | 3 commands, 3 Cores, pid check, fair | `LatestIntent` is implemented; no Core forgotten; commands settle; a lost Core is reported |
| `Events` | 2 producers, 3 messages, queues of 1, batches of 2, bursts of 1, 2 rounds, fair | nothing lost or twice; order; bounded overtaking; losses are due; accepted events are delivered or evicted |
| `Calls` | 4 senders, frames of 4 with a prefix of 2, a buffer of 3; 2 calls, timeouts of 1 and 2, connecting 1, extension 3, grace 1; fair | frames arrive whole and senders return; entries are owed and calls end in time; the exit is certain |
| `Ipc` | 2 callers, 2 servers, 2 connections, fair | one server; quiet when stopped; calls return |
| `Queue` | 2 messages and one larger than the budget, 1 slot, 2 bytes, frames of 2, a buffer of 1, fair | the budget is exact; frames go out whole; sends settle; the writer obeys a stop |
| `App` | 3 calls, 1 fault; 3 changes among 4 lists of keys, 1 press; fair | registries agree; a press runs a wanted action; the last settings win; what is shown runs; a restart covers who joined it; TUN has its rights unless the grant came late; only the worker that awaits itself blocks calls |
| `RunState` | 3 requests, 1 loss, an engine and its activity that come and go, fair | intent, state and service agree, with the two exceptions of section 4; a stop holds; requests are answered |
| `LifecycleDeadSession` | 2 commands, 3 Cores, losses while launching | **violated**: running may be published for a dead connection |
| `ActionsDeadlock` | 1 call, fair | **violated**: the restart worker waits for itself |
| `ActionsLateGrant` | 2 calls | **violated**: TUN is authorized on a Core without rights |

`CHECK_DEADLOCK FALSE` everywhere: these systems may stop, when nobody submits a
command, the service is down for good, or the bounds are used up.

Some safety properties of the modules are not in a run because a theorem gives them
for every instance, or they follow from one that is: `SingleCore` and
`StopMeansNoCore` (part of `LatestIntent`), `WholeFrames` (of the Core's side of
`FramesArriveWhole`), `StopConfirmsExit` and `PreSpawnErrorOwnsNothing` (the Helper's side of
`ConfirmedMeansExited` and `FallbackIsAlone`), `SenderFollowsConnection`,
`EventsAlternate` and type correctness.

**Bounds.** They are the smallest for which the cases of interest happen. Three
requests are a start, a stop and another start that contend, with the shutdown as
the fourth thread; for the app they are a start that is given up, its release and a
stop. Three commands let a start be overtaken by a stop and a start; each command
launches at most one Core. Queues of one, batches of two and bursts of one make
every limit of `message.go` bind within three messages. A frame longer than the
socket's buffer can be neither written nor read at once, and a prefix of two units
can be cut. Two servers and two connections are a generation and its successor. Two
commands of the installer overlap, and a third account or process adds no case that
two do not have. Three calls are a restart, one that joins it and one that overtakes
both; three requests are a start, a stop and the start that supersedes. Larger
instances were explored where time allowed: `HelperLaunch` with four requests on
both platforms, `CoreRpc` with three calls and a longer grace. Symmetry is used in
runs without liveness properties only.

**Fairness.** *Helper*: blocking threads run, and the waits in `terminate` are
bounded; the executor polls the listener, its delay and the handlers. *Installation*:
commands and service processes that were asked to stop go on, since every poll and
the drain are bounded. *Lifecycle*: microtasks run, awaits return or
time out (opening, connecting, stopping and the launcher's HTTP calls carry
timeouts), the connection timer fires, a crash cleanup returns and the server notices
a dead peer. *Events*: goroutines that can run do, and the timer fires. *Calls*: the
mutex is strongly fair, as Go's is for a waiter that starves; the host reads on; the
watchdog fires. *Ipc*, *Queue*: threads run and their sleeps end; the deadline of a
waiting call comes (strongly fair, for it is looked at in one state of the wait
only). *App*: awaits of a call return, threads run. *RunState*: coroutines that can
run do (the bounds leave finitely many steps, so no lock starves anyone), the main
thread runs, and the user answers a dialog. Nothing is assumed of
users otherwise, producers, peers, Cores, or failures.

## 4. What the code does otherwise than it says

* **A running session without a connection** (`LifecycleDeadSession`). The waiter
  keeps the first connection it sees while `launcher.start` is pending; its loss is
  delivered while the phase is starting and is ignored, and the session is
  published. Excluding that loss makes `RunningIsConnected` provable.
* **A restart that waits for itself** (`ActionsDeadlock`). When the user grants TUN
  its rights in the setup that the restart worker awaits, that setup joins the
  restart, which is the worker's own future. `OnlyTheWorkerBlocks` shows that this is
  the only way in which calls keep one another from ending.
* **TUN on a Core without rights** (`ActionsLateGrant`). A grant that comes while the
  worker is past the launch of its new Core only joins that restart
  (`core.dart:82-87`), the worker may not look again, and the Core keeps running without
  the rights that are now counted as there. `AuthorizedCoreIsPrivileged` shows that
  this is the only way.

Met on the way and not a run:

* On Windows a Helper that ends between the spawn and the job assignment leaves a
  Core; `CoreEndsWithHelperOnLinux` is about Linux only. A Core whose job cannot be bound
  is left too: `start` drops the child, which is not killed by that, answers
  `internalError` and returns to a Helper that manages nothing (`hub.rs:455-464`). That
  Core outlives the Helper's shutdown, which `.agents/architecture.md:544` excludes; it
  is the exception that `ReleasedForGood` states.
* An action that the forwarder has looked up before new settings were published may be
  reported after their update was answered, for it lets go of `IDS` before it takes the
  sink (`service.rs:93-101`): the exception `overtaken` of `OnlyTheWantedAction`.
* `setup.dart:184` does not look at a false result of the call that starts the listener.
* A call of `CoreRpc` whose answer arrives before the native send returns can still be
  reported as timed out; and a transport that failed while connected and is then
  replaced sends no event, so its calls wait for their timeouts (`orphans`).
* A start whose client timed out can replace the Core that is leased next. The stop of
  that lease is answered `sessionMismatch` although its Core has exited, and stays
  unconfirmed until the late session is released or the Helper restarts. It needs a
  start that waits for the lock longer than its client's timeout and then overtakes.
* `reconcileStopped` leaves early when nothing runs, without publishing: the exception
  that `QuietIsConsistent` makes with `raced`.
* A start that is denied before it is launched resets the intent and does not reconcile
  (`ServiceStateMachine.kt:119-122`). If a tile or the system had started the service
  before the app came up, the app's start asks for notifications, and the activity goes
  while it does, then the service runs on with no request for it, and the stop of its
  notification is refused. The same happens when another start supersedes the question.
  This is the exception `dropped`.
* `.agents/architecture.md:162` says that a full state channel evicts its oldest
  event, while `message.go:56` drops the newest (and `rules.md:140-142` agrees with
  the code); `architecture.md:698-699` on pre-spawn errors does not mention
  `coreStopFailed`, which leaves the old Core managed.
* `enqueue_message` notices a writer that is gone only once it has reserved bytes, so
  with a budget used up by bytes nobody received a caller waits out its deadline.

## 5. Proofs

Every theorem holds for all values of the constants that the module's `ASSUME`
allows, and each rests on an inductive invariant checked by TLC first.

* `Helper_proofs`, the Helper: `HelperInv`. The properties speak of processes while
  the code reasons with the lock, so the invariant says who holds the lock
  (`LockInv`), what the holder knows of the managed Core and the child (`HolderInv`),
  that no other Core lives and is confined (`CoreInv`), that only starts spawn
  (`RequestInv`), and on Linux that everything is in the control group (`CgroupInv`).
  The server implements `HelperService`, so these theorems hold of it; `DrainInv` ties
  threads to connections. `ReleasedForGood` is about every Core that still runs:
  `LateInv` has it for those in the job or the control group, and `OrphanInv` follows one
  outside to the start that is adopting it or was answered `internalError`.
* `Helper_proofs`, the client: `LaunchInv` adds what an answered thread has answered
  (`AnswerInv`), that a session belongs to one start (`ClientInv`), what became of the
  Core of a start (`BornInv`), that a Core of the Helper's is being started, leased or
  was given up (`KnownInv`), what a lease rests on (`LeaseInv`) and what a fallback
  rests on (`FallbackInv`). From it: `LaunchImplementsFront`, `LeaseIsOver` and
  `FallbackIsSafe`.
* `Helper_proofs`, the installation: `ScmInv` ties the status to the one live process
  (`OneHelper`). `UnitInv` says what each command has done at each of its steps
  (`JobInv`), what a command that is alone finds (`AloneInv`), and what unit and
  Helper agree on where no command overlapped (`CleanInv`) and no write was cut short
  (`OwnerInv`); from it `OkIsTrue` and `HelperKeepsItsOwner`.
* `DesktopLifecycle_proofs`: `BaseInv` is types, commands settled in order
  (`CommandInv`), which of session, lease, unconfirmed lease and recovery may hold a
  Core at which `pc` (`OwnerInv`), and what the worker's intent is (`IntentInv`).
  `HeldInv` adds that a live Core is in one of the four unless a close gave it up,
  and with it `SingleCore` becomes inductive. It needs that launchers do not leak, as do
  `NoneForgotten`, `StopLeavesNoCore` and the refinement;
  `PeerIsOwn` needs the pid check, `RunningIsConnected` needs that no connection is
  lost while launching; each of these hypotheses is stated in its theorem.
  `ImplementsPromise` is the refinement of `LatestIntent`. `NewerSurvives` says of
  every step that an error takes down only commands the failing attempt served.
* `EventQueue_proofs`: `OvertakeInv` says what the batcher knows at each select: past
  the first no state event waited, past the second the burst is not full, and a bulk
  event has been overtaken no more often than the burst counts. `WayInv` follows a
  message: it is in one place (`PlacesInv`), the ids handed out are those of the
  messages there are (`CountInv`), and along the way of a class, from delivered over
  the batch and the channel to the goroutine that sends, the ids of a goroutine grow
  (`LineInv`). Its parts need each other, for an eviction removes from the middle of
  that way. They give `Accounted` and `ProducerOrder`. `RivalInv`, that a goroutine
  finds its channel full again only because of another's event, gives `LossIsDue`.
* `CoreLink_proofs`: `FrameInv`. A frame begun and not complete is being written by
  the holder of the mutex, or torn with the socket closed (`MutexInv`,
  `ProgressInv`), and each unit on the wire is one its sender counts (`WireInv`).
  `ReaderImplementsHost` carries this over to the app's reader. What the reader has
  delivered is read off the wire only by dividing it: `GridInv` says that for some
  number of frames everything before is whole frames, one sender's each, and after it
  comes at most a part of one; with the reader's own count (`ReaderInv`) that gives
  `FramesArriveWhole`. The number is quantified, and a step that completes a frame
  moves on to the next, which takes the place of an induction over the wire.
* `CoreLink_proofs`, the calls: `RpcInv`. `SendInv` says when a call has sent what,
  `OwedInv` at which connection a pending call is, `TimeInv` how far its timer may
  reach.
* `FrameWriter_proofs`: `Budget`. What is reserved is what waits, what a caller has
  reserved and not yet enqueued, and what the writer took and has not given back
  (`PlacesInv`); so `BudgetHolds`, with the writer in the place of the consumer
  (`WriterImplementsQueue`). `TakenInv` and `GridInv` do for the frames going out what
  the ones above do for those coming in, and give `OutgoingWhole`.
* `IpcServer_proofs`: `IpcInv`. A thread that lives is the one to join (`ThreadInv`),
  under the caller that holds `LIFECYCLE` (`CallInv`); the socket file and the sender
  are those of a live thread (`SocketInv`, `SenderInv`), and the parity of its events
  goes with its place (`EventInv`).
* `RunState_proofs`: `RunInv`. Who holds which lock is told by where it is (`LockInv`);
  a binding goes with a run time and the service it bound, but for the start that is
  binding it and a loss not yet handled (`ServiceInv`); a start under the lock is
  wanted, or the stop that overtook it waits behind it, or the start that did was denied
  (`IntentInv`); and the published
  phase follows whenever no transition is under way (`PhaseInv`). `QuietIsConsistent`
  is what remains of these when all are done. `HoldInv` strengthens `StopHolds`: after
  a stop no transition can come either.
* `App_proofs`, the actions: `ActionsInv`. A process's place says which listener task it
  has (`PlaceInv`), and who calls the Core is first in line (`LineInv`). The code keeps
  what is shown and what the Core does equal only in the end, so the invariant says
  who owes the difference: the current request until it has called the Core
  (`RequestInv`), or the worker while it has still to look at what is shown
  (`CarriedInv`, `LookAgain`). `JoinedInv` closes the gap between them, a current start
  that joined a restart: the round that takes it over is still to come. From it
  `RunningIsTrue`, whose exception `spoiled` is a last run request that failed or was
  answered false. `RestartInv`
  gives `RestartCoversCaller`. `GrantInv` follows a grant to the launch it brings about,
  and gives `AuthorizedCoreIsPrivileged`, of which `late` is the one exception.
* `App_proofs`, the hot keys: `HotkeyInv`. One job at a time, for the settings at the
  head of the chain (`CallInv`); the last settings in the chain are the wanted ones
  (`WantedInv`); of a job, the specs tried are those it has not left, each registered
  or failed (`JobInv`); and `IDS` is what the last job published (`IdsInv`), from which
  the forwarder has what it is about to report unless it was overtaken (`FoundInv`). From it
  `RegistriesAgree` and `OnlyTheWantedAction`. Settings are assumed to be lists of
  specs (`SettingsAssumption`).

So every invariant and every action property that a passing run checks is proved.

Model-checked only: liveness, which rests on fairness and on what is enabled and is
beyond the prover (`AcceptedIsDelivered`, `AnswerArrives`, `ExitIsCertain`,
`CallReturns`, `SendSettles`, `WriterObeysStop`, `StopTakesEffect`, `LastSettingsWin`,
`OnlyTheWorkerBlocks`, `RequestIsAnswered`, `EveryCommandSettles`, `LostCoreIsReported`,
`AnswerReachesClient`), and with it `SystemExit`, whose one property is of that kind.
The key table of `Hotkeys` enters the proofs as it is: which keys are usable makes no
difference to them.

## 6. Plan

1. The safety half of what is only model-checked: that no step takes away what a
   liveness property waits for (an answer once given, a writer once told to stop).
2. `HelperLaunch` as the launcher of `DesktopLifecycle`, which then knows when there is a
   leak (`LauncherLeaks`); `IpcServer` under its transport.
3. The boot guard, over launches that may end anywhere.
4. The first launch and `suspend` in `AppActions`; the hand-over between two activities
   in `RunState`.
