--------------------------- MODULE DesktopLifecycle ---------------------------
(***************************************************************************)
(* DesktopCoreLifecycle, lib/core/desktop/lifecycle.dart: the reconciler   *)
(* that drives the desktop Core to the latest submitted intent, with the   *)
(* IPC transport it binds (transport.dart), the Core processes it leases   *)
(* from a launcher, and the user who may submit at any moment.             *)
(*                                                                         *)
(* Dart is single threaded: an event-loop turn (a frame from the server, a *)
(* timer, a returning await) runs to the end of its microtasks before the  *)
(* next one.  The worker's microtasks are actions of their own, and an     *)
(* outside event waits for them (Quiet).                                   *)
(*                                                                         *)
(* Abstractions.  A Core dials once and exits when its link is gone        *)
(* (core/server.go:175), so a connection generation is named by the Core   *)
(* that made it.  Session ids, owners, pids and errors are carried but     *)
(* decide nothing and are left out, except the peer pid, which names the   *)
(* Core at the other end.  The latest intent (_desired) is the last        *)
(* submitted revision; _terminalRequested says that its target is closed.  *)
(***************************************************************************)
EXTENDS Naturals, FiniteSets

CONSTANTS
  Cores,             \* Core processes that may be launched
  NoCore,
  MaxRevision,       \* bound: commands submitted
  VerifyPeerPid,     \* TRUE on Windows (lib/core/service.dart)
  LauncherLeaks,     \* TRUE: a launcher may report an error for a Core it started
  LossWhileLaunching \* TRUE: a connection may be lost before start() returned

ASSUME LifecycleAssumption ==
  /\ NoCore \notin Cores
  /\ MaxRevision \in Nat
  /\ VerifyPeerPid \in BOOLEAN /\ LauncherLeaks \in BOOLEAN
  /\ LossWhileLaunching \in BOOLEAN

VARIABLES
  revision, target, outcome,             \* the commands
  phase, session, peer, disconnected,    \* _state, _session, its connection, _SessionDisconnect
  unconfirmed, recovery,                 \* _unconfirmedLease, _unexpectedDisconnectOperation
  pc, intent, achieved, lease, allow, after, waiter,  \* the worker and its locals
  tstate, server, conn,                  \* transport state, Rust server, connected Core
  core                                   \* core[c]: the process and its link

cmdVars   == <<revision, target, outcome>>
stateVars == <<phase, session, peer, disconnected, unconfirmed, recovery>>
workVars  == <<pc, intent, achieved, lease, allow, after, waiter>>
linkVars  == <<tstate, server, conn, core>>
vars == <<cmdVars, stateVars, workVars, linkVars>>

Targets == {"running", "restarted", "stopped", "closed"}
Starts  == {"running", "restarted"}
Achievements == {"runningExisting", "runningFresh", "idle", "closed"}
Outcomes == {"none", "pending", "applied", "coalesced", "superseded", "failed"}
Phases == {"idle", "starting", "running", "stopping", "failed", "closed"}
TransportStates == {"idle", "starting", "ready", "connected", "failed", "closed"}
Pcs == {"off", "loop", "settle", "stopUnconfirmed", "stopping", "awaitDisconnect",
        "replaceAfterStop", "prepare", "replaceToStart", "opening", "resolving",
        "launching", "connecting", "releasing", "close", "closing"}

Desired == target[revision]
WantsRunning == Desired \in Starts
TerminalRequested == Desired = "closed"
Pending == {r \in 1..MaxRevision : outcome[r] = "pending"}
Alive == {c \in Cores : core[c] \in {"dialing", "linked", "dropped"}}

-----------------------------------------------------------------------------
Init ==
  /\ revision = 0
  /\ target = [r \in 0..MaxRevision |-> "stopped"]
  /\ outcome = [r \in 1..MaxRevision |-> "none"]
  /\ phase = "idle" /\ session = NoCore /\ peer = NoCore /\ disconnected = FALSE
  /\ unconfirmed = NoCore /\ recovery = NoCore
  /\ pc = "off" /\ intent = 0 /\ achieved = "idle"
  /\ lease = NoCore /\ allow = FALSE /\ after = "abandon" /\ waiter = "off"
  /\ tstate = "idle" /\ server = "down" /\ conn = NoCore
  /\ core = [c \in Cores |-> "unborn"]

\* start(), restart(), stop(), close().  A command after close() is rejected
\* at once and changes nothing.  Nobody runs between the synchronous steps of
\* the worker.
Submit(t) ==
  /\ revision < MaxRevision
  /\ ~TerminalRequested
  /\ ~(pc = "loop" /\ recovery = NoCore) /\ pc \notin {"prepare", "close"}
  /\ revision' = revision + 1
  /\ target' = [target EXCEPT ![revision + 1] = t]
  /\ outcome' = [outcome EXCEPT ![revision + 1] = "pending"]
  /\ pc' = IF pc = "off" THEN "loop" ELSE pc
  /\ UNCHANGED <<stateVars, intent, achieved, lease, allow, after, waiter, linkVars>>

-----------------------------------------------------------------------------
(* How a run of the worker ends: with an achievement, or with an error.    *)

\* _targetsCoalesce
Coalesce(first, settled) ==
  \/ first \in Starts /\ settled \in Starts
  \/ first = settled

\* _satisfies
Satisfies(achievement, t) ==
  CASE t = "running"   -> achievement \in {"runningExisting", "runningFresh"}
    [] t = "restarted" -> achievement = "runningFresh"
    [] t = "stopped"   -> achievement = "idle"
    [] t = "closed"    -> achievement = "closed"

\* Mutant of CompleteCommands: only the winner's own command is answered.
CompleteWinnerOnly ==
  outcome' = [outcome EXCEPT ![revision] = "applied"]

\* _completeCommands
CompleteCommands ==
  outcome' = [r \in 1..MaxRevision |->
    IF r \notin Pending THEN outcome[r]
    ELSE IF r = revision THEN "applied"
    ELSE IF Coalesce(target[r], Desired) THEN "coalesced" ELSE "superseded"]

\* _failCommands
FailCommands(r) ==
  outcome' = [s \in 1..MaxRevision |->
    IF s \in Pending /\ s <= r THEN "failed" ELSE outcome[s]]

Achieve(achievement) == pc' = "settle" /\ achieved' = achievement

\* The catch block of _runWorker.
Fail ==
  /\ pc' = "loop" /\ UNCHANGED achieved
  /\ IF intent = revision
     THEN phase' = "failed" /\ FailCommands(intent)
     ELSE /\ UNCHANGED phase
          /\ IF TerminalRequested THEN UNCHANGED outcome ELSE FailCommands(intent)

\* The worker compares what it achieved with the intent that is now the latest.
Settle ==
  /\ pc = "settle" /\ pc' = "loop"
  /\ IF Satisfies(achieved, Desired) THEN CompleteCommands ELSE UNCHANGED outcome
  /\ UNCHANGED <<revision, target, stateVars, intent, achieved, lease, allow, after, waiter, linkVars>>

\* _abandonedStart
Abandon ==
  /\ Achieve("idle")
  /\ phase' = IF Desired = "stopped" THEN "idle" ELSE phase

\* The rest of _reconcile once no session is left.
AfterStop ==
  \/ target[intent] = "closed" /\ pc' = "close" /\ UNCHANGED <<phase, achieved>>
  \/ /\ target[intent] \in Starts /\ WantsRunning
     /\ pc' = "prepare" /\ phase' = "starting" /\ UNCHANGED achieved
  \/ /\ target[intent] = "stopped" \/ (target[intent] \in Starts /\ ~WantsRunning)
     /\ Abandon

-----------------------------------------------------------------------------
(* The head of the worker's loop and the dispatch of _reconcile.           *)

\* The switch of _reconcile: nothing to do, a session to stop first, a close,
\* a start, or nothing left to stop.
Dispatch(i) ==
  LET t == target[i]
      satisfied == t = "running" /\ session # NoCore /\ phase = "running"
      starts == t = "running" \/ (t = "restarted" /\ WantsRunning)
  IN
  \/ satisfied /\ Achieve("runningExisting") /\ UNCHANGED <<phase, allow>>
  \/ /\ ~satisfied /\ session # NoCore
     /\ pc' = "stopping" /\ phase' = "stopping"
     /\ allow' = (t = "closed" \/ (t \in Starts /\ TerminalRequested))
     /\ UNCHANGED achieved
  \/ /\ session = NoCore /\ t = "closed"
     /\ pc' = "close" /\ UNCHANGED <<phase, achieved, allow>>
  \/ /\ session = NoCore /\ starts
     /\ pc' = "prepare" /\ phase' = "starting" /\ UNCHANGED <<achieved, allow>>
  \/ /\ session = NoCore /\ t # "closed" /\ ~starts
     /\ Abandon /\ UNCHANGED allow

\* Mutant of Capture: the worker does not wait for a crash cleanup.
CaptureDuringRecovery ==
  /\ pc = "loop"
  /\ IF Pending = {}
     THEN pc' = "off" /\ UNCHANGED <<intent, achieved, phase, allow>>
     ELSE intent' = revision /\ Dispatch(revision)
  /\ UNCHANGED <<cmdVars, session, peer, disconnected, unconfirmed, recovery,
                 lease, after, waiter, linkVars>>

\* _runWorker: wait for a crash cleanup, capture the latest intent, and stop
\* an unconfirmed lease before anything else.
Capture ==
  /\ pc = "loop" /\ recovery = NoCore
  /\ IF Pending = {}
     THEN pc' = "off" /\ UNCHANGED <<intent, achieved, phase, allow>>
     ELSE /\ intent' = revision
          /\ IF unconfirmed = NoCore THEN Dispatch(revision)
             ELSE pc' = "stopUnconfirmed" /\ UNCHANGED <<achieved, phase, allow>>
  /\ UNCHANGED <<cmdVars, session, peer, disconnected, unconfirmed, recovery,
                 lease, after, waiter, linkVars>>

-----------------------------------------------------------------------------
(* Stopping.  lease.stop confirms only an exit that happened.              *)

\* _stopUnconfirmedLease
UnconfirmedStopReturns(confirmed) ==
  /\ pc = "stopUnconfirmed"
  /\ confirmed => unconfirmed \notin Alive
  /\ IF confirmed \/ target[intent] = "closed"
     THEN unconfirmed' = NoCore /\ Dispatch(intent) /\ UNCHANGED outcome
     ELSE Fail /\ UNCHANGED <<unconfirmed, allow>>
  /\ UNCHANGED <<revision, target, session, peer, disconnected, recovery,
                 intent, lease, after, waiter, linkVars>>

ClearSession == session' = NoCore /\ disconnected' = FALSE

\* _stopSession, from the return of lease.stop
SessionStopReturns(confirmed) ==
  /\ pc = "stopping"
  /\ confirmed => session \notin Alive
  /\ \/ /\ confirmed /\ ~disconnected
        /\ pc' = "awaitDisconnect" /\ UNCHANGED <<outcome, phase, session, disconnected, achieved>>
     \/ /\ IF confirmed THEN disconnected ELSE allow
        /\ ClearSession /\ AfterStop /\ UNCHANGED outcome
     \/ ~confirmed /\ ~allow /\ Fail /\ UNCHANGED <<session, disconnected>>
  /\ UNCHANGED <<revision, target, peer, unconfirmed, recovery,
                 intent, lease, allow, after, waiter, linkVars>>

DisconnectSeen ==
  /\ pc = "awaitDisconnect" /\ disconnected
  /\ ClearSession /\ AfterStop
  /\ UNCHANGED <<cmdVars, peer, unconfirmed, recovery, intent, lease, allow, after, waiter, linkVars>>

\* The transport's close(): closed at once, and the Core's link with it.
CloseTransport ==
  /\ tstate' = "closed" /\ server' = "down" /\ conn' = NoCore
  /\ core' = [c \in Cores |->
       IF c = conn /\ core[c] = "linked" THEN "dropped" ELSE core[c]]

\* The zero-delay timer of _stopSession wins over the disconnect.
DisconnectMissed ==
  /\ pc = "awaitDisconnect" /\ ~disconnected
  /\ ClearSession
  /\ IF TerminalRequested
     THEN AfterStop /\ UNCHANGED linkVars
     ELSE pc' = "replaceAfterStop" /\ CloseTransport /\ UNCHANGED <<phase, achieved>>
  /\ UNCHANGED <<cmdVars, peer, unconfirmed, recovery, intent, lease, allow, after, waiter>>

\* replace() in _stopSession returns, or throws what the old close() threw;
\* the new transport is bound either way.
ReplaceAfterStopReturns(ok) ==
  /\ pc = "replaceAfterStop"
  /\ tstate' = "idle"
  /\ IF ok \/ allow THEN AfterStop /\ UNCHANGED outcome ELSE Fail
  /\ UNCHANGED <<revision, target, session, peer, disconnected, unconfirmed, recovery,
                 intent, lease, allow, after, waiter, server, conn, core>>

\* The closed branch of _reconcile.
CloseBegins ==
  /\ pc = "close" /\ pc' = "closing" /\ CloseTransport
  /\ UNCHANGED <<cmdVars, stateVars, intent, achieved, lease, allow, after, waiter>>

CloseReturns(ok) ==
  /\ pc = "closing"
  /\ IF ok THEN phase' = "closed" /\ Achieve("closed") /\ UNCHANGED outcome ELSE Fail
  /\ UNCHANGED <<revision, target, session, peer, disconnected, unconfirmed, recovery,
                 intent, lease, allow, after, waiter, linkVars>>

-----------------------------------------------------------------------------
(* Starting: _startSession.                                                *)

\* _ensureTransportReady.  A connected transport without a session carries a
\* Core nobody asked for: it is replaced.
Prepare ==
  /\ pc = "prepare"
  /\ \/ /\ tstate \in {"failed", "closed", "connected"}
        /\ pc' = "replaceToStart" /\ CloseTransport
     \/ tstate = "ready" /\ pc' = "resolving" /\ UNCHANGED linkVars
     \/ /\ tstate \in {"idle", "starting"}
        /\ pc' = "opening" /\ tstate' = "starting" /\ UNCHANGED <<server, conn, core>>
  /\ UNCHANGED <<cmdVars, stateVars, intent, achieved, lease, allow, after, waiter>>

ReplaceToStartReturns(ok) ==
  /\ pc = "replaceToStart"
  /\ IF ok THEN pc' = "opening" /\ tstate' = "starting" /\ UNCHANGED <<phase, outcome, achieved>>
           ELSE Fail /\ tstate' = "idle"
  /\ UNCHANGED <<revision, target, session, peer, disconnected, unconfirmed, recovery,
                 intent, lease, allow, after, waiter, server, conn, core>>

Opened ==
  /\ pc = "opening" /\ tstate \in {"ready", "connected"}
  /\ pc' = "resolving"
  /\ UNCHANGED <<cmdVars, stateVars, intent, achieved, lease, allow, after, waiter, linkVars>>

OpenAbandoned ==
  /\ pc = "opening" /\ ~WantsRunning
  /\ Abandon
  /\ UNCHANGED <<cmdVars, session, peer, disconnected, unconfirmed, recovery,
                 intent, lease, allow, after, waiter, linkVars>>

\* open() threw, or timeouts.ready passed.
OpenFails ==
  /\ pc = "opening"
  /\ Fail
  /\ UNCHANGED <<revision, target, session, peer, disconnected, unconfirmed, recovery,
                 intent, lease, allow, after, waiter, linkVars>>

\* launcherResolver.resolve() returns: watch for the connection and launch.
Resolved ==
  /\ pc = "resolving"
  /\ IF WantsRunning
     THEN /\ pc' = "launching" /\ waiter' = "waiting"
          /\ \E c \in Cores : core[c] = "unborn" /\ lease' = c
          /\ UNCHANGED <<phase, achieved>>
     ELSE Abandon /\ UNCHANGED <<lease, waiter>>
  /\ UNCHANGED <<cmdVars, session, peer, disconnected, unconfirmed, recovery,
                 intent, allow, after, linkVars>>

\* releaseLease: _cleanObsoleteLease begins.
Release(next) == pc' = "releasing" /\ after' = next /\ waiter' = "off"

LaunchReturns ==
  /\ pc = "launching" /\ core[lease] # "unborn"
  /\ IF WantsRunning THEN pc' = "connecting" /\ UNCHANGED <<after, waiter>>
     ELSE Release("abandon")
  /\ UNCHANGED <<cmdVars, stateVars, intent, achieved, lease, allow, linkVars>>

\* launcher.start throws.  A launcher that keeps its contract has then left no
\* Core; see HelperLaunch for one that does not.
LaunchFails ==
  /\ pc = "launching"
  /\ LauncherLeaks \/ lease \notin Alive
  /\ Fail /\ lease' = NoCore /\ waiter' = "off"
  /\ UNCHANGED <<revision, target, session, peer, disconnected, unconfirmed, recovery,
                 intent, allow, after, linkVars>>

Connected ==
  /\ pc = "connecting" /\ WantsRunning /\ waiter = "connected"
  /\ IF VerifyPeerPid /\ peer # lease
     THEN Release("error") /\ UNCHANGED <<session, disconnected, phase, lease, achieved>>
     ELSE /\ session' = lease /\ disconnected' = FALSE /\ phase' = "running"
          /\ lease' = NoCore /\ waiter' = "off" /\ Achieve("runningFresh") /\ UNCHANGED after
  /\ UNCHANGED <<cmdVars, peer, unconfirmed, recovery, intent, allow, linkVars>>

\* The transport failed, or timeouts.connection passed.
ConnectFails ==
  /\ pc = "connecting" /\ waiter = "failed"
  /\ Release("error")
  /\ UNCHANGED <<cmdVars, stateVars, intent, achieved, lease, allow, linkVars>>

ConnectAbandoned ==
  /\ pc = "connecting" /\ ~WantsRunning
  /\ Release("abandon")
  /\ UNCHANGED <<cmdVars, stateVars, intent, achieved, lease, allow, linkVars>>

\* Mutant of ReleaseReturns: the lease that did not confirm its exit is dropped.
ReleaseForgets(confirmed) ==
  /\ pc = "releasing"
  /\ confirmed => lease \notin Alive
  /\ lease' = NoCore
  /\ IF confirmed /\ after = "abandon" THEN Abandon /\ UNCHANGED outcome ELSE Fail
  /\ UNCHANGED <<revision, target, session, peer, disconnected, unconfirmed, recovery,
                 intent, allow, after, waiter, linkVars>>

\* _cleanObsoleteLease returns, and _startSession with it.
ReleaseReturns(confirmed) ==
  /\ pc = "releasing"
  /\ confirmed => lease \notin Alive
  /\ lease' = NoCore
  /\ unconfirmed' = IF confirmed THEN unconfirmed ELSE lease
  /\ IF confirmed /\ after = "abandon" THEN Abandon /\ UNCHANGED outcome ELSE Fail
  /\ UNCHANGED <<revision, target, session, peer, disconnected, recovery,
                 intent, allow, after, waiter, linkVars>>

-----------------------------------------------------------------------------
(* The outside: Core processes, the IPC server and timers.                 *)

\* Microtasks the worker still owes to the current turn.
WorkerRuns ==
  \/ pc = "loop" /\ recovery = NoCore
  \/ pc \in {"settle", "prepare", "close"}
  \/ pc = "awaitDisconnect" /\ disconnected
  \/ pc = "opening" /\ (tstate \in {"ready", "connected", "failed"} \/ ~WantsRunning)
  \/ pc = "connecting" /\ (waiter # "waiting" \/ ~WantsRunning)

Quiet == ~WorkerRuns

Spawn ==
  /\ Quiet /\ pc = "launching" /\ core[lease] = "unborn"
  /\ core' = [core EXCEPT ![lease] = "dialing"]
  /\ UNCHANGED <<cmdVars, stateVars, workVars, tstate, server, conn>>

CoreExits(c) ==
  /\ Quiet /\ c \in Alive
  /\ core' = [core EXCEPT ![c] = "exited"]
  /\ UNCHANGED <<cmdVars, stateVars, workVars, tstate, server, conn>>

ServerReady ==
  /\ Quiet /\ tstate = "starting" /\ tstate' = "ready" /\ server' = "up"
  /\ UNCHANGED <<cmdVars, stateVars, workVars, conn, core>>

\* A connected frame: one link at a time; the waiter takes the first it sees.
Links(c) ==
  /\ Quiet /\ server = "up" /\ conn = NoCore /\ core[c] = "dialing"
  /\ conn' = c /\ core' = [core EXCEPT ![c] = "linked"] /\ tstate' = "connected"
  /\ IF waiter = "waiting" THEN waiter' = "connected" /\ peer' = c
     ELSE UNCHANGED <<waiter, peer>>
  /\ UNCHANGED <<cmdVars, phase, session, disconnected, unconfirmed, recovery,
                 pc, intent, achieved, lease, allow, after, server>>

\* _handleUnexpectedDisconnect
Crash ==
  IF recovery = NoCore /\ session # NoCore
  THEN phase' = "failed" /\ session' = NoCore /\ disconnected' = FALSE /\ recovery' = session
  ELSE UNCHANGED <<phase, session, disconnected, recovery>>

\* _SessionDisconnect.record
RecordDisconnect(c) ==
  /\ IF session # NoCore /\ c = peer THEN disconnected' = TRUE ELSE UNCHANGED disconnected
  /\ UNCHANGED <<phase, session, recovery>>

\* Mutant of OnDisconnected: only a stop in progress looks at disconnects.
OnDisconnectedWhileStopping(c) == RecordDisconnect(c)

\* _handleTransportEvent(TransportDisconnected)
OnDisconnected(c) ==
  IF phase = "running" /\ c = peer THEN Crash ELSE RecordDisconnect(c)

\* The connected frame's counterpart; without LossWhileLaunching a connection
\* lives at least until the launcher has answered.
Unlinks(c) ==
  /\ Quiet /\ conn = c /\ core[c] \in {"linked", "exited"}
  /\ LossWhileLaunching \/ ~(pc = "launching" /\ waiter = "connected")
  /\ conn' = NoCore /\ tstate' = "ready"
  /\ core' = [core EXCEPT ![c] = IF core[c] = "linked" THEN "dropped" ELSE core[c]]
  /\ OnDisconnected(c)
  /\ UNCHANGED <<cmdVars, peer, unconfirmed, workVars, server>>

\* _fail and its TransportFailed event.
OnFailed ==
  /\ waiter' = IF waiter = "waiting" THEN "failed" ELSE waiter
  /\ IF phase = "running" THEN Crash ELSE UNCHANGED <<phase, session, disconnected, recovery>>

\* An error frame: the server did not come up, could not admit a peer, or lost
\* the link (the disconnected frame follows).
TransportFails ==
  /\ Quiet /\ tstate \in {"starting", "ready", "connected"}
  /\ tstate' = "failed"
  /\ OnFailed
  /\ UNCHANGED <<cmdVars, peer, unconfirmed, pc, intent, achieved, lease, allow, after,
                 server, conn, core>>

\* The stream of the server ends: the link is gone and the transport failed.
ServerDies ==
  /\ Quiet /\ server = "up" /\ server' = "down"
  /\ LossWhileLaunching \/ ~(pc = "launching" /\ waiter = "connected")
  /\ tstate' = "failed" /\ conn' = NoCore
  /\ core' = [c \in Cores |->
       IF c = conn /\ core[c] = "linked" THEN "dropped" ELSE core[c]]
  /\ IF tstate = "failed" /\ conn = NoCore   \* nothing new to tell
     THEN UNCHANGED <<phase, session, disconnected, recovery, waiter>>
     ELSE /\ waiter' = IF waiter = "waiting" THEN "failed" ELSE waiter
          /\ IF phase = "running" THEN Crash ELSE RecordDisconnect(conn)
  /\ UNCHANGED <<cmdVars, peer, unconfirmed, pc, intent, achieved, lease, allow, after>>

\* The waiter's timer runs from its creation, the launch included.
ConnectionTimeout ==
  /\ Quiet /\ waiter = "waiting" /\ waiter' = "failed"
  /\ UNCHANGED <<cmdVars, stateVars, pc, intent, achieved, lease, allow, after, linkVars>>

\* The cleanup of a crashed session returns.
RecoveryReturns(confirmed) ==
  /\ Quiet /\ recovery # NoCore
  /\ confirmed => recovery \notin Alive
  /\ recovery' = NoCore
  /\ unconfirmed' = IF confirmed THEN unconfirmed ELSE recovery
  /\ UNCHANGED <<cmdVars, phase, session, peer, disconnected, workVars, linkVars>>

-----------------------------------------------------------------------------
\* A microtask of the worker.
Microtask ==
  \/ Capture \/ Settle \/ Prepare \/ CloseBegins \/ DisconnectSeen
  \/ Opened \/ OpenAbandoned \/ (OpenFails /\ tstate = "failed")
  \/ Connected \/ ConnectFails \/ ConnectAbandoned

\* An await of the worker that returns, or its timer that fires.
AwaitReturns ==
  /\ Quiet
  /\ \/ \E ok \in BOOLEAN :
          \/ UnconfirmedStopReturns(ok) \/ SessionStopReturns(ok)
          \/ ReplaceAfterStopReturns(ok) \/ ReplaceToStartReturns(ok)
          \/ CloseReturns(ok) \/ ReleaseReturns(ok)
     \/ DisconnectMissed \/ OpenFails \/ Resolved \/ LaunchReturns \/ LaunchFails

Environment ==
  \/ \E t \in Targets : Submit(t)
  \/ Spawn \/ ServerReady \/ TransportFails \/ ServerDies
  \/ \E c \in Cores : CoreExits(c) \/ Links(c)

Next ==
  \/ Environment \/ Microtask \/ AwaitReturns \/ ConnectionTimeout
  \/ \E ok \in BOOLEAN : RecoveryReturns(ok)
  \/ \E c \in Cores : Unlinks(c)

Spec == Init /\ [][Next]_vars

\* Dart runs its microtasks; every awaited future completes or times out
\* (lease.stop, open and the connection carry timeouts, the HTTP client of the
\* launcher too; stop_server joins a thread that polls); the server notices a
\* dead peer.  Nothing is assumed of users, Cores or failures.
Fairness ==
  /\ WF_vars(Microtask) /\ WF_vars(AwaitReturns) /\ WF_vars(ConnectionTimeout)
  /\ WF_vars(\E ok \in BOOLEAN : RecoveryReturns(ok))
  /\ \A c \in Cores : WF_vars(Unlinks(c) /\ core[c] = "exited")

FairSpec == Spec /\ Fairness

-----------------------------------------------------------------------------
CoreOrNone == Cores \cup {NoCore}

\* The types of the commands, the published state, the worker and the link.
TypeOK ==
  /\ revision \in 0..MaxRevision
  /\ target \in [0..MaxRevision -> Targets]
  /\ outcome \in [1..MaxRevision -> Outcomes]
  /\ phase \in Phases /\ disconnected \in BOOLEAN
  /\ session \in CoreOrNone /\ peer \in CoreOrNone /\ unconfirmed \in CoreOrNone
  /\ recovery \in CoreOrNone /\ lease \in CoreOrNone /\ conn \in CoreOrNone
  /\ pc \in Pcs /\ intent \in 0..revision /\ achieved \in Achievements
  /\ allow \in BOOLEAN /\ after \in {"abandon", "error"}
  /\ waiter \in {"off", "waiting", "connected", "failed"}
  /\ tstate \in TransportStates /\ server \in {"up", "down"}
  /\ core \in [Cores -> {"unborn", "dialing", "linked", "dropped", "exited"}]

\* No two Cores run at once, whatever is submitted, fails or crashes meanwhile
\* (lifecycle.dart:311-318 and 249-252 hold back a start until the last Core is
\* known dead).
SingleCore == \A c, d \in Alive : c = d

\* Until close() is asked for, every running Core is held by the session, by
\* the start in progress, by the crash cleanup or as an unconfirmed lease: no
\* error path drops a Core that may still run.
NoCoreForgotten ==
  TerminalRequested \/ Alive \subseteq {session, lease, unconfirmed, recovery}

\* What is published as running is a session whose connection is up: a Core
\* that dropped its link was noticed (_handleUnexpectedDisconnect).
RunningIsConnected ==
  phase = "running" => session # NoCore /\ conn # NoCore /\ conn = peer

\* The running session talks to the Core it leased, not to a stray one.
PeerIsOwn == phase = "running" => peer = session

\* Commands settle in the order they were submitted: none is left behind by a
\* newer one that was answered.
SettledInOrder ==
  \A r, s \in 1..revision : r < s /\ outcome[r] = "pending" => outcome[s] = "pending"

\* A stop answered "applied" leaves no Core running, even when it won over a
\* start, a crash cleanup or a failed earlier stop.
StopMeansNoCore ==
  [][\A r \in 1..MaxRevision :
       outcome[r] # "applied" /\ outcome'[r] = "applied" /\ target[r] = "stopped"
         => Alive = {} /\ session = NoCore]_vars

\* An error takes down only commands that the failing attempt already served: a
\* newer command, submitted while it failed, is tried on its own.
NewerCommandSurvives ==
  [][\A r \in 1..MaxRevision :
       outcome[r] = "pending" /\ outcome'[r] = "failed" => r <= intent]_vars

\* The reconciler implements the contract its callers rely on: the latest intent
\* wins, and a Core starts only on demand and when no other Core runs.
Promise == INSTANCE LatestIntent WITH live <- Alive
KeepsPromise == Promise!Spec

\* Every command is answered: no interleaving of commands, crashes and timeouts
\* leaves the caller of start() or stop() waiting.
EveryCommandSettles ==
  \A r \in 1..MaxRevision : outcome[r] = "pending" ~> outcome[r] # "pending"

\* A Core that dies while its session is published as running is noticed.
LostCoreIsReported ==
  (phase = "running" /\ peer \notin Alive) ~> (phase # "running" \/ peer \in Alive)
=============================================================================
