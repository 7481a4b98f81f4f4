------------------------------ MODULE AppActions ------------------------------
(***************************************************************************)
(* The app's actions on a running Core: CoreAction.restartCore with its     *)
(* worker (lib/providers/actions/core.dart) and SetupAction (setup.dart):   *)
(* setRunning, applyProfile, updateConfig and the authorization of TUN.     *)
(* They are asynchronous calls in one isolate, which interleave at every    *)
(* await, share two serial schedulers and start one another.                *)
(*                                                                         *)
(* A call, or the worker, is a process with one step per await.             *)
(*                                                                         *)
(* Abstractions: the Core keeps whether it was launched with the rights     *)
(* TUN needs, whether TUN is configured and whether it listens; a setup is  *)
(* forced; the one a start leaves to a debouncer is a call that may come or  *)
(* not; suspend, start times and the first launch are left out, and so is   *)
(* a Core that crashes by itself.  A call ended leaves nothing behind.       *)
(***************************************************************************)
EXTENDS Naturals, Sequences

CONSTANTS
  MaxCalls,              \* bound: calls of the user interface
  MaxFaults              \* bound: calls of the Core that fail though it runs

ASSUME ActionsAssumption == MaxCalls \in Nat /\ MaxFaults \in Nat

Calls  == 1..MaxCalls   \* the calls, in the order they are made
Worker == 0             \* _runRestartWorker
Procs  == Calls \cup {Worker}
Kinds == {"restart", "apply", "update", "start", "initialize", "stop"}

VARIABLES
  step,           \* step[p]: what p awaits
  kind,           \* kind[p]: the call that p is, while it is under way
  answer,         \* answer[p]: "none", "yes", "no" or "error"
  asked,          \* _requestedRestartRevision is past what the worker has captured
  unserved,       \* history: restarts asked for since the worker last set up
  status,         \* coreStatusProvider
  latest,         \* _latestRunRequest: whose it is
  listener,       \* listener[p]: its listener task, or "none"
  setupQueue,     \* _setupScheduler: the processes in line, the first at work
  listenerQueue,  \* _listenerScheduler
  shown,          \* isStartProvider
  spoiled,        \* history: the last request failed
  tunWanted,      \* tun.enable of the settings
  authorization,  \* authorizedTunEnableProvider
  granted,        \* the Core's executable, or the Helper, gives it its rights
  aim,            \* aim[p]: the TUN setting p sends
  core,           \* the Core process
  late,           \* history: a grant has joined a restart past its launch, without the rights
  faults

restartVars == <<asked, unserved, status>>
requestVars == <<latest, shown, spoiled>>
listenVars  == <<listener, listenerQueue>>
setupVars   == <<setupQueue, tunWanted, authorization, granted, aim>>
coreVars    == <<core, late, faults>>
actionVars  == <<step, kind, answer, restartVars, requestVars, listenVars, setupVars, coreVars>>

Launched(rights) == [alive |-> TRUE, privileged |-> rights, tun |-> FALSE, listening |-> FALSE]

ActionsInit ==
  /\ step = [p \in Procs |-> IF p = Worker THEN "off" ELSE "idle"]
  /\ kind = [p \in Procs |-> IF p = Worker THEN "worker" ELSE "none"] /\ answer = [p \in Procs |-> "none"]
  /\ asked = FALSE /\ unserved = {} /\ status = "connected"
  /\ latest = Worker
  /\ listener = [p \in Procs |-> "none"] /\ setupQueue = <<>> /\ listenerQueue = <<>>
  /\ shown = FALSE /\ spoiled = FALSE
  /\ tunWanted = FALSE /\ authorization = "none" /\ granted \in BOOLEAN
  /\ aim = [p \in Procs |-> FALSE]
  /\ core = Launched(granted) /\ late = FALSE /\ faults = 0

\* A call of the Core that is answered, or that fails.
CoreAnswers == core.alive /\ UNCHANGED <<late, faults>>
CoreFails ==
  /\ UNCHANGED <<core, late>>
  /\ IF core.alive THEN faults < MaxFaults /\ faults' = faults + 1 ELSE UNCHANGED faults

-----------------------------------------------------------------------------
(* restartCore: the callers share the worker's future                       *)

RestartCore(p) ==
  /\ asked' = TRUE
  /\ unserved' = unserved \cup {p}
  /\ step' = [step EXCEPT ![p] = "joined",
                          ![Worker] = IF @ = "off" THEN "lifecycle" ELSE @]
  /\ status' = IF step[Worker] = "off" THEN "connecting" ELSE status

\* The worker's future completes with `outcome`, and _restartOperation is cleared.
WorkerEnds(outcome) ==
  LET joined == {p \in Procs : step[p] = "joined"}
  IN  /\ step' = [p \in Procs |-> IF p = Worker THEN "off"
                                  ELSE IF p \in joined THEN "told" ELSE step[p]]
      /\ answer' = [p \in Procs |-> IF p \in joined THEN outcome
                                   ELSE IF p = Worker THEN "none" ELSE answer[p]]

\* The lifecycle stops the Core: calls in flight, and those made until the next one
\* runs, may fail.
Stop ==
  /\ step[Worker] = "lifecycle" /\ step' = [step EXCEPT ![Worker] = "launching"]
  /\ core' = [Launched(FALSE) EXCEPT !.alive = FALSE]
  /\ UNCHANGED <<kind, answer, restartVars, requestVars, listenVars, setupVars, late, faults>>

\* It starts the next Core, is superseded by close, or fails.
Launch ==
  /\ step[Worker] = "launching"
  /\ \/ /\ core' = Launched(granted) /\ late' = FALSE /\ status' = "connected"
        /\ step' = [step EXCEPT ![Worker] = "init"] /\ UNCHANGED <<answer, faults>>
     \/ /\ faults < MaxFaults /\ faults' = faults + 1 /\ UNCHANGED <<core, late>>
        /\ \/ WorkerEnds("no") /\ UNCHANGED status
           \/ WorkerEnds("error") /\ status' = "disconnected"
  /\ UNCHANGED <<kind, asked, unserved, requestVars, listenVars, setupVars>>

InitCore ==
  /\ step[Worker] = "init"
  /\ \/ CoreAnswers /\ step' = [step EXCEPT ![Worker] = "loop"] /\ UNCHANGED <<core, status, answer>>
     \/ CoreFails /\ WorkerEnds("error") /\ status' = "disconnected"
  /\ UNCHANGED <<kind, asked, unserved, requestVars, listenVars, setupVars>>

\* setRunning: the request is current at once, and shown before the Core has been told.
Request(p, running) ==
  /\ latest' = p
  /\ shown' = running /\ spoiled' = FALSE

IsCurrent(p) == latest = p

\* What the request of p asks for: _RunRequest.running.
Wish(p) == kind[p] # "stop" /\ step[p] # "stopping"

\* _setCoreRunning: in line for the listener.
ListenInLine(p) ==
  /\ listener' = [listener EXCEPT ![p] = "queued"]
  /\ listenerQueue' = Append(listenerQueue, p)

\* In line for the setup; a start that initializes listens when the setup calls the Core.
SetupInLine(p, preload) ==
  /\ setupQueue' = Append(setupQueue, p)
  /\ listener' = [listener EXCEPT ![p] = IF preload THEN "wanted" ELSE "none"]

\* One more round of the worker's loop, or its end.
RoundIf(more) ==
  /\ step[Worker] = "loop"
  /\ asked' = FALSE
  /\ \/ /\ more /\ step' = [step EXCEPT ![Worker] = "queued"]
        /\ SetupInLine(Worker, shown)
        /\ IF shown THEN Request(Worker, TRUE) ELSE UNCHANGED requestVars
        /\ UNCHANGED answer
     \/ /\ ~more /\ WorkerEnds(answer[Worker])
        /\ UNCHANGED <<setupQueue, listener, requestVars>>
  /\ UNCHANGED <<kind, unserved, status, listenerQueue, tunWanted, authorization, granted, aim,
                 coreVars>>

\* Mutant of Loop: what was asked for during the setup is not looked at again.
LoopOnce == RoundIf(answer[Worker] = "none")

\* The worker goes on for what has been asked for since.
Loop == RoundIf(asked)

-----------------------------------------------------------------------------
(* The calls                                                                *)

Call(c, k) ==
  /\ step[c] = "idle" /\ \A earlier \in 1..(c - 1) : step[earlier] # "idle"
  /\ kind' = [kind EXCEPT ![c] = k]
  /\ \/ /\ k = "restart" /\ RestartCore(c)
        /\ UNCHANGED <<requestVars, listenVars, setupQueue>>
     \/ /\ k = "apply" /\ step' = [step EXCEPT ![c] = "queued"] /\ SetupInLine(c, FALSE)
        /\ UNCHANGED <<restartVars, requestVars, listenerQueue>>
     \/ /\ k = "update" /\ step' = [step EXCEPT ![c] = "requesting"]
        /\ UNCHANGED <<restartVars, requestVars, listenVars, setupQueue>>
     \/ /\ k \in {"start", "stop"} /\ Request(c, k = "start") /\ ListenInLine(c)
        /\ step' = [step EXCEPT ![c] = "running"]
        /\ UNCHANGED <<restartVars, setupQueue>>
     \/ /\ k = "initialize" /\ Request(c, TRUE) /\ SetupInLine(c, TRUE)
        /\ step' = [step EXCEPT ![c] = "queued"]
        /\ UNCHANGED <<restartVars, listenerQueue>>
  /\ UNCHANGED <<answer, tunWanted, authorization, granted, aim, coreVars>>

\* The setting is changed; the update that follows is one of the calls.
WantTun ==
  /\ ~tunWanted /\ tunWanted' = TRUE
  /\ UNCHANGED <<step, kind, answer, restartVars, requestVars, listenVars, setupQueue,
                 authorization, granted, aim, coreVars>>

-----------------------------------------------------------------------------
(* requestAdmin                                                             *)

\* An update asks at once, a setup when it is the first in line.
Requesting(p) ==
  \/ step[p] = "requesting"
  \/ step[p] = "queued" /\ setupQueue # <<>> /\ Head(setupQueue) = p

\* With `tun` the update, or the setup, calls the Core; a start that initializes listens too.
Continue(p, tun) ==
  /\ aim' = [aim EXCEPT ![p] = tun]
  /\ step' = [step EXCEPT ![p] = IF kind[p] = "update" THEN "updating" ELSE "configuring"]
  /\ IF listener[p] = "wanted" THEN ListenInLine(p) ELSE UNCHANGED listenVars
  /\ unserved' = IF p = Worker THEN {} ELSE unserved

\* TUN is not wanted, or the question was put before.
NoQuestion(p) ==
  /\ Requesting(p)
  /\ ~(tunWanted /\ authorization = "none")
  /\ Continue(p, tunWanted /\ authorization = "authorized")
  /\ UNCHANGED <<kind, answer, asked, status, requestVars, setupQueue, tunWanted,
                 authorization, granted, coreVars>>

Ask(p) ==
  /\ Requesting(p) /\ tunWanted /\ authorization = "none"
  /\ authorization' = "unauthorized"
  /\ step' = [step EXCEPT ![p] = "authorizing"]
  /\ UNCHANGED <<kind, answer, restartVars, requestVars, listenVars, setupQueue, tunWanted,
                 granted, aim, coreVars>>

\* Authorized all along, or refused: the setup goes on.
Answered(p) ==
  /\ step[p] = "authorizing"
  /\ \/ granted /\ authorization' = "authorized" /\ Continue(p, TRUE)
     \/ UNCHANGED authorization /\ Continue(p, FALSE)
  /\ UNCHANGED <<kind, answer, asked, status, requestVars, setupQueue, tunWanted,
                 granted, coreVars>>

LeaveSetup(p) ==
  setupQueue' = IF kind[p] = "update" THEN setupQueue ELSE Tail(setupQueue)

\* The user grants the rights.
Grant(p) ==
  /\ step[p] = "authorizing" /\ ~granted
  /\ granted' = TRUE /\ authorization' = "authorized"

\* Mutant of Granted: the serial task is held until the restart is over.
GrantedHolding(p) ==
  /\ Grant(p) /\ step' = [step EXCEPT ![p] = "handoff"]
  /\ UNCHANGED <<kind, answer, restartVars, requestVars, listenVars, setupQueue, tunWanted, aim,
                 coreVars>>

\* Mutant of Granted: the setup goes on, without a restart.
GrantedInline(p) ==
  /\ Grant(p) /\ Continue(p, TRUE)
  /\ UNCHANGED <<kind, answer, asked, status, requestVars, setupQueue, tunWanted, coreVars>>

\* Newly authorized: the serial task is left, and the Core handed to a restart.
Granted(p) ==
  /\ Grant(p) /\ step' = [step EXCEPT ![p] = "handoff"]
  /\ LeaveSetup(p)
  /\ UNCHANGED <<kind, answer, restartVars, requestVars, listenVars, tunWanted, aim, coreVars>>

\* The restart it joins may have launched the Core before the rights were granted.
HandOff(p) ==
  /\ step[p] = "handoff" /\ RestartCore(p)
  /\ late' = (late \/ (step[Worker] \notin {"off", "lifecycle", "launching"} /\ ~core.privileged))
  /\ UNCHANGED <<kind, answer, requestVars, listenVars, setupVars, core, faults>>

-----------------------------------------------------------------------------
(* The listener                                                             *)

\* Mutant of TellCore: an overtaken request is carried out.
TellCoreAnyway ==
  /\ listenerQueue # <<>>
  /\ LET p == Head(listenerQueue)
     IN  /\ listener[p] = "queued" /\ listener' = [listener EXCEPT ![p] = "calling"]
         /\ UNCHANGED listenerQueue
  /\ UNCHANGED <<step, kind, answer, restartVars, requestVars, setupVars, coreVars>>

\* The first in line calls the Core, unless it was overtaken.
TellCore ==
  /\ listenerQueue # <<>>
  /\ LET p == Head(listenerQueue)
     IN  /\ listener[p] = "queued"
         /\ IF IsCurrent(p)
            THEN listener' = [listener EXCEPT ![p] = "calling"] /\ UNCHANGED listenerQueue
            ELSE /\ listener' = [listener EXCEPT ![p] = "ok"]
                 /\ listenerQueue' = Tail(listenerQueue)
  /\ UNCHANGED <<step, kind, answer, restartVars, requestVars, setupVars, coreVars>>

\* The call ends: carried out, failed, or answered false, which nobody looks at.
CoreTold ==
  /\ listenerQueue # <<>>
  /\ LET p == Head(listenerQueue)
     IN  /\ listener[p] = "calling"
         /\ \/ /\ CoreAnswers /\ core' = [core EXCEPT !.listening = Wish(p)]
               /\ listener' = [listener EXCEPT ![p] = "ok"] /\ UNCHANGED spoiled
            \/ /\ CoreFails
               /\ \E outcome \in {"ok", "failed"} : listener' = [listener EXCEPT ![p] = outcome]
               /\ spoiled' = (spoiled \/ IsCurrent(p))
  /\ listenerQueue' = Tail(listenerQueue)
  /\ UNCHANGED <<step, kind, answer, restartVars, latest, shown, setupVars>>

\* p is through: the worker goes on with what its setup answered.
Finish(p, outcome) ==
  /\ step' = [step EXCEPT ![p] = IF p = Worker THEN "loop" ELSE "done"]
  /\ answer' = [answer EXCEPT ![p] = IF p = Worker THEN outcome ELSE "none"]
  /\ kind' = [kind EXCEPT ![p] = IF p = Worker THEN @ ELSE "none"]

\* The request has been carried out; one that failed is taken back if it is current.
Ran(p) ==
  /\ step[p] = "running" /\ listener[p] \in {"ok", "failed"}
  /\ Finish(p, "yes") /\ listener' = [listener EXCEPT ![p] = "none"]
  /\ shown' = IF listener[p] = "failed" /\ IsCurrent(p) THEN ~Wish(p) ELSE shown
  /\ UNCHANGED <<restartVars, latest, spoiled, listenerQueue, setupVars, coreVars>>

-----------------------------------------------------------------------------
(* setupConfig and updateConfig                                             *)

Configured(p) ==
  /\ step[p] = "configuring" /\ aim' = [aim EXCEPT ![p] = FALSE]
  /\ \/ /\ CoreAnswers /\ core' = [core EXCEPT !.tun = aim[p]]
        /\ step' = [step EXCEPT ![p] = "configured"]
     \/ CoreFails /\ step' = [step EXCEPT ![p] = "rejected"]
  /\ UNCHANGED <<kind, answer, restartVars, requestVars, listenVars, setupQueue, tunWanted,
                 authorization, granted>>

\* What the setup of p answers: to a call, to the worker's loop, or to _start, which
\* stops again when it has failed and is current.
Answers(p, outcome) ==
  \/ /\ outcome # "yes" /\ listener[p] # "none" /\ IsCurrent(p)
     /\ Request(p, FALSE) /\ ListenInLine(p)
     /\ step' = [step EXCEPT ![p] = "stopping"]
     /\ UNCHANGED <<answer, kind>>
  \/ /\ outcome = "yes" \/ listener[p] = "none" \/ ~IsCurrent(p)
     /\ Finish(p, outcome)
     /\ listener' = [listener EXCEPT ![p] = "none"]
     /\ UNCHANGED <<requestVars, listenerQueue>>

\* The setup and the listener task that goes with it are over.
SetUp(p) ==
  /\ step[p] \in {"configured", "rejected"} /\ listener[p] \notin {"queued", "calling"}
  /\ LeaveSetup(p)
  /\ Answers(p, IF step[p] = "configured" /\ listener[p] # "failed" THEN "yes" ELSE "no")
  /\ UNCHANGED <<restartVars, tunWanted, authorization, granted, aim, coreVars>>

\* The stop after a failed start is over, however it ended; a failed one is taken back.
Stopped(p) ==
  /\ step[p] = "stopping" /\ listener[p] \in {"ok", "failed"}
  /\ shown' = IF listener[p] = "failed" /\ IsCurrent(p) THEN TRUE ELSE shown
  /\ Finish(p, "no") /\ listener' = [listener EXCEPT ![p] = "none"]
  /\ UNCHANGED <<restartVars, latest, spoiled, listenerQueue, setupVars, coreVars>>

\* The restart is over; one that failed opens the question again.
Told(p) ==
  /\ step[p] = "told"
  /\ authorization' = IF kind[p] # "restart" /\ answer[p] = "error" THEN "none" ELSE authorization
  /\ IF kind[p] \in {"restart", "update"}
     THEN Finish(p, answer[p]) /\ UNCHANGED <<requestVars, listenVars>>
     ELSE Answers(p, answer[p])
  /\ UNCHANGED <<restartVars, setupQueue, tunWanted, granted, aim, coreVars>>

Updated(p) ==
  /\ step[p] = "updating" /\ Finish(p, "yes") /\ aim' = [aim EXCEPT ![p] = FALSE]
  /\ \/ CoreAnswers /\ core' = [core EXCEPT !.tun = aim[p]]
     \/ CoreFails
  /\ UNCHANGED <<restartVars, requestVars, listenVars, setupQueue, tunWanted,
                 authorization, granted>>

-----------------------------------------------------------------------------
Await(p) ==
  \/ NoQuestion(p) \/ Ask(p) \/ Answered(p) \/ Granted(p) \/ HandOff(p) \/ Ran(p)
  \/ Configured(p) \/ SetUp(p) \/ Stopped(p) \/ (p \in Calls /\ (Told(p) \/ Updated(p)))

Restarting == Stop \/ Launch \/ InitCore \/ Loop

ActionsNext ==
  \/ \E c \in Calls, k \in Kinds : Call(c, k)
  \/ \E p \in Procs : Await(p)
  \/ Restarting \/ TellCore \/ CoreTold \/ WantTun

ActionsSpec == ActionsInit /\ [][ActionsNext]_actionVars

\* Every await ends: calls of the Core have a timeout, and the user answers the
\* system's question for a password.  Nobody has to call.
ActionsFairness ==
  /\ \A p \in Procs : WF_actionVars(Await(p))
  /\ WF_actionVars(Restarting) /\ WF_actionVars(TellCore \/ CoreTold)

FairActionsSpec == ActionsSpec /\ ActionsFairness

-----------------------------------------------------------------------------
(* Properties                                                               *)

ActionsTypeOK ==
  /\ step \in [Procs -> {"idle", "off", "lifecycle", "launching", "init", "loop", "queued", "requesting",
                         "authorizing", "handoff", "joined", "told", "running", "configuring",
                         "configured", "rejected", "stopping", "updating", "done"}]
  /\ kind \in [Procs -> Kinds \cup {"none", "worker"}]
  /\ answer \in [Procs -> {"none", "yes", "no", "error"}]
  /\ asked \in BOOLEAN /\ faults \in Nat
  /\ unserved \subseteq Procs /\ status \in {"connecting", "connected", "disconnected"}
  /\ latest \in Procs /\ aim \in [Procs -> BOOLEAN]
  /\ listener \in [Procs -> {"none", "wanted", "queued", "calling", "ok", "failed"}]
  /\ setupQueue \in Seq(Procs) /\ listenerQueue \in Seq(Procs)
  /\ {shown, spoiled, tunWanted, granted, late} \subseteq BOOLEAN
  /\ authorization \in {"none", "unauthorized", "authorized"}
  /\ core \in [alive : BOOLEAN, privileged : BOOLEAN, tun : BOOLEAN, listening : BOOLEAN]

\* Nothing is under way, and the Core is connected.
Settled ==
  /\ step[Worker] = "off" /\ \A c \in Calls : step[c] \in {"idle", "done"}
  /\ status = "connected"

\* Once nothing is under way, the app shows as running exactly a Core that listens,
\* whatever starts, stops and restarts have overtaken one another, unless the call of
\* the last request failed: it takes back what it had shown (setup.dart, setRunning
\* and _rollbackRunning; core.dart, _runRestartWorker).
RunningIsTrue == Settled /\ ~spoiled => shown = core.listening

\* A restart that is answered well has set the Core up after it was asked for, also
\* when it only joined another one (core.dart, restartCore; .agents/architecture.md:79-81).
RestartCoversCaller ==
  [][\A p \in Procs :
       step[p] = "joined" /\ step'[p] = "told" /\ answer'[p] = "yes" => p \notin unserved]_actionVars

\* The Core is restarted after admin has been newly granted, so that TUN that counts as
\* authorized has a Core that was launched with the rights for it, once nothing is under
\* way (action_test.dart:647; setup.dart, updateConfig and _restartCoreAfterAuthorization).
GrantRestartsCore == Settled /\ authorization = "authorized" => core.privileged

\* The same, but for a grant whose restart joined one that was past its launch: no other
\* interleaving leaves a Core without its rights (setup.dart, requestAdmin, updateConfig and
\* _runSetup; core.dart, restartCore).
AuthorizedCoreIsPrivileged == ~late => GrantRestartsCore

\* Every call ends: neither scheduler nor the worker waits for what waits for it
\* (setup.dart:301, "Release the current serial task before restartCore reapplies the profile").
CallEnds == <>[](\A c \in Calls : step[c] \in {"idle", "done"})

\* The same, but where the worker's own setup was granted the rights, and the worker
\* awaits itself: nothing else that calls do to each other keeps one from ending
\* (setup.dart, _runSetup; function.dart, SerialTaskScheduler; core.dart, restartCore).
OnlyTheWorkerBlocks == CallEnds \/ <>[](step[Worker] = "joined")
=============================================================================
