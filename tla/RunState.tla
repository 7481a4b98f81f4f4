------------------------------- MODULE RunState -------------------------------
(***************************************************************************)
(* The run state of the Android app: ServiceStateMachine with its arbiter  *)
(* and two locks, the permission callbacks of AppPlugin, and               *)
(* ServiceController with its one binding.                                 *)
(*                                                                         *)
(* Every request is a coroutine of its own on a pool of threads, and so is *)
(* the handling of each loss of the service; the main thread, the user and *)
(* Android run beside them.  A step ends where the code suspends, or where *)
(* another thread could change what it has read.  The activity, with its   *)
(* Flutter engine and the plugins of that, comes and goes at any time; one *)
(* is gone before the next one comes.                                      *)
(***************************************************************************)
EXTENDS Naturals, Sequences

CONSTANTS
  MaxRequests,  \* bound: requests to start or stop
  MaxLosses     \* bound: disconnections of a binding

ASSUME RunAssumption == MaxRequests \in Nat /\ MaxLosses \in Nat

Requests == 1..MaxRequests
Losses   == 1..MaxLosses

VARIABLES
  app,          \* an engine is attached, with its activity, which asks for permissions
  gateway,      \* the AppPlugin a request is about to ask: "none", the attached one or one "gone"
  latest,       \* the arbiter's token: the request, or what it was reset to
  asked,        \* requests so far
  kind,         \* of a request: "start", "stop" or "none"
  dropped,      \* history: the last request is a start that was denied before it was launched
  pc,           \* where its coroutine is
  enable,       \* the service it read from sharedState: "vpn" or "proxy"
  consent,      \* the answer it got: "none", "granted" or "denied"
  answer,       \* of its Deferred: "none", "yes" or "no"
  phase,        \* runState
  transition,   \* holder of transitionLock, 0 if none
  preparation,  \* holder of startPreparationLock, 0 if none
  pending,      \* whose pendingVpnPreparation it is, 0 if none
  notices,      \* requestNotificationCallback: the request it belongs to
  noticed,      \* notifications are "allowed", "refused" to the attached plugin, or neither
  slot,         \* vpnPrepareCallback: the request it belongs to
  main,         \* tasks posted to the main thread
  control,      \* holder of the ServiceController's lock, 0 if none
  binding,      \* its binding: number, kind and link
  runTime,      \* runTimeMillis is not 0
  service,      \* the service that was started and runs, or "none"
  losses,       \* handlers of disconnections
  raced         \* history: a start that overtook the handling of a loss

engineVars  == <<app, gateway>>
arbiterVars == <<latest, asked, kind, dropped>>
jobVars     == <<pc, enable, consent, answer>>
lockVars    == <<phase, transition, preparation>>
askVars     == <<pending, notices, noticed, slot, main>>
controlVars == <<control, binding, runTime, service>>
lossVars    == <<losses, raced>>
vars == <<engineVars, arbiterVars, jobVars, lockVars, askVars, controlVars, lossVars>>

-----------------------------------------------------------------------------
(* RunIntentArbiter                                                         *)

\* The token that a reset of t leaves, another one for every t.
Stopped(t) == t + MaxRequests + 1

RunningRequested == latest \in Requests /\ kind[latest] = "start"

IsCurrent(t) == latest = t

ResetToStopped(t) ==
  /\ latest' = IF IsCurrent(t) THEN Stopped(t) ELSE latest
  /\ UNCHANGED <<asked, kind, dropped>>

-----------------------------------------------------------------------------
NoBinding(n) == [number |-> n, kind |-> "none", link |-> "none"]

Init ==
  /\ app \in BOOLEAN /\ gateway = [r \in Requests |-> "none"]
  /\ latest = 0 /\ asked = 0 /\ kind = [r \in Requests |-> "none"] /\ dropped = FALSE
  /\ pc = [r \in Requests |-> "none"] /\ enable = [r \in Requests |-> "none"]
  /\ consent = [r \in Requests |-> "none"] /\ answer = [r \in Requests |-> "none"]
  /\ phase = "STOPPED" /\ transition = 0 /\ preparation = 0
  /\ pending = 0 /\ notices = 0 /\ noticed \in {"no", "allowed"} /\ slot = 0 /\ main = <<>>
  /\ control = 0 /\ binding = NoBinding(0) /\ runTime = FALSE /\ service = "none"
  /\ losses = [l \in Losses |-> [pc |-> "none", token |-> 0, number |-> 0]]
  /\ raced = FALSE

Goto(r, label) == pc' = [pc EXCEPT ![r] = label] /\ UNCHANGED <<enable, consent, answer>>

\* The Deferred of r completes.
Done(r, value) ==
  /\ pc' = [pc EXCEPT ![r] = "done"] /\ answer' = [answer EXCEPT ![r] = value]
  /\ enable' = [enable EXCEPT ![r] = "none"] /\ UNCHANGED consent

-----------------------------------------------------------------------------
(* Requests                                                                 *)

NewRequest(r, k) ==
  /\ asked < MaxRequests /\ r = asked + 1
  /\ asked' = r /\ latest' = r /\ kind' = [kind EXCEPT ![r] = k] /\ dropped' = FALSE

RequestStop ==
  \E r \in Requests :
    /\ NewRequest(r, "stop") /\ Goto(r, "stop")
    /\ UNCHANGED <<engineVars, lockVars, askVars, controlVars, lossVars>>

\* Without an engine no permission is asked for.
RequestStart ==
  \E r \in Requests :
    /\ NewRequest(r, "start") /\ Goto(r, IF app THEN "asking" ELSE "launched")
    /\ gateway' = [gateway EXCEPT ![r] = IF app THEN "here" ELSE "none"]
    /\ UNCHANGED <<app, lockVars, askVars, controlVars, lossVars>>

\* The callback of start r is called with false.
Deny(r) ==
  /\ latest' = IF IsCurrent(r) THEN Stopped(r) ELSE latest
  /\ dropped' = (dropped \/ IsCurrent(r))
  /\ UNCHANGED <<asked, kind>>

\* On the main thread, posted or at once: the callback of r is the one that is kept, and
\* the prompt shown; who is not to be asked is launched.
Replace(r) ==
  IF noticed # "no" THEN notices' = 0 /\ pc' = [pc EXCEPT ![r] = "launched"]
                    ELSE notices' = r /\ pc' = [pc EXCEPT ![r] = "notice"]

\* Mutant of AskNotification: a superseded callback is dropped.
AskNotificationDropping(r) ==
  /\ pc[r] = "asking"
  /\ \/ gateway[r] = "here" /\ Replace(r)
     \/ gateway[r] = "gone" /\ pc' = [pc EXCEPT ![r] = "launched"] /\ UNCHANGED notices
  /\ gateway' = [gateway EXCEPT ![r] = "none"]
  /\ UNCHANGED <<app, arbiterVars, enable, consent, answer, lockVars, pending, noticed, slot, main,
                 controlVars, lossVars>>

\* requestNotificationPermission: a superseded callback is answered with false; without
\* an activity the start is launched.
AskNotification(r) ==
  /\ pc[r] = "asking"
  /\ \/ gateway[r] = "here" /\ notices = 0 /\ Replace(r) /\ UNCHANGED <<arbiterVars, answer>>
     \/ /\ gateway[r] = "here" /\ notices # 0 /\ notices' = r /\ Deny(notices)
        /\ pc' = [pc EXCEPT ![r] = "notice", ![notices] = "done"]
        /\ answer' = [answer EXCEPT ![notices] = "no"]
     \/ /\ gateway[r] = "gone" /\ pc' = [pc EXCEPT ![r] = "launched"]
        /\ UNCHANGED <<notices, arbiterVars, answer>>
  /\ gateway' = [gateway EXCEPT ![r] = "none"]
  /\ UNCHANGED <<app, enable, consent, lockVars, pending, noticed, slot, main, controlVars, lossVars>>

\* The user answers, either way, and is not asked again.
NoticeAnswered ==
  /\ notices # 0
  /\ Goto(notices, "launched")
  /\ notices' = 0 /\ noticed' \in {"allowed", "refused"}
  /\ UNCHANGED <<engineVars, arbiterVars, lockVars, pending, slot, main, controlVars, lossVars>>

-----------------------------------------------------------------------------
(* The VPN consent                                                          *)

\* The callback that prepareVpn of r gave away is called: it counts once.
Waits(r) == pc[r] \in {"post", "consent"} /\ consent[r] = "none"

Callback(r, value) == consent' = [consent EXCEPT ![r] = IF Waits(r) THEN value ELSE @]

\* The activity is destroyed, and its engine with it: what is asked is answered with false.
ActivityGone ==
  /\ app /\ app' = FALSE
  /\ gateway' = [r \in Requests |-> IF gateway[r] = "here" THEN "gone" ELSE gateway[r]]
  /\ notices' = 0 /\ slot' = 0
  /\ pending' = IF slot # 0 THEN 0 ELSE pending
  /\ IF notices # 0
       THEN /\ Deny(notices)
            /\ pc' = [pc EXCEPT ![notices] = "done"] /\ answer' = [answer EXCEPT ![notices] = "no"]
       ELSE UNCHANGED <<arbiterVars, pc, answer>>
  /\ IF slot # 0 THEN Callback(slot, "denied") ELSE UNCHANGED consent
  /\ UNCHANGED <<enable, lockVars, noticed, main, controlVars, lossVars>>

\* A new activity, whose plugin does not know what the user has refused to another one.
ActivityComes ==
  /\ ~app /\ app' = TRUE
  /\ noticed' = IF noticed = "refused" THEN "no" ELSE noticed
  /\ UNCHANGED <<gateway, arbiterVars, jobVars, lockVars, pending, notices, slot, main, controlVars,
                 lossVars>>

\* The user answers the system's dialog, whoever had it shown.
ConsentAnswered ==
  /\ slot # 0
  /\ \E value \in {"granted", "denied"} : Callback(slot, value)
  /\ slot' = 0 /\ pending' = 0
  /\ UNCHANGED <<engineVars, arbiterVars, pc, enable, answer, lockVars, notices, noticed, main, controlVars,
                 lossVars>>

\* prepareVpn of AppPlugin: the dialog is shown, for which an activity is needed.
ShowDialog(r) ==
  /\ gateway[r] = "here"
  /\ slot' = r
  /\ IF slot # 0 THEN Callback(slot, "denied") /\ pending' = 0 ELSE UNCHANGED <<pending, consent>>

\* It answers at once: the VPN is allowed or not wanted, or there is no activity.
AnswerAtOnce(r, vpn) ==
  \E value \in {"granted", "denied"} :
    /\ value = "denied" => vpn /\ gateway[r] = "gone"
    /\ slot' = IF gateway[r] = "here" THEN 0 ELSE slot
    /\ pending' = 0
    /\ consent' = [q \in Requests |->
         IF ~Waits(q) THEN consent[q]
         ELSE IF q = r THEN value
         ELSE IF q = slot /\ gateway[r] = "here" THEN "denied" ELSE "none"]

\* prepareVpn or cancelVpnPreparation, on the main thread.
MainTask ==
  /\ main # <<>>
  /\ main' = Tail(main)
  /\ LET task == Head(main) IN
       \/ /\ task.cancel /\ slot' = IF slot = task.request THEN 0 ELSE slot
          /\ UNCHANGED <<gateway, pending, consent>>
       \/ /\ ~task.cancel
          /\ (task.vpn /\ ShowDialog(task.request)) \/ AnswerAtOnce(task.request, task.vpn)
          /\ gateway' = [gateway EXCEPT ![task.request] = "none"]
  /\ UNCHANGED <<app, arbiterVars, pc, enable, answer, lockVars, notices, noticed,
                 controlVars, lossVars>>

Task(r, cancel) == [request |-> r, cancel |-> cancel, vpn |-> ~cancel /\ enable[r] = "vpn"]

-----------------------------------------------------------------------------
(* A start                                                                  *)

\* start and runStart: the request is looked at, and the options are read.
Prepare(r) ==
  /\ pc[r] = "launched" /\ preparation = 0
  /\ preparation' = r
  /\ \/ ~IsCurrent(r) /\ Goto(r, "reconcile") /\ UNCHANGED <<gateway, arbiterVars>>
     \/ IsCurrent(r) /\ ResetToStopped(r) /\ Goto(r, "reconcile") /\ UNCHANGED gateway
     \/ /\ IsCurrent(r)
        /\ \E k \in {"vpn", "proxy"} : enable' = [enable EXCEPT ![r] = k]
        /\ pc' = [pc EXCEPT ![r] = IF app THEN "ask" ELSE "lock"]
        /\ gateway' = [gateway EXCEPT ![r] = IF app THEN "here" ELSE "none"]
        /\ UNCHANGED <<arbiterVars, consent, answer>>
  /\ UNCHANGED <<app, phase, transition, askVars, controlVars, lossVars>>

\* prepareVpn: how to abandon it is known before it is asked for.
Ask(r) ==
  /\ pc[r] = "ask"
  /\ pending' = r /\ Goto(r, "post")
  /\ UNCHANGED <<engineVars, arbiterVars, lockVars, notices, noticed, slot, main, controlVars, lossVars>>

Post(r) ==
  /\ pc[r] = "post"
  /\ main' = Append(main, Task(r, FALSE)) /\ Goto(r, "consent")
  /\ UNCHANGED <<engineVars, arbiterVars, lockVars, pending, notices, noticed, slot, controlVars, lossVars>>

Consented(r) ==
  /\ pc[r] = "consent" /\ consent[r] # "none"
  /\ IF consent[r] = "denied" THEN ResetToStopped(r) ELSE UNCHANGED arbiterVars
  /\ pc' = [pc EXCEPT ![r] = IF consent[r] = "granted" /\ IsCurrent(r) THEN "lock" ELSE "reconcile"]
  /\ consent' = [consent EXCEPT ![r] = "none"] /\ UNCHANGED <<enable, answer>>
  /\ UNCHANGED <<engineVars, lockVars, askVars, controlVars, lossVars>>

\* Mutant of Transition: the request is not looked at again under the lock.
TransitionUnchecked(r) ==
  /\ pc[r] = "lock" /\ transition = 0
  /\ transition' = r
  /\ IF runTime THEN Goto(r, "active") /\ UNCHANGED phase
                ELSE Goto(r, "call") /\ phase' = "STARTING"
  /\ UNCHANGED <<engineVars, arbiterVars, preparation, askVars, controlVars, lossVars>>

\* Under the lock: the request is looked at again, and whether a service runs.
Transition(r) ==
  /\ pc[r] = "lock" /\ transition = 0
  /\ IF ~IsCurrent(r)
       THEN Goto(r, "reconcile") /\ UNCHANGED <<phase, transition>>
       ELSE /\ transition' = r
            /\ IF runTime THEN Goto(r, "active") /\ UNCHANGED phase
                          ELSE Goto(r, "call") /\ phase' = "STARTING"
  /\ UNCHANGED <<engineVars, arbiterVars, preparation, askVars, controlVars, lossVars>>

\* isVpnServiceActive: the service that runs may be the one that is wanted.
IsActive(r) ==
  /\ pc[r] = "active" /\ control = 0
  /\ IF (runTime /\ binding.kind = "vpn") = (enable[r] = "vpn")
       THEN /\ phase' = "STARTED" /\ Done(r, "yes")
            /\ transition' = 0 /\ preparation' = 0
       ELSE phase' = "STARTING" /\ Goto(r, "call") /\ UNCHANGED <<transition, preparation>>
  /\ UNCHANGED <<engineVars, arbiterVars, askVars, controlVars, lossVars>>

\* start of the controller returns 0.
StartFails(r) ==
  /\ binding' = NoBinding(binding.number) /\ runTime' = FALSE /\ service' = "none"
  /\ control' = 0 /\ Goto(r, "failed")

\* The binding is kept, or the other service is torn down and a new one is bound.
Bind(r) ==
  /\ pc[r] = "call" /\ control = 0
  /\ IF binding.kind = enable[r]
       THEN control' = r /\ Goto(r, "use") /\ UNCHANGED <<binding, runTime, service>>
       ELSE \/ /\ control' = r /\ Goto(r, "use")
               /\ binding' = [number |-> binding.number + 1, kind |-> enable[r], link |-> "waiting"]
               /\ service' = "none" /\ UNCHANGED runTime
            \/ StartFails(r)
  /\ UNCHANGED <<engineVars, arbiterVars, lockVars, askVars, lossVars>>

\* useService: service.start() of a connected binding, unless it throws, the binding
\* is lost or five seconds pass.
UseService(r) ==
  /\ pc[r] = "use"
  /\ \/ /\ binding.link = "connected"
        /\ service' = enable[r] /\ runTime' = TRUE /\ control' = 0
        /\ Goto(r, "started") /\ UNCHANGED binding
     \/ StartFails(r)
  /\ UNCHANGED <<engineVars, arbiterVars, lockVars, askVars, lossVars>>

StartFailed(r) ==
  /\ pc[r] = "failed"
  /\ phase' = "STOPPED" /\ ResetToStopped(r)
  /\ transition' = 0 /\ Goto(r, "reconcile")
  /\ UNCHANGED <<engineVars, preparation, askVars, controlVars, lossVars>>

\* An overtaken start publishes nothing.
Started(r) ==
  /\ pc[r] = "started"
  /\ transition' = 0
  /\ IF IsCurrent(r)
       THEN phase' = "STARTED" /\ Done(r, "yes") /\ preparation' = 0
       ELSE Goto(r, "reconcile") /\ UNCHANGED <<phase, preparation>>
  /\ UNCHANGED <<engineVars, arbiterVars, askVars, controlVars, lossVars>>

\* Mutant of Reconcile: a start that fails leaves the service to the next request.
ReconcileNothing(r) ==
  /\ pc[r] = "reconcile" /\ transition = 0
  /\ Done(r, "no") /\ preparation' = 0
  /\ UNCHANGED <<engineVars, arbiterVars, phase, transition, askVars, controlVars, lossVars>>

\* reconcileStopped: a service that nobody wants is stopped.
Reconcile(r) ==
  /\ pc[r] = "reconcile" /\ transition = 0
  /\ IF RunningRequested \/ ~runTime
       THEN Done(r, "no") /\ preparation' = 0 /\ UNCHANGED <<phase, transition>>
       ELSE Goto(r, "reconcileStop") /\ phase' = "STOPPING" /\ transition' = r /\ UNCHANGED preparation
  /\ UNCHANGED <<engineVars, arbiterVars, askVars, controlVars, lossVars>>

-----------------------------------------------------------------------------
(* A stop                                                                   *)

\* A preparation under way is abandoned: its cancellation is posted and its
\* callback called.
Abandon ==
  IF pending = 0
    THEN UNCHANGED <<pending, main, consent>>
    ELSE /\ pending' = 0 /\ main' = Append(main, Task(pending, TRUE))
         /\ Callback(pending, "denied")

Stop(r) ==
  /\ pc[r] = "stop" /\ transition = 0
  /\ IF ~IsCurrent(r)
       THEN Done(r, "no") /\ UNCHANGED <<phase, transition, pending, main>>
       ELSE /\ Abandon
            /\ IF phase = "STOPPED" /\ ~runTime
                 THEN /\ pc' = [pc EXCEPT ![r] = "done"] /\ answer' = [answer EXCEPT ![r] = "yes"]
                      /\ UNCHANGED <<phase, transition>>
                 ELSE /\ pc' = [pc EXCEPT ![r] = "stopService"] /\ UNCHANGED answer
                      /\ phase' = "STOPPING" /\ transition' = r
            /\ UNCHANGED enable
  /\ UNCHANGED <<engineVars, arbiterVars, preparation, notices, noticed, slot, controlVars, lossVars>>

\* stopService: the service is told to stop, unbound, and stopped by its intent.
StopService(r) ==
  /\ pc[r] \in {"stopService", "reconcileStop"} /\ control = 0
  /\ binding' = NoBinding(binding.number) /\ runTime' = FALSE /\ service' = "none"
  /\ phase' = "STOPPED" /\ transition' = 0
  /\ Done(r, IF pc[r] = "stopService" /\ IsCurrent(r) THEN "yes" ELSE "no")
  /\ preparation' = IF pc[r] = "reconcileStop" THEN 0 ELSE preparation
  /\ UNCHANGED <<engineVars, arbiterVars, askVars, control, lossVars>>

\* refresh: the phase is what the run time says.
Refresh ==
  /\ transition = 0
  /\ phase' = IF runTime THEN "STARTED" ELSE "STOPPED"
  /\ UNCHANGED <<engineVars, arbiterVars, jobVars, transition, preparation, askVars, controlVars, lossVars>>

-----------------------------------------------------------------------------
(* Android and the loss of the service                                      *)

Connect ==
  /\ binding.link \in {"waiting", "lost"}
  /\ binding' = [binding EXCEPT !.link = "connected"]
  /\ UNCHANGED <<engineVars, arbiterVars, jobVars, lockVars, askVars, control, runTime, service, lossVars>>

\* A binding is disconnected, perhaps one that was given up: the request that is
\* current is remembered, and a handler is launched.
Disconnect ==
  \E l \in Losses, n \in 1..binding.number :
    /\ losses[l].pc = "none" /\ \A k \in 1..(l - 1) : losses[k].pc # "none"
    /\ losses' = [losses EXCEPT ![l] = [pc |-> "clear", token |-> latest, number |-> n]]
    /\ IF n = binding.number /\ binding.kind # "none"
         THEN /\ binding.link # "lost"
              /\ binding' = [binding EXCEPT !.link = "lost"] /\ service' = "none"
         ELSE UNCHANGED <<binding, service>>
    /\ UNCHANGED <<engineVars, arbiterVars, jobVars, lockVars, askVars, control, runTime, raced>>

\* Under the controller's lock: the binding is cleared if it is still the lost one;
\* without a binding Android ends the service.
ClearBinding(l) ==
  /\ losses[l].pc = "clear" /\ control = 0
  /\ IF losses[l].number = binding.number /\ binding.kind # "none"
       THEN /\ binding' = NoBinding(binding.number) /\ runTime' = FALSE /\ service' = "none"
            /\ losses' = [losses EXCEPT ![l].pc = "settle"]
       ELSE /\ losses' = [losses EXCEPT ![l].pc = "done"]
            /\ UNCHANGED <<binding, runTime, service>>
  /\ UNCHANGED <<engineVars, arbiterVars, jobVars, lockVars, askVars, control, raced>>

\* handleServiceLost: nothing runs, and the request is still the one of the loss.
HandleServiceLost(l) ==
  /\ losses[l].pc = "settle" /\ transition = 0
  /\ losses' = [losses EXCEPT ![l].pc = "done"]
  /\ IF ~runTime /\ IsCurrent(losses[l].token)
       THEN ResetToStopped(latest) /\ phase' = "STOPPED"
       ELSE UNCHANGED <<arbiterVars, phase>>
  /\ raced' = (raced \/ (~runTime /\ ~IsCurrent(losses[l].token)))
  /\ UNCHANGED <<engineVars, jobVars, transition, preparation, askVars, controlVars>>

-----------------------------------------------------------------------------
StartStep(r) ==
  \/ Prepare(r) \/ Ask(r) \/ Post(r) \/ Consented(r) \/ Transition(r) \/ IsActive(r)
  \/ Bind(r) \/ UseService(r) \/ StartFailed(r) \/ Started(r) \/ Reconcile(r)

StopStep(r) == Stop(r) \/ StopService(r)

LossStep(l) == ClearBinding(l) \/ HandleServiceLost(l)

MainThread == MainTask \/ \E r \in Requests : AskNotification(r)

UserAnswers == NoticeAnswered \/ ConsentAnswered

Next ==
  \/ RequestStop \/ RequestStart
  \/ UserAnswers \/ ActivityGone \/ ActivityComes \/ MainThread
  \/ \E r \in Requests : StartStep(r) \/ StopStep(r)
  \/ Refresh \/ Connect \/ Disconnect
  \/ \E l \in Losses : LossStep(l)

Spec == Init /\ [][Next]_vars

\* Coroutines and the main thread run, and the user answers.  A lock that is given
\* back again and again starves nobody, for the bounds leave finitely many steps.
FairSpec ==
  /\ Spec
  /\ WF_vars((\E r \in Requests : StartStep(r) \/ StopStep(r)) \/ (\E l \in Losses : LossStep(l)))
  /\ WF_vars(MainThread) /\ WF_vars(UserAnswers)

-----------------------------------------------------------------------------
(* Properties                                                               *)

Quiet ==
  /\ \A r \in Requests : pc[r] \in {"none", "done"}
  /\ \A l \in Losses : losses[l].pc \in {"none", "done"}

\* When nothing is under way, the run time, the binding and the service agree; and so do
\* the intent and the published state with them, whatever has overtaken what, with two
\* exceptions.  A start that races ahead of the handling of a loss keeps its intent, and
\* what is published then may stay although nothing runs (ServiceStateMachine.kt,
\* handleServiceLost).  A start that is denied before it is launched, because its activity
\* goes or another start asks after it, gives the intent up without a reconciliation, and
\* a service from before it runs on (requestStart).
QuietIsConsistent ==
  Quiet =>
    /\ runTime => binding.kind # "none" /\ binding.kind = service
    /\ ~runTime => binding.kind = "none" /\ service = "none"
    /\ \/ phase = (IF runTime THEN "STARTED" ELSE "STOPPED") /\ (RunningRequested <=> runTime)
       \/ raced /\ ~runTime
       \/ dropped /\ runTime

\* After a stop that was answered well, and until the next request, nothing runs and
\* nothing comes up again (ServiceStateMachine.kt, stop and runStart).
StopHolds ==
  \A r \in Requests :
    kind[r] = "stop" /\ answer[r] = "yes" /\ asked = r =>
      phase = "STOPPED" /\ ~runTime /\ binding.kind = "none" /\ service = "none"

\* Every request is answered: superseded, abandoned, denied or carried out, it gives
\* its locks back (PendingCallback.kt; ServiceStateMachine.kt, requestStart).
RequestIsAnswered == \A r \in Requests : (pc[r] # "none") ~> (pc[r] = "done")
=============================================================================
