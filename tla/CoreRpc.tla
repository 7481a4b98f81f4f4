-------------------------------- MODULE CoreRpc --------------------------------
(***************************************************************************)
(* CoreRpcClient (lib/core/desktop/rpc_client.dart): the calls of the app   *)
(* that wait for a connection, are sent to the Core and wait for its        *)
(* answer, against the events of the transport, their timeouts and close(). *)
(*                                                                         *)
(* Time passes in units, and a timer fires in the unit it is due.  Dart is  *)
(* single threaded: events and timers wait until no microtask can run       *)
(* (Settled), while calls and close() may come from one.  The native send   *)
(* runs on a thread of its own and goes on when its caller gives up.        *)
(* An answer is a result or an error, and its decoding is left out; the     *)
(* moment in which the transport is exchanged is one step.                  *)
(***************************************************************************)
EXTENDS Naturals

CONSTANTS
  MaxRequests,    \* bound: calls of invoke
  Timeouts,       \* the timeouts a caller may ask for
  ConnectTimeout, \* _connectTimeout
  MaxExtension,   \* _maxTimeoutExtension
  Grace,          \* extensionGrace
  MaxSilence      \* bound: silence beyond it, no shorter than any timeout, is not counted

ASSUME RpcAssumption ==
  /\ MaxRequests \in Nat
  /\ Timeouts \subseteq Nat \ {0}
  /\ ConnectTimeout \in Nat \ {0} /\ MaxExtension \in Nat \ {0} /\ Grace \in Nat
  /\ MaxSilence \in Nat /\ \A t \in Timeouts : t <= MaxSilence

Requests == 1..MaxRequests   \* _methodCallId

VARIABLES
  at,          \* at[r]: "none", "connecting", "sending", "waiting"; "ended" or "timedOut"
  settled,     \* the requests whose completer is completed while invoke runs
  pending,     \* _pending
  limit,       \* limit[r]: requestTimeout
  age,         \* age[r]: its stopwatch
  timer,       \* timer[r]: time left of the timer it awaits
  linked,      \* linked[r]: the future of waitUntilConnected: "open", "ok", "error" or "timeout"
  send,        \* send[r]: the native send: "none", "called", "ok" or "error"
  silent,      \* _sinceLastResponse
  closed,      \* _closeOperation
  connection,  \* _connection of the transport
  failure,     \* its _failure
  taken,       \* the requests a connection has taken and no Core has answered
  orphans      \* history: those pending at a Core that was given up without an event

callVars == <<at, settled, pending, limit, age, timer, linked, send>>
peerVars == <<connection, failure, taken, orphans>>
rpcVars  == <<callVars, silent, closed, peerVars>>

Shorter(a, b) == IF a < b THEN a ELSE b

Hard(r)    == Shorter(limit[r] * MaxExtension, limit[r] + Grace)
Silence(r) == Shorter(silent, age[r])

\* Mutant of Remaining: only silence ends the wait.
RemainingSilence(r) == IF Silence(r) < limit[r] THEN limit[r] - Silence(r) ELSE 0

\* What is left of the wait: the rest of the silence allowed, or of the hard deadline.
Remaining(r) ==
  IF Silence(r) < limit[r] /\ age[r] < Hard(r)
  THEN Shorter(limit[r] - Silence(r), Hard(r) - age[r]) ELSE 0

Active == {r \in Requests : at[r] \in {"connecting", "sending", "waiting"}}

RpcInit ==
  /\ at = [r \in Requests |-> "none"] /\ settled = {}
  /\ pending = {}
  /\ limit = [r \in Requests |-> 0] /\ age = [r \in Requests |-> 0]
  /\ timer = [r \in Requests |-> 0] /\ linked = [r \in Requests |-> "open"]
  /\ send = [r \in Requests |-> "none"]
  /\ silent = 0 /\ closed = FALSE
  /\ connection \in BOOLEAN /\ failure = FALSE /\ taken = {} /\ orphans = {}

\* A microtask of r can run: one of the futures it awaits is complete.
Runnable(r) ==
  \/ at[r] = "connecting" /\ (linked[r] # "open" \/ r \in settled)
  \/ at[r] = "waiting" /\ r \in settled

Settled == \A r \in Requests : ~Runnable(r)

-----------------------------------------------------------------------------
(* invoke                                                                   *)

\* waitUntilConnected answers at once when the transport has a connection or has failed.
Invoke(r, t) ==
  /\ at[r] = "none" /\ \A q \in Requests : q < r => at[q] # "none"
  /\ IF closed
     THEN at' = [at EXCEPT ![r] = "ended"] /\ UNCHANGED <<pending, limit, timer, linked>>
     ELSE /\ at' = [at EXCEPT ![r] = "connecting"] /\ pending' = pending \cup {r}
          /\ limit' = [limit EXCEPT ![r] = t]
          /\ timer' = [timer EXCEPT ![r] = Shorter(ConnectTimeout, t)]
          /\ linked' = [linked EXCEPT ![r] = IF connection THEN "ok"
                                            ELSE IF failure THEN "error" ELSE "open"]
  /\ UNCHANGED <<settled, age, send, silent, closed, peerVars>>

\* invoke ends; the entry that is left is removed (_removePending).
EndInvoke(r, end) ==
  /\ at' = [at EXCEPT ![r] = end]
  /\ pending' = pending \ {r} /\ settled' = settled \ {r}
  /\ age' = [age EXCEPT ![r] = 0] /\ timer' = [timer EXCEPT ![r] = 0]
  /\ limit' = [limit EXCEPT ![r] = 0] /\ linked' = [linked EXCEPT ![r] = "open"]
  /\ send' = [send EXCEPT ![r] = IF @ = "called" THEN @ ELSE "none"]

\* The wait for a connection is over; what is left of the timeout is for the send.
Connected(r) ==
  /\ at[r] = "connecting" /\ Runnable(r)
  /\ IF linked[r] = "ok" /\ r \notin settled /\ age[r] < limit[r]
     THEN /\ at' = [at EXCEPT ![r] = "sending"] /\ send' = [send EXCEPT ![r] = "called"]
          /\ timer' = [timer EXCEPT ![r] = limit[r] - age[r]]
          /\ UNCHANGED <<settled, pending, limit, age, linked>>
     ELSE EndInvoke(r, IF linked[r] = "timeout" \/ (linked[r] = "ok" /\ r \notin settled)
                    THEN "timedOut" ELSE "ended")
  /\ UNCHANGED <<silent, closed, peerVars>>

\* The native call puts the message into the queue of a connection, be it one the app
\* has not heard of yet, or fails.
NativeSend(r) ==
  /\ send[r] = "called"
  /\ \E result \in {"ok", "error"} :
       /\ send' = [send EXCEPT ![r] = IF at[r] = "sending" THEN result ELSE "none"]
       /\ taken' = IF result = "ok" THEN taken \cup {r} ELSE taken
  /\ UNCHANGED <<at, settled, pending, limit, age, timer, linked, silent, closed,
                 connection, failure, orphans>>

\* _awaitResponse, each time round its loop.
AwaitResponse(r) ==
  IF Remaining(r) = 0 THEN EndInvoke(r, "timedOut")
  ELSE /\ at' = [at EXCEPT ![r] = "waiting"] /\ timer' = [timer EXCEPT ![r] = Remaining(r)]
       /\ UNCHANGED <<settled, pending, limit, age, linked, send>>

SendReturns(r) ==
  /\ at[r] = "sending" /\ send[r] \in {"ok", "error"} /\ Settled
  /\ IF send[r] = "ok" THEN AwaitResponse(r) ELSE EndInvoke(r, "ended")
  /\ UNCHANGED <<silent, closed, peerVars>>

\* The answer, or the failure, reaches the caller.
Settle(r) ==
  /\ at[r] = "waiting" /\ Runnable(r) /\ EndInvoke(r, "ended")
  /\ UNCHANGED <<silent, closed, peerVars>>

\* The timer of a connection, of a send or of an answer fires.
TimerFires(r) ==
  /\ r \in Active /\ timer[r] = 0 /\ Settled
  /\ \/ /\ at[r] = "connecting" /\ linked' = [linked EXCEPT ![r] = "timeout"]
        /\ UNCHANGED <<at, settled, pending, limit, age, timer, send>>
     \/ at[r] = "sending" /\ EndInvoke(r, "timedOut")
     \/ at[r] = "waiting" /\ AwaitResponse(r)
  /\ UNCHANGED <<silent, closed, peerVars>>

\* The clock matters while somebody waits; older silence is longer than any wait.
Tick ==
  /\ Settled /\ Active # {} /\ \A r \in Active : timer[r] > 0
  /\ age' = [r \in Requests |-> IF r \in Active THEN age[r] + 1 ELSE age[r]]
  /\ timer' = [r \in Requests |-> IF r \in Active THEN timer[r] - 1 ELSE timer[r]]
  /\ silent' = Shorter(silent + 1, MaxSilence)
  /\ UNCHANGED <<at, settled, pending, limit, linked, send, closed, peerVars>>

-----------------------------------------------------------------------------
(* Responses, the events of the transport and close                         *)

\* _handleResponse: proof of life, even when nobody waits for it any more.
Answer(r) ==
  /\ r \in taken /\ connection /\ Settled
  /\ taken' = taken \ {r} /\ pending' = IF closed THEN pending ELSE pending \ {r}
  /\ silent' = IF closed THEN silent ELSE 0
  /\ settled' = settled \cup ({r} \cap (pending \ pending'))
  /\ UNCHANGED <<at, limit, age, timer, linked, send, closed, connection, failure, orphans>>

\* Mutant of FailPending: only those that are waiting for their answer.
FailWaiting ==
  LET waiting == {r \in pending : at[r] = "waiting"}
  IN  pending' = pending \ waiting /\ settled' = settled \cup waiting

\* _failPending: every entry, whatever its caller awaits.
FailPending ==
  /\ pending' = {} /\ settled' = settled \cup pending

\* The waiters for a connection learn of it, or that there will be none.
TellWaiters(news) ==
  linked' = [r \in Requests |-> IF at[r] = "connecting" /\ linked[r] = "open" THEN news ELSE linked[r]]

OnConnected ==
  /\ ~connection /\ Settled
  /\ connection' = TRUE /\ failure' = FALSE /\ TellWaiters("ok")
  /\ UNCHANGED <<at, settled, pending, limit, age, timer, send, silent, closed, taken, orphans>>

\* What the lost connection had taken is lost; the next one may have taken some already.
OnDisconnected ==
  /\ connection /\ Settled
  /\ connection' = FALSE /\ taken' \in SUBSET taken
  /\ IF closed THEN UNCHANGED <<pending, settled>> ELSE FailPending
  /\ UNCHANGED <<at, limit, age, timer, linked, send, silent, closed, failure, orphans>>

\* The connection the transport knows of is kept.
OnFailed ==
  /\ ~failure /\ Settled
  /\ failure' = TRUE /\ TellWaiters("error")
  /\ IF closed THEN UNCHANGED <<pending, settled>> ELSE FailPending
  /\ UNCHANGED <<at, limit, age, timer, send, silent, closed, connection, taken, orphans>>

\* The lifecycle puts another transport in the place of this one.  Only a transport
\* whose state is connected reports it.
Replace ==
  /\ Settled
  /\ connection' = FALSE /\ failure' = FALSE /\ taken' = {} /\ TellWaiters("error")
  /\ IF connection /\ ~failure /\ ~closed
     THEN FailPending /\ UNCHANGED orphans
     ELSE UNCHANGED <<pending, settled>> /\ orphans' = orphans \cup (taken \cap pending)
  /\ UNCHANGED <<at, limit, age, timer, send, silent, closed>>

Close ==
  /\ ~closed /\ closed' = TRUE /\ FailPending
  /\ UNCHANGED <<at, limit, age, timer, linked, send, silent, peerVars>>

-----------------------------------------------------------------------------
Caller(r) == (\E t \in Timeouts : Invoke(r, t)) \/ Connected(r) \/ SendReturns(r) \/ Settle(r)

RpcNext ==
  \/ \E r \in Requests : Caller(r) \/ NativeSend(r) \/ TimerFires(r) \/ Answer(r)
  \/ Tick \/ OnConnected \/ OnDisconnected \/ OnFailed \/ Replace \/ Close

RpcSpec == RpcInit /\ [][RpcNext]_rpcVars

-----------------------------------------------------------------------------
(* Properties                                                               *)

RpcTypeOK ==
  /\ at \in [Requests -> {"none", "connecting", "sending", "waiting", "ended", "timedOut"}]
  /\ settled \subseteq Requests /\ pending \subseteq Requests
  /\ limit \in [Requests -> Timeouts \cup {0}]
  /\ age \in [Requests -> Nat] /\ timer \in [Requests -> Nat]
  /\ linked \in [Requests -> {"open", "ok", "error", "timeout"}]
  /\ send \in [Requests -> {"none", "called", "ok", "error"}]
  /\ silent \in Nat /\ closed \in BOOLEAN
  /\ connection \in BOOLEAN /\ failure \in BOOLEAN
  /\ taken \subseteq Requests /\ orphans \subseteq Requests

\* A request has its entry exactly as long as its caller waits and nothing has
\* settled it; and who waits for an answer has its request at a connection that was
\* not lost since, unless the transport failed and was then exchanged without an
\* event (_pending, _failPending and _removePending).
PendingIsOwed ==
  /\ pending = {r \in Active : r \notin settled}
  /\ \A r \in pending : at[r] = "waiting" => r \in taken \cup orphans

\* No call lasts longer than its hard deadline, and one that is sent and gives up
\* before it has heard nothing of the Core for its whole timeout: answers to others
\* keep it waiting, even if its own is never given (_awaitResponse).
GivesUpWhenDue ==
  [][\A r \in Requests :
       /\ age'[r] <= Hard(r)'
       /\ at[r] = "waiting" /\ at'[r] = "timedOut" /\ age[r] < Hard(r) =>
            age[r] >= limit[r] /\ silent >= limit[r]]_rpcVars
================================================================================
