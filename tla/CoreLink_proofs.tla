---------------------------- MODULE CoreLink_proofs ----------------------------
(***************************************************************************)
(* The app's link to the Core.  Calls settle once, leave nothing behind    *)
(* and end in time, for any number of calls, any timeouts and any limit on *)
(* their extension.  Whole frames are on the wire and go into the app's    *)
(* sink, for any number of senders, any lengths of frame and prefix and    *)
(* any socket buffer.                                                      *)
(***************************************************************************)
EXTENDS FrameReader, CoreRpc, SequenceTheorems, TLAPS

-----------------------------------------------------------------------------
\* What a call has sent, when: not before it is connected, and once closed no one waits.
SendInv ==
  /\ \A r \in Requests : at[r] \in {"none", "connecting"} => send[r] = "none"
  /\ \A r \in Requests : at[r] = "none" => r \notin settled
  /\ closed => pending = {}

\* A pending call that was sent is at a connection that was not lost since.
OwedInv ==
  /\ pending = {r \in Active : r \notin settled}
  /\ \A r \in pending :
       at[r] = "waiting" \/ (at[r] = "sending" /\ send[r] = "ok") => r \in taken \cup orphans

\* The timer of a call never reaches past its timeout before it is sent, nor past its
\* hard deadline after.
TimeInv ==
  \A r \in Requests :
    /\ at[r] \in {"connecting", "sending"} => age[r] + timer[r] <= limit[r]
    /\ at[r] = "waiting" => age[r] + timer[r] <= Hard(r)
    /\ r \notin Active => age[r] = 0

InTime == \A r \in Requests : age[r] <= Hard(r)

RpcInv == RpcTypeOK /\ SendInv /\ OwedInv /\ TimeInv

-----------------------------------------------------------------------------
(* The deadlines                                                            *)

\* A limit of at least one window: it is no shorter than the timeout.
LEMMA Extended ==
  ASSUME NEW a \in Nat, NEW b \in Nat \ {0} PROVE a * b \in Nat /\ a <= a * b
<1>1. PICK c \in Nat : b = c + 1
  BY b = (b - 1) + 1, b - 1 \in Nat
<1>2. a * b = a * c + a
  BY <1>1
<1>3. a * c \in Nat
  OBVIOUS
<1>. QED
  BY <1>2, <1>3

LEMMA HardDeadline ==
  ASSUME NEW r \in Requests, limit[r] \in Nat
  PROVE  Hard(r) \in Nat /\ limit[r] <= Hard(r)
BY Extended, RpcAssumption DEF Hard, Shorter

\* What remains ends by the hard deadline, and none remains only after a silence of
\* the whole timeout or at the deadline.
LEMMA RemainingEnds ==
  ASSUME NEW r \in Requests, limit[r] \in Nat, age[r] \in Nat, silent \in Nat
  PROVE  /\ Remaining(r) \in Nat
         /\ Remaining(r) # 0 => age[r] + Remaining(r) <= Hard(r)
         /\ Remaining(r) = 0 /\ age[r] < Hard(r) => age[r] >= limit[r] /\ silent >= limit[r]
BY HardDeadline DEF Remaining, Silence, Shorter

LEMMA TimeoutsArePositive == \A t \in Timeouts : t \in Nat \ {0}
BY RpcAssumption

-----------------------------------------------------------------------------
(* The invariant                                                            *)

LEMMA InitInv == RpcInit => RpcInv
<1>. SUFFICES ASSUME RpcInit PROVE RpcInv
  OBVIOUS
<1>1. RpcTypeOK
  BY DEF RpcInit, RpcTypeOK
<1>2. SendInv /\ OwedInv
  BY DEF RpcInit, SendInv, OwedInv, Active
<1>3. TimeInv
  BY DEF RpcInit, TimeInv
<1>. QED
  BY <1>1, <1>2, <1>3 DEF RpcInv

\* A call that ends takes its entry along and stops its clock.
LEMMA EndInvokeInv ==
  ASSUME RpcInv, NEW r \in Requests, NEW end \in {"ended", "timedOut"}, EndInvoke(r, end),
         r \in Active, UNCHANGED <<silent, closed, peerVars>>
  PROVE  RpcInv'
<1>1. RpcTypeOK'
  BY DEF RpcInv, RpcTypeOK, EndInvoke, peerVars
<1>2. SendInv'
  BY DEF RpcInv, RpcTypeOK, SendInv, EndInvoke, Active
<1>3. Active' = Active \ {r}
  BY DEF EndInvoke, Active, RpcInv, RpcTypeOK
<1>4. OwedInv'
  BY <1>3 DEF RpcInv, RpcTypeOK, OwedInv, EndInvoke, Active, peerVars
<1>5. TimeInv'
  BY DEF RpcInv, RpcTypeOK, TimeInv, EndInvoke, Active, Hard
<1>. QED
  BY <1>1, <1>2, <1>4, <1>5 DEF RpcInv

LEMMA AwaitInv ==
  ASSUME RpcInv, NEW r \in Requests, AwaitResponse(r),
         at[r] = "waiting" \/ (at[r] = "sending" /\ send[r] = "ok"),
         UNCHANGED <<silent, closed, peerVars>>
  PROVE  RpcInv'
<1>1. CASE Remaining(r) = 0
  BY <1>1, EndInvokeInv DEF AwaitResponse, Active
<1>2. CASE Remaining(r) # 0
  <2>. USE <1>2 DEF AwaitResponse, peerVars
  <2>1. limit[r] \in Nat /\ age[r] \in Nat /\ silent \in Nat
    BY TimeoutsArePositive DEF RpcInv, RpcTypeOK
  <2>2. RpcTypeOK'
    BY <2>1, RemainingEnds DEF RpcInv, RpcTypeOK
  <2>3. SendInv'
    BY DEF RpcInv, RpcTypeOK, SendInv
  <2>4. Active' = Active
    BY DEF RpcInv, RpcTypeOK, Active
  <2>5. OwedInv'
    BY <2>4 DEF RpcInv, RpcTypeOK, OwedInv
  <2>6. TimeInv'
    <3>1. age[r] + Remaining(r) <= Hard(r)
      BY <2>1, RemainingEnds
    <3>. QED
      BY <3>1, <2>4 DEF RpcInv, RpcTypeOK, TimeInv, Hard
  <2>. QED
    BY <2>2, <2>3, <2>5, <2>6 DEF RpcInv
<1>. QED
  BY <1>1, <1>2

LEMMA CallerInv == ASSUME RpcInv, NEW r \in Requests, Caller(r) PROVE RpcInv'
<1>. USE DEF RpcInv
<1>1. ASSUME NEW t \in Timeouts, Invoke(r, t) PROVE RpcInv'
  <2>1. Shorter(ConnectTimeout, t) \in Nat /\ Shorter(ConnectTimeout, t) <= t
    BY TimeoutsArePositive, RpcAssumption DEF Shorter
  <2>2. CASE closed
    BY <1>1, <2>2 DEF Invoke, RpcTypeOK, SendInv, OwedInv, TimeInv, Active, Hard, peerVars
  <2>3. CASE ~closed
    <3>1. RpcTypeOK'
      BY <1>1, <2>1, <2>3 DEF Invoke, RpcTypeOK, peerVars
    <3>2. SendInv'
      BY <1>1, <2>3 DEF Invoke, RpcTypeOK, SendInv
    <3>3. Active' = Active \cup {r} /\ r \notin Active
      BY <1>1, <2>3 DEF Invoke, RpcTypeOK, Active
    <3>4. OwedInv'
      BY <1>1, <2>3, <3>3 DEF Invoke, RpcTypeOK, SendInv, OwedInv, peerVars
    <3>5. TimeInv'
      BY <1>1, <2>1, <2>3, <3>3, TimeoutsArePositive DEF Invoke, RpcTypeOK, TimeInv, Hard
    <3>. QED
      BY <3>1, <3>2, <3>4, <3>5
  <2>. QED
    BY <2>2, <2>3
<1>2. CASE Connected(r)
  <2>1. CASE linked[r] = "ok" /\ r \notin settled /\ age[r] < limit[r]
    <3>. USE <1>2, <2>1 DEF Connected
    <3>1. limit[r] - age[r] \in Nat
      BY TimeoutsArePositive DEF RpcTypeOK
    <3>2. RpcTypeOK'
      BY <3>1 DEF RpcTypeOK, peerVars
    <3>3. SendInv'
      BY DEF RpcTypeOK, SendInv
    <3>4. Active' = Active
      BY DEF RpcTypeOK, Active
    <3>5. OwedInv'
      BY <3>4 DEF RpcTypeOK, OwedInv, peerVars
    <3>6. TimeInv'
      BY <3>1, <3>4, TimeoutsArePositive DEF RpcTypeOK, TimeInv, Hard
    <3>. QED
      BY <3>2, <3>3, <3>5, <3>6
  <2>2. CASE ~(linked[r] = "ok" /\ r \notin settled /\ age[r] < limit[r])
    BY <1>2, <2>2, EndInvokeInv DEF Connected, Active
  <2>. QED
    BY <2>1, <2>2
<1>3. CASE SendReturns(r)
  BY <1>3, AwaitInv, EndInvokeInv DEF SendReturns, Active
<1>4. CASE Settle(r)
  BY <1>4, EndInvokeInv DEF Settle, Active
<1>. QED
  BY <1>1, <1>2, <1>3, <1>4 DEF Caller

LEMMA NativeSendInv == ASSUME RpcInv, NEW r \in Requests, NativeSend(r) PROVE RpcInv'
<1>. USE DEF RpcInv, NativeSend
<1>1. RpcTypeOK'
  BY DEF RpcTypeOK
<1>2. SendInv'
  BY DEF RpcTypeOK, SendInv
<1>3. OwedInv'
  BY DEF RpcTypeOK, OwedInv, Active
<1>4. TimeInv'
  BY DEF TimeInv, Hard, Active
<1>. QED
  BY <1>1, <1>2, <1>3, <1>4

LEMMA TimerInv == ASSUME RpcInv, NEW r \in Requests, TimerFires(r) PROVE RpcInv'
<1>1. CASE at[r] = "connecting"
  <2>. USE <1>1 DEF RpcInv, TimerFires, AwaitResponse
  <2>1. RpcTypeOK'
    BY DEF RpcTypeOK, peerVars
  <2>2. SendInv'
    BY DEF SendInv
  <2>3. OwedInv'
    BY DEF OwedInv, Active, peerVars
  <2>4. TimeInv'
    BY DEF TimeInv, Hard, Active
  <2>. QED
    BY <2>1, <2>2, <2>3, <2>4
<1>2. CASE at[r] = "sending"
  BY <1>2, EndInvokeInv DEF TimerFires, Active
<1>3. CASE at[r] = "waiting"
  <2>1. AwaitResponse(r) /\ UNCHANGED <<silent, closed, peerVars>>
    BY <1>3 DEF TimerFires
  <2>. QED
    BY <1>3, <2>1, AwaitInv
<1>. QED
  BY <1>1, <1>2, <1>3 DEF TimerFires

LEMMA TickInv == ASSUME RpcInv, Tick PROVE RpcInv'
<1>. USE DEF RpcInv, Tick
<1>1. silent' \in Nat
  BY RpcAssumption DEF RpcTypeOK, Shorter
<1>2. RpcTypeOK'
  BY <1>1 DEF RpcTypeOK, peerVars, Active
<1>3. SendInv'
  BY DEF SendInv
<1>4. Active' = Active
  BY DEF Active
<1>5. OwedInv'
  BY <1>4 DEF OwedInv, peerVars
<1>6. TimeInv'
  <2>. SUFFICES ASSUME NEW r \in Requests
                PROVE /\ at[r] \in {"connecting", "sending"} => (age[r] + timer[r] <= limit[r])'
                      /\ at[r] = "waiting" => (age[r] + timer[r] <= Hard(r))'
                      /\ r \notin Active => age'[r] = 0
    BY <1>4 DEF TimeInv
  <2>1. CASE r \in Active
    <3>1. age'[r] + timer'[r] = age[r] + timer[r]
      BY <2>1 DEF RpcTypeOK
    <3>. QED
      BY <3>1, <2>1 DEF TimeInv, Hard
  <2>2. CASE r \notin Active
    BY <2>2 DEF TimeInv, Active
  <2>. QED
    BY <2>1, <2>2
<1>. QED
  BY <1>2, <1>3, <1>5, <1>6

LEMMA AnswerInv == ASSUME RpcInv, NEW r \in Requests, Answer(r) PROVE RpcInv'
<1>. USE DEF RpcInv, Answer
<1>1. RpcTypeOK'
  BY DEF RpcTypeOK
<1>2. SendInv'
  BY DEF RpcTypeOK, SendInv, OwedInv, Active
<1>3. OwedInv'
  BY DEF RpcTypeOK, OwedInv, Active, SendInv
<1>4. TimeInv'
  BY DEF TimeInv, Hard, Active
<1>. QED
  BY <1>1, <1>2, <1>3, <1>4

\* Whatever the transport reports, the calls keep their clocks and those that were
\* sent are failed with the connection.
LEMMA EventInv ==
  ASSUME RpcInv, OnConnected \/ OnDisconnected \/ OnFailed \/ Replace \/ Close PROVE RpcInv'
<1>. USE DEF RpcInv
<1>1. /\ UNCHANGED <<at, limit, age, timer, send>>
      /\ FailPending \/ UNCHANGED <<pending, settled>>
      /\ closed => closed'
      /\ closed' # closed => FailPending
      /\ \/ FailPending \/ closed
         \/ taken \subseteq taken' /\ orphans \subseteq orphans'
         \/ taken \cap pending \subseteq orphans' /\ orphans \subseteq orphans'
  BY DEF OnConnected, OnDisconnected, OnFailed, Replace, Close, peerVars
<1>2. RpcTypeOK'
  BY <1>1 DEF RpcTypeOK, FailPending, OnConnected, OnDisconnected, OnFailed, Replace, Close,
              TellWaiters, peerVars
<1>3. SendInv'
  BY <1>1 DEF RpcTypeOK, SendInv, OwedInv, FailPending, Active
<1>4. Active' = Active
  BY <1>1 DEF Active
<1>5. OwedInv'
  <2>1. CASE FailPending
    BY <1>1, <1>4, <2>1 DEF RpcTypeOK, OwedInv, FailPending
  <2>2. CASE UNCHANGED <<pending, settled>>
    BY <1>1, <1>4, <2>2 DEF OwedInv, SendInv, FailPending
  <2>. QED
    BY <1>1, <2>1, <2>2
<1>6. TimeInv'
  BY <1>1, <1>4 DEF TimeInv, Hard
<1>. QED
  BY <1>2, <1>3, <1>5, <1>6

LEMMA StepInv == RpcInv /\ [RpcNext]_rpcVars => RpcInv'
<1>. SUFFICES ASSUME RpcInv, [RpcNext]_rpcVars PROVE RpcInv'
  OBVIOUS
<1>1. ASSUME NEW r \in Requests, Caller(r) \/ NativeSend(r) \/ TimerFires(r) \/ Answer(r)
      PROVE  RpcInv'
  BY <1>1, CallerInv, NativeSendInv, TimerInv, AnswerInv
<1>2. CASE Tick
  BY <1>2, TickInv
<1>3. CASE OnConnected \/ OnDisconnected \/ OnFailed \/ Replace \/ Close
  BY <1>3, EventInv
<1>4. CASE UNCHANGED rpcVars
  BY <1>4 DEF rpcVars, callVars, peerVars, RpcInv, RpcTypeOK, SendInv, OwedInv, TimeInv, Active, Hard
<1>. QED
  BY <1>1, <1>2, <1>3, <1>4 DEF RpcNext

THEOREM RpcInvariance == RpcSpec => []RpcInv
BY InitInv, StepInv, PTL DEF RpcSpec

-----------------------------------------------------------------------------
\* Type correctness of the client, for any number of calls (rpc_client.dart:31-62).
THEOREM RpcTypeCorrect == RpcSpec => []RpcTypeOK
<1>1. RpcInv => RpcTypeOK
  BY DEF RpcInv
<1>. QED
  BY <1>1, RpcInvariance, PTL

\* An entry is there exactly as long as its call can still be settled, and who waits
\* is owed an answer by a connection not lost since (rpc_client.dart:64-122, 164-169, 204-267).
THEOREM EntriesAreOwed == RpcSpec => []PendingIsOwed
<1>1. RpcInv => PendingIsOwed
  BY DEF RpcInv, OwedInv, PendingIsOwed
<1>. QED
  BY <1>1, RpcInvariance, PTL

\* No call outlasts its hard deadline, and none gives up before it while the Core
\* answers others (rpc_client.dart:133-160).
THEOREM CallsEndWhenDue == RpcSpec => GivesUpWhenDue
<1>1. RpcInv => InTime
  BY HardDeadline, TimeoutsArePositive DEF RpcInv, RpcTypeOK, TimeInv, Active, InTime
<1>2. ASSUME InTime', NEW r \in Requests PROVE age'[r] <= Hard(r)'
  BY <1>2 DEF InTime
<1>3. ASSUME RpcInv, [RpcNext]_rpcVars, NEW r \in Requests,
             at[r] = "waiting", at'[r] = "timedOut", age[r] < Hard(r)
      PROVE  age[r] >= limit[r] /\ silent >= limit[r]
  <2>1. TimerFires(r) /\ AwaitResponse(r)
    BY <1>3 DEF RpcNext, rpcVars, callVars, RpcInv, RpcTypeOK, Caller, Invoke, Connected, SendReturns,
          Settle, EndInvoke, AwaitResponse, NativeSend, TimerFires, Tick, Answer, OnConnected,
          OnDisconnected, OnFailed, Replace, Close
  <2>2. Remaining(r) = 0
    BY <1>3, <2>1 DEF AwaitResponse, RpcInv, RpcTypeOK
  <2>. QED
    BY <1>3, <2>2, RemainingEnds, TimeoutsArePositive DEF RpcInv, RpcTypeOK
<1>4. RpcInv /\ InTime' /\ [RpcNext]_rpcVars =>
        [\A r \in Requests :
           /\ age'[r] <= Hard(r)'
           /\ at[r] = "waiting" /\ at'[r] = "timedOut" /\ age[r] < Hard(r) =>
                age[r] >= limit[r] /\ silent >= limit[r]]_rpcVars
  BY <1>2, <1>3
<1>. QED
  BY <1>1, <1>4, RpcInvariance, PTL DEF RpcSpec, GivesUpWhenDue

-----------------------------------------------------------------------------
(* Frames                                                                   *)

USE FrameAssumption, ReaderAssumption

-----------------------------------------------------------------------------
\* The sender that writes is the one that holds writeMu.
MutexInv == \A s \in Senders : pc[s] = "writing" <=> writer = s

\* Where a sender is says how much of its frame the socket took: a frame begun
\* and not complete is being written, or it is torn and the socket closed.
ProgressInv == \A s \in Senders :
  /\ pc[s] \in {"idle", "waiting", "dropped"} => written[s] = 0
  /\ pc[s] = "writing" => written[s] < FrameLen
  /\ pc[s] = "sent" => written[s] = FrameLen
  /\ pc[s] = "torn" => ~conn /\ ~socket

\* Every unit on the wire is one that its sender counts.
WireInv == \A i \in DOMAIN wire : written[wire[i]] > 0

FrameInv == TypeOK /\ MutexInv /\ ProgressInv /\ WireInv /\ WholeFrames

-----------------------------------------------------------------------------
LEMMA InitFrameInv == Init => FrameInv
<1> SUFFICES ASSUME Init PROVE FrameInv
  OBVIOUS
<1>1. TypeOK
  BY EmptySeq DEF Init, TypeOK, Ended
<1>2. MutexInv /\ ProgressInv
  BY DEF Init, MutexInv, ProgressInv
<1>3. WireInv /\ WholeFrames
  BY DEF Init, WireInv, WholeFrames
<1>4. QED
  BY <1>1, <1>2, <1>3 DEF FrameInv

\* One unit more: it belongs to the one sender whose frame is neither untouched
\* nor finished, so it continues the last frame or begins a new one.
LEMMA WriteInv ==
  ASSUME FrameInv, NEW s \in Senders, Write(s)
  PROVE  FrameInv'
<1>1. /\ pc[s] = "writing" /\ writer = s /\ socket /\ written[s] \in 0..FrameLen
      /\ written[s] < FrameLen
      /\ UNCHANGED connVars
      /\ written' = [written EXCEPT ![s] = written[s] + 1]
      /\ wire' = Append(wire, s)
  BY DEF Write, Writing, FrameInv, TypeOK, MutexInv, ProgressInv
<1>2. /\ wire \in Seq(Senders) /\ wire' \in Seq(Senders)
      /\ DOMAIN wire = 1..Len(wire) /\ Len(wire) \in Nat
      /\ DOMAIN wire' = 1..(Len(wire) + 1)
      /\ \A i \in 1..Len(wire) : wire'[i] = wire[i] /\ wire[i] \in Senders
      /\ wire'[Len(wire) + 1] = s
  <2>1. wire \in Seq(Senders)
    BY DEF FrameInv, TypeOK
  <2>2. QED
    BY <1>1, <2>1, AppendProperties, LenProperties, ElementOfSeq
<1>3. \A t \in Senders : /\ written[t] \in Nat /\ written'[t] \in 0..FrameLen
                         /\ written'[t] = IF t = s THEN written[s] + 1 ELSE written[t]
  BY <1>1 DEF FrameInv, TypeOK
<1>4. \A t \in Senders \ {s} : written[t] > 0 => written[t] = FrameLen
  BY <1>1 DEF FrameInv, TypeOK, MutexInv, ProgressInv, Ended
<1>5. TypeOK'
  <2>1. pc' \in [Senders -> {"idle", "waiting", "writing"} \cup Ended]
        /\ writer' \in Senders \cup {NoSender}
    BY DEF Write, Return, FrameInv, TypeOK, Ended
  <2>2. unread' \in 0..BufferLen
    BY DEF Write, FrameInv, TypeOK
  <2>3. written' \in [Senders -> 0..FrameLen]
    BY <1>1 DEF FrameInv, TypeOK
  <2>4. QED
    BY <1>1, <1>2, <2>1, <2>2, <2>3 DEF connVars, FrameInv, TypeOK
<1>6. MutexInv' /\ ProgressInv'
  <2>1. CASE written[s] + 1 = FrameLen
    <3>1. pc' = [pc EXCEPT ![s] = "sent"] /\ writer' = NoSender
      BY <2>1 DEF Write, Return
    <3>2. QED
      BY <1>1, <1>3, <2>1, <3>1 DEF connVars, FrameInv, TypeOK, MutexInv, ProgressInv
  <2>2. CASE written[s] + 1 # FrameLen
    <3>1. pc' = pc /\ writer' = writer
      BY <2>2 DEF Write
    <3>2. QED
      BY <1>1, <1>3, <2>2, <3>1 DEF connVars, FrameInv, TypeOK, MutexInv, ProgressInv
  <2>3. QED
    BY <2>1, <2>2
<1>7. WireInv'
  BY <1>2, <1>3 DEF FrameInv, WireInv
<1>8. WholeFrames'
  <2> SUFFICES ASSUME NEW i \in DOMAIN wire', NEW j \in DOMAIN wire',
                      i < j, wire'[i] # wire'[j]
               PROVE  /\ written'[wire'[i]] = FrameLen
                      /\ \A k \in DOMAIN wire' : j < k => wire'[k] # wire'[i]
    BY DEF WholeFrames
  <2>1. i \in 1..Len(wire) /\ wire'[i] = wire[i] /\ wire[i] \in Senders
        /\ written[wire[i]] > 0
    BY <1>2 DEF FrameInv, WireInv
  <2>2. wire[i] # s
    <3>1. CASE j \in 1..Len(wire)
      <4>1. written[wire[i]] = FrameLen
        BY <1>2, <2>1, <3>1 DEF FrameInv, WholeFrames
      <4>2. QED
        BY <1>1, <4>1
    <3>2. CASE j = Len(wire) + 1
      BY <1>2, <2>1, <3>2
    <3>3. QED
      BY <1>2, <3>1, <3>2
  <2>3. written'[wire'[i]] = FrameLen
    BY <1>3, <1>4, <2>1, <2>2
  <2>4. ASSUME NEW k \in DOMAIN wire', j < k
        PROVE  wire'[k] # wire'[i]
    <3>1. CASE k \in 1..Len(wire)
      BY <1>2, <2>1, <2>4, <3>1 DEF FrameInv, WholeFrames
    <3>2. CASE k = Len(wire) + 1
      BY <1>2, <2>1, <2>2, <3>2
    <3>3. QED
      BY <1>2, <3>1, <3>2
  <2>5. QED
    BY <2>3, <2>4
<1>9. QED
  BY <1>5, <1>6, <1>7, <1>8 DEF FrameInv

\* No other step puts anything on the wire.
LEMMA SilentInv ==
  ASSUME FrameInv, TypeOK', MutexInv', ProgressInv', UNCHANGED <<written, wire>>
  PROVE  FrameInv'
  BY DEF FrameInv, WireInv, WholeFrames

LEMMA CallInv ==
  ASSUME FrameInv, NEW s \in Senders, Call(s)
  PROVE  FrameInv'
<1>1. TypeOK'
  BY DEF Call, connVars, FrameInv, TypeOK
<1>2. MutexInv' /\ ProgressInv' /\ UNCHANGED <<written, wire>>
  BY DEF Call, connVars, FrameInv, TypeOK, MutexInv, ProgressInv
<1>3. QED
  BY <1>1, <1>2, SilentInv

LEMMA LockInv ==
  ASSUME FrameInv, NEW s \in Senders, Lock(s)
  PROVE  FrameInv'
<1>1. TypeOK'
  BY DEF Lock, connVars, Ended, FrameInv, TypeOK
<1>2. MutexInv' /\ ProgressInv' /\ UNCHANGED <<written, wire>>
  BY DEF Lock, connVars, FrameInv, TypeOK, MutexInv, ProgressInv
<1>3. QED
  BY <1>1, <1>2, SilentInv

LEMMA WriteTimeoutInv ==
  ASSUME FrameInv, NEW s \in Senders, WriteTimeout(s)
  PROVE  FrameInv'
<1>1. TypeOK'
  BY DEF WriteTimeout, Writing, Return, connVars, Ended, FrameInv, TypeOK
<1>2. MutexInv' /\ ProgressInv' /\ UNCHANGED <<written, wire>>
  BY DEF WriteTimeout, Writing, Return, connVars, FrameInv, TypeOK, MutexInv, ProgressInv
<1>3. QED
  BY <1>1, <1>2, SilentInv

LEMMA WriteErrorInv ==
  ASSUME FrameInv, NEW s \in Senders, WriteError(s)
  PROVE  FrameInv'
<1>1. /\ conn' = (conn /\ written[s] = 0) /\ socket' = (socket /\ written[s] = 0)
      /\ conn' \in BOOLEAN /\ socket' \in BOOLEAN
  BY Zenon DEF WriteError
<1>2. TypeOK'
  BY <1>1 DEF WriteError, Writing, Return, Ended, FrameInv, TypeOK
<1>3. MutexInv'
  BY DEF WriteError, Writing, Return, FrameInv, TypeOK, MutexInv
<1>4. ProgressInv'
  BY <1>1 DEF WriteError, Writing, Return, FrameInv, TypeOK, MutexInv, ProgressInv
<1>5. QED
  BY <1>2, <1>3, <1>4, SilentInv DEF WriteError

LEMMA ProcessInv ==
  ASSUME FrameInv, ServeEnds \/ Exit \/ CoreDies \/ HostReads \/ HostDies
  PROVE  FrameInv'
<1>1. UNCHANGED <<writer, pc, written, wire>> /\ (~conn => ~conn') /\ (~socket => ~socket')
  BY DEF ServeEnds, Exit, CoreDies, HostReads, HostDies, connVars
<1>2. TypeOK'
  <2>1. conn' \in BOOLEAN /\ socket' \in BOOLEAN /\ host' \in BOOLEAN
    BY Zenon DEF ServeEnds, Exit, CoreDies, HostReads, HostDies, connVars, FrameInv, TypeOK
  <2>2. process' \in {"serving", "releasing", "exited"} /\ unread' \in 0..BufferLen
    BY DEF ServeEnds, Exit, CoreDies, HostReads, HostDies, connVars, FrameInv, TypeOK
  <2>3. QED
    BY <1>1, <2>1, <2>2 DEF FrameInv, TypeOK
<1>3. MutexInv' /\ ProgressInv'
  BY <1>1 DEF FrameInv, MutexInv, ProgressInv
<1>4. QED
  BY <1>1, <1>2, <1>3, SilentInv

LEMMA NextFrameInv ==
  ASSUME FrameInv, [Next]_vars
  PROVE  FrameInv'
<1>1. CASE Next
  BY <1>1, CallInv, LockInv, WriteInv, WriteTimeoutInv, WriteErrorInv, ProcessInv
     DEF Next, Send
<1>2. CASE UNCHANGED vars
  BY <1>2 DEF vars, FrameInv, TypeOK, MutexInv, ProgressInv, WireInv, WholeFrames
<1>3. QED
  BY <1>1, <1>2

THEOREM Invariance == Spec => []FrameInv
  BY InitFrameInv, NextFrameInv, PTL DEF Spec

\* Type correctness of the delivery, for any number of senders.
THEOREM TypeCorrect == Spec => []TypeOK
<1>1. FrameInv => TypeOK
  BY DEF FrameInv
<1>2. QED
  BY <1>1, Invariance, PTL

\* The stream the host reads never loses its place: frames are whole and one
\* after the other, whatever stalls, resumes and dies (server.go:73-175).
THEOREM StreamStaysFramed == Spec => []WholeFrames
<1>1. FrameInv => WholeFrames
  BY DEF FrameInv
<1>2. QED
  BY <1>1, Invariance, PTL

\* A frame is dropped without a trace or takes the connection with it
\* (server.go:157-174).
THEOREM TornFramesClose == Spec => []TornFrameEndsConnection
<1>1. FrameInv => TornFrameEndsConnection
  BY DEF FrameInv, ProgressInv, TornFrameEndsConnection
<1>2. QED
  BY <1>1, Invariance, PTL

-----------------------------------------------------------------------------
(* The Core with the app's reader at the other end implements FrameDelivery, *)
(* so that what is proved above holds of the two together.                   *)

\* A step of the reader reads one unit, ends the connection, or is its own affair.
LEMMA ReaderStep == [ReaderNext]_linkVars => [Next]_vars
<1>. SUFFICES ASSUME [ReaderNext]_linkVars PROVE [Next]_vars
  OBVIOUS
<1>1. CASE Reader
  BY <1>1 DEF Reader, Poll, ReadHeader, ReadPayload, WouldBlock, EndOfFile, Next
<1>2. CASE Disconnect
  BY <1>2 DEF Disconnect, Next
<1>3. CASE CoreStep
  BY <1>3 DEF CoreStep, Next
<1>4. CASE UNCHANGED linkVars
  BY <1>4 DEF linkVars
<1>. QED
  BY <1>1, <1>2, <1>3, <1>4 DEF ReaderNext

\* The reader of the app is a host as FrameDelivery knows it (frame.rs:103-147;
\* server.go:73-175).
THEOREM ReaderImplementsHost == ReaderSpec => Spec
<1>1. ReaderInit => Init
  BY DEF ReaderInit
<1>. QED
  BY <1>1, ReaderStep, PTL DEF ReaderSpec, Spec

\* What the reader finds on the wire are whole frames, one after the other
\* (server.go:73-175).
THEOREM ReaderFindsWholeFrames == ReaderSpec => []WholeFrames
BY ReaderImplementsHost, StreamStaysFramed, PTL

-----------------------------------------------------------------------------
(* Where the frames are on the wire, and where the reader is in them.        *)

\* Units before the frame that n frames precede.
Begin(n) == n * FrameLen

\* The sender is in the middle of its frame, or was torn there.
Partial(s) == written[s] > 0 /\ written[s] < FrameLen

\* The wire holds n frames of one sender each, and the part of one more that a
\* sender has written of it, if any has; no sender has units in two of them.
Grid(n) ==
  /\ Begin(n) <= Len(wire)
  /\ Begin(n) < Len(wire) => \E s \in Senders : Partial(s)
  /\ \A s \in Senders : Partial(s) =>
       /\ Len(wire) = Begin(n) + written[s]
       /\ \A i \in Begin(n) + 1..Len(wire) : wire[i] = s
  /\ \A k \in 0..n - 1 : \E s \in Senders :
       written[s] = FrameLen /\ \A i \in Begin(k) + 1..Begin(k) + FrameLen : wire[i] = s
  /\ \A k \in 0..n : \A i \in 1..Begin(k), j \in Begin(k) + 1..Len(wire) : wire[i] # wire[j]

\* The reader has delivered every frame before the one it is in, and counts right
\* where it is.
ReaderInv ==
  /\ polling \in BOOLEAN /\ delivered \in Seq(Seq(Senders))
  /\ start = Begin(Len(delivered))
  /\ header_read \in 0..HeaderLen /\ payload_read \in 0..FrameLen - HeaderLen
  /\ payload_read > 0 => header_read = HeaderLen
  /\ header_read + payload_read < FrameLen
  /\ Len(wire) = start + header_read + payload_read + unread
  /\ \A i \in DOMAIN delivered :
       \E s \in Senders :
         /\ delivered[i] = Payload(s) /\ written[s] = FrameLen
         /\ wire[Begin(i - 1) + 1] = s

LEMMA BeginFacts ==
  /\ Begin(0) = 0
  /\ \A n \in Nat : Begin(n) \in Nat /\ Begin(n + 1) = Begin(n) + FrameLen
  /\ \A k, n \in Nat : k < n => Begin(k) + FrameLen <= Begin(n)
<1>1. Begin(0) = 0
  BY DEF Begin
<1>2. \A n \in Nat : Begin(n) \in Nat /\ Begin(n + 1) = Begin(n) + FrameLen
  BY DEF Begin
<1>3. ASSUME NEW k \in Nat, NEW n \in Nat, k < n
      PROVE  Begin(k) + FrameLen <= Begin(n)
  <2>1. PICK d \in Nat : n = k + 1 + d
    <3>1. n - k - 1 \in Nat /\ n = k + 1 + (n - k - 1)
      BY <1>3
    <3>2. QED
      BY <3>1
  <2>2. Begin(n) = Begin(k) + FrameLen + d * FrameLen
    BY <2>1 DEF Begin
  <2>3. d * FrameLen \in Nat
    OBVIOUS
  <2>4. QED
    BY <1>2, <2>2, <2>3
<1>4. QED
  BY <1>1, <1>2, <1>3

\* A unit in the frame after n others is the quotient n.
LEMMA FrameOf ==
  ASSUME NEW n \in Nat, NEW t \in Nat, Begin(n) <= t, t < Begin(n) + FrameLen
  PROVE  t \div FrameLen = n
<1> DEFINE q == t \div FrameLen
<1>1. q \in Nat /\ q * FrameLen <= t /\ t < q * FrameLen + FrameLen
  OBVIOUS
<1> HIDE DEF q
<1>2. Begin(q) <= t /\ t < Begin(q) + FrameLen /\ Begin(q) \in Nat /\ Begin(n) \in Nat
  BY <1>1, BeginFacts DEF Begin
<1>3. /\ q < n => Begin(q) + FrameLen <= Begin(n)
      /\ n < q => Begin(n) + FrameLen <= Begin(q)
  BY <1>1, BeginFacts
<1>4. QED
  BY <1>1, <1>2, <1>3 DEF q

LEMMA InitGrid == Init => Grid(0)
<1> SUFFICES ASSUME Init PROVE Grid(0)
  OBVIOUS
<1>1. Len(wire) = 0 /\ Begin(0) = 0 /\ \A s \in Senders : ~Partial(s)
  BY BeginFacts DEF Init, Partial
<1>2. QED
  BY <1>1 DEF Grid

\* The sender that writes is the only one that can be in the middle of a frame.
LEMMA OnePartial ==
  ASSUME FrameInv, NEW s \in Senders, Write(s)
  PROVE  /\ \A t \in Senders \ {s} : written[t] = 0 \/ written[t] = FrameLen
         /\ written[s] \in 0..FrameLen - 1
  BY DEF Write, Writing, FrameInv, TypeOK, MutexInv, ProgressInv, Ended

\* A unit more continues the frame of its sender, begins the next, or completes it.
LEMMA WriteGrid ==
  ASSUME FrameInv, NEW n \in Nat, Grid(n), NEW s \in Senders, Write(s)
  PROVE  \E m \in Nat : Grid(m)'
<1>1. PICK L \in Nat :
        /\ Len(wire) = L /\ Len(wire') = L + 1 /\ DOMAIN wire = 1..L
        /\ \A i \in 1..L : wire'[i] = wire[i]
        /\ wire'[L + 1] = s
  <2>1. wire \in Seq(Senders) /\ wire' = Append(wire, s)
    BY DEF Write, FrameInv, TypeOK
  <2>2. /\ Len(wire) \in Nat /\ Len(wire') = Len(wire) + 1 /\ DOMAIN wire = 1..Len(wire)
        /\ \A i \in 1..Len(wire) : wire'[i] = wire[i]
        /\ wire'[Len(wire) + 1] = s
    BY <2>1, AppendProperties, LenProperties
  <2>3. QED
    BY <2>2
<1>2. PICK w \in 0..FrameLen - 1 :
        /\ written[s] = w /\ written'[s] = w + 1
        /\ \A t \in Senders \ {s} : written[t] = 0 \/ written[t] = FrameLen
        /\ \A t \in Senders \ {s} : written'[t] = written[t]
  BY OnePartial DEF Write, FrameInv, TypeOK
<1>3. PICK b \in Nat :
        /\ Begin(n) = b /\ Begin(n + 1) = b + FrameLen
        /\ \A k \in 0..n : Begin(k) \in Nat /\ Begin(k) <= b
        /\ \A k \in 0..n - 1 : Begin(k) \in Nat /\ Begin(k) + FrameLen <= b
  <2>1. Begin(n) \in Nat /\ Begin(n + 1) = Begin(n) + FrameLen
    BY BeginFacts
  <2>2. \A k \in 0..n - 1 : Begin(k) \in Nat /\ Begin(k) + FrameLen <= Begin(n)
    <3>1. \A k \in 0..n - 1 : k \in Nat /\ k < n
      OBVIOUS
    <3>2. QED
      BY <3>1, BeginFacts
  <2>3. \A k \in 0..n : Begin(k) \in Nat /\ Begin(k) <= Begin(n)
    <3>1. \A k \in 0..n : k = n \/ k \in 0..n - 1
      OBVIOUS
    <3>2. QED
      BY <2>1, <2>2, <3>1
  <2>4. QED
    BY <2>1, <2>2, <2>3
<1>4. b + w = L /\ \A i \in b + 1..L : wire[i] = s
  <2>1. CASE w > 0
    <3>1. Partial(s)
      BY <1>2, <2>1 DEF Partial
    <3>2. QED
      BY <1>1, <1>2, <1>3, <3>1 DEF Grid
  <2>2. CASE w = 0
    <3>1. \A t \in Senders : ~Partial(t)
      BY <1>2, <2>2 DEF Partial
    <3>2. b <= L /\ ~(b < L)
      BY <1>1, <1>3, <3>1 DEF Grid
    <3>3. QED
      BY <2>2, <3>2
  <2>3. QED
    BY <2>1, <2>2
<1>5. b <= L /\ \A i \in b + 1..L + 1 : wire'[i] = s
  <2>1. b <= L /\ \A i \in b + 1..L + 1 : (i \in 1..L /\ i \in b + 1..L) \/ i = L + 1
    BY <1>4
  <2>2. QED
    BY <1>1, <1>4, <2>1
<1>6. \A i \in 1..b : i \in 1..L /\ wire[i] # s
  <2>1. SUFFICES ASSUME NEW i \in 1..b PROVE i \in 1..L /\ wire[i] # s
    OBVIOUS
  <2>2. i \in 1..L
    BY <1>5
  <2>3. CASE w = 0
    <3>1. written[wire[i]] > 0
      BY <1>1, <2>2 DEF FrameInv, WireInv
    <3>2. QED
      BY <1>2, <2>2, <2>3, <3>1
  <2>4. CASE w # 0
    <3>1. b + 1 \in b + 1..L
      BY <1>4, <2>4
    <3>2. wire[i] # wire[b + 1]
      BY <1>1, <1>3, <3>1 DEF Grid
    <3>3. QED
      BY <1>4, <2>2, <3>1, <3>2
  <2>5. QED
    BY <2>3, <2>4
<1>7. \A k \in 0..n - 1 : \E t \in Senders :
        written'[t] = FrameLen /\ \A i \in Begin(k) + 1..Begin(k) + FrameLen : wire'[i] = t
  <2>1. SUFFICES ASSUME NEW k \in 0..n - 1
                 PROVE  \E t \in Senders : /\ written'[t] = FrameLen
                                           /\ \A i \in Begin(k) + 1..Begin(k) + FrameLen : wire'[i] = t
    OBVIOUS
  <2>2. PICK t \in Senders : /\ written[t] = FrameLen
                             /\ \A i \in Begin(k) + 1..Begin(k) + FrameLen : wire[i] = t
    BY DEF Grid
  <2>3. t # s /\ written'[t] = FrameLen
    BY <1>2, <2>2
  <2>4. \A i \in Begin(k) + 1..Begin(k) + FrameLen : i \in 1..L
    <3>1. Begin(k) \in Nat /\ Begin(k) + FrameLen <= b
      BY <1>3
    <3>2. QED
      BY <1>5, <3>1
  <2>5. QED
    BY <1>1, <2>2, <2>3, <2>4
<1>8. \A k \in 0..n : \A i \in 1..Begin(k), j \in Begin(k) + 1..L + 1 : wire'[i] # wire'[j]
  <2>1. SUFFICES ASSUME NEW k \in 0..n, NEW i \in 1..Begin(k), NEW j \in Begin(k) + 1..L + 1
                 PROVE  wire'[i] # wire'[j]
    OBVIOUS
  <2>2. Begin(k) \in Nat /\ Begin(k) <= b
    BY <1>3
  <2>3. i \in 1..b /\ (j \in Begin(k) + 1..L \/ j = L + 1)
    BY <2>2
  <2>4. i \in 1..L /\ wire[i] # s /\ wire'[i] = wire[i]
    BY <1>1, <1>6, <2>3
  <2>5. CASE j \in Begin(k) + 1..L
    <3>1. j \in 1..L
      BY <2>2, <2>5
    <3>2. wire[i] # wire[j]
      BY <1>1, <2>5 DEF Grid
    <3>3. QED
      BY <1>1, <2>4, <3>1, <3>2
  <2>6. CASE j = L + 1
    BY <1>1, <2>4, <2>6
  <2>7. QED
    BY <2>3, <2>5, <2>6
<1>9. CASE w + 1 < FrameLen
  <2>1. Partial(s)' /\ \A t \in Senders \ {s} : ~Partial(t)'
    BY <1>2, <1>9 DEF Partial
  <2>2. L + 1 = b + written'[s] /\ b <= L + 1
    BY <1>2, <1>4, <1>5
  <2>3. Grid(n)'
    BY <1>1, <1>3, <1>5, <1>7, <1>8, <2>1, <2>2 DEF Grid
  <2>4. QED
    BY <2>3
<1>10. CASE w + 1 = FrameLen
  <2>1. \A t \in Senders : ~Partial(t)'
    BY <1>2, <1>10 DEF Partial
  <2>2. L + 1 = b + FrameLen
    BY <1>4, <1>10
  <2>3. \A k \in 0..(n + 1) - 1 : \E t \in Senders :
          written'[t] = FrameLen /\ \A i \in Begin(k) + 1..Begin(k) + FrameLen : wire'[i] = t
    <3>1. written'[s] = FrameLen /\ \A i \in Begin(n) + 1..Begin(n) + FrameLen : wire'[i] = s
      BY <1>2, <1>3, <1>5, <1>10, <2>2
    <3>2. \A k \in 0..(n + 1) - 1 : k \in 0..n - 1 \/ k = n
      OBVIOUS
    <3>3. QED
      BY <1>7, <3>1, <3>2
  <2>4. \A k \in 0..n + 1 : \A i \in 1..Begin(k), j \in Begin(k) + 1..L + 1 : wire'[i] # wire'[j]
    <3>1. \A k \in 0..n + 1 : k \in 0..n \/ k = n + 1
      OBVIOUS
    <3>2. \A j \in Begin(n + 1) + 1..L + 1 : FALSE
      BY <1>3, <2>2
    <3>3. QED
      BY <1>8, <3>1, <3>2
  <2>5. Begin(n + 1) <= L + 1 /\ ~(Begin(n + 1) < L + 1)
    BY <1>3, <2>2
  <2>6. Grid(n + 1)'
    BY <1>1, <2>1, <2>3, <2>4, <2>5 DEF Grid
  <2>7. QED
    BY <2>6
<1>11. QED
  BY <1>9, <1>10

GridInv == \E n \in Nat : Grid(n)

LEMMA NextGrid ==
  ASSUME FrameInv, GridInv, [Next]_vars
  PROVE  GridInv'
<1>1. CASE \E s \in Senders : Write(s)
  BY <1>1, WriteGrid DEF GridInv
<1>2. CASE UNCHANGED <<written, wire>>
  <2>1. PICK n \in Nat : Grid(n)
    BY DEF GridInv
  <2>2. Grid(n)'
    BY <1>2, <2>1 DEF Grid, Partial
  <2>3. QED
    BY <2>2 DEF GridInv
<1>3. QED
  BY <1>1, <1>2 DEF Next, Call, Send, Lock, WriteTimeout, WriteError, ServeEnds, Exit,
                    CoreDies, HostReads, HostDies, connVars, vars

\* The units of one frame, as far as they are on the wire, are of one sender, and the
\* unit before them is of another.
LEMMA FrameAt ==
  ASSUME FrameInv, GridInv, NEW c \in Nat, Begin(c) < Len(wire)
  PROVE  \E s \in Senders :
           /\ \A i \in Begin(c) + 1..Begin(c) + FrameLen : i <= Len(wire) => wire[i] = s
           /\ Begin(c) + FrameLen <= Len(wire) => written[s] = FrameLen
           /\ Begin(c) # 0 => wire[Begin(c)] # wire[Begin(c) + 1]
<1>1. PICK n \in Nat : Grid(n)
  BY DEF GridInv
<1>2. Len(wire) \in Nat /\ Begin(c) \in Nat /\ Begin(n) \in Nat
  BY BeginFacts, LenProperties DEF FrameInv, TypeOK
<1>3. Len(wire) < Begin(n) + FrameLen
  <2>1. CASE \E s \in Senders : Partial(s)
    <3>1. PICK s \in Senders : Partial(s)
      BY <2>1
    <3>2. written[s] \in Nat /\ written[s] < FrameLen /\ Len(wire) = Begin(n) + written[s]
      BY <1>1, <3>1 DEF Grid, Partial, FrameInv, TypeOK
    <3>3. QED
      BY <1>2, <3>2
  <2>2. CASE ~\E s \in Senders : Partial(s)
    BY <1>1, <1>2, <2>2 DEF Grid
  <2>3. QED
    BY <2>1, <2>2
<1>4. c <= n
  <2>1. n < c => Begin(n) + FrameLen <= Begin(c)
    BY BeginFacts
  <2>2. QED
    BY <1>2, <1>3, <2>1
<1>5. Begin(c) # 0 => wire[Begin(c)] # wire[Begin(c) + 1]
  <2>1. c \in 0..n
    BY <1>4
  <2>2. Begin(c) # 0 => Begin(c) \in 1..Begin(c) /\ Begin(c) + 1 \in Begin(c) + 1..Len(wire)
    BY <1>2
  <2>3. QED
    BY <1>1, <2>1, <2>2 DEF Grid
<1>6. CASE c < n
  <2>1. c \in 0..n - 1
    BY <1>6
  <2>2. PICK s \in Senders : written[s] = FrameLen
                             /\ \A i \in Begin(c) + 1..Begin(c) + FrameLen : wire[i] = s
    BY <1>1, <2>1 DEF Grid
  <2>3. QED
    BY <1>5, <2>2
<1>7. CASE c = n
  <2>1. PICK s \in Senders : Partial(s)
    BY <1>1, <1>7 DEF Grid
  <2>2. \A i \in Begin(c) + 1..Len(wire) : wire[i] = s
    BY <1>1, <1>7, <2>1 DEF Grid
  <2>3. \A i \in Begin(c) + 1..Begin(c) + FrameLen : i <= Len(wire) => i \in Begin(c) + 1..Len(wire)
    BY <1>2
  <2>4. ~(Begin(c) + FrameLen <= Len(wire))
    BY <1>2, <1>3, <1>7
  <2>5. QED
    BY <1>5, <2>2, <2>3, <2>4
<1>8. QED
  BY <1>4, <1>6, <1>7

\* Once the reader has the header, it knows the length of the payload.
LEMMA HeaderKnown ==
  ASSUME FrameInv, GridInv, ReaderInv, start + HeaderLen <= Len(wire)
  PROVE  PayloadLen = FrameLen - HeaderLen
<1> DEFINE c == Len(delivered)
<1>1. c \in Nat /\ start = Begin(c) /\ start \in Nat /\ Len(wire) \in Nat
      /\ DOMAIN wire = 1..Len(wire)
  BY BeginFacts, LenProperties DEF ReaderInv, FrameInv, TypeOK
<1> HIDE DEF c
<1>2. Begin(c) < Len(wire)
  BY <1>1
<1>3. PICK s \in Senders :
        /\ \A i \in Begin(c) + 1..Begin(c) + FrameLen : i <= Len(wire) => wire[i] = s
        /\ Begin(c) # 0 => wire[Begin(c)] # wire[Begin(c) + 1]
  BY <1>1, <1>2, FrameAt
<1>4. \A i \in 0..HeaderLen - 1 :
        /\ start + 1 + i \in DOMAIN wire
        /\ wire[start + 1 + i] = s
  <2>1. SUFFICES ASSUME NEW i \in 0..HeaderLen - 1
                 PROVE  start + 1 + i \in DOMAIN wire /\ wire[start + 1 + i] = s
    OBVIOUS
  <2>2. start + 1 + i \in Begin(c) + 1..Begin(c) + FrameLen /\ start + 1 + i <= Len(wire)
    BY <1>1
  <2>3. QED
    BY <1>1, <1>3, <2>2
<1>5. wire[start + 1] = s
  <2>1. 0 \in 0..HeaderLen - 1 /\ start + 1 + 0 = start + 1
    BY <1>1
  <2>2. QED
    BY <1>4, <2>1
<1>6. start = 0 \/ wire[start] # wire[start + 1]
  BY <1>1, <1>3
<1>7. IsHeader(start + 1)
  <2>1. \A i \in 0..HeaderLen - 1 : /\ start + 1 + i \in DOMAIN wire
                                     /\ wire[start + 1 + i] = wire[start + 1]
    BY <1>4, <1>5
  <2> DEFINE k == start + 1
  <2>2. \A i \in 0..HeaderLen - 1 : k + i \in DOMAIN wire /\ wire[k + i] = wire[k]
    BY <2>1
  <2>3. k = 1 \/ wire[k - 1] # wire[k]
    <3>1. k - 1 = start /\ (start = 0 => k = 1)
      BY <1>1
    <3>2. QED
      BY <1>6, <3>1
  <2> HIDE DEF k
  <2>4. IsHeader(k)
    BY <2>2, <2>3 DEF IsHeader
  <2>5. QED
    BY <2>4 DEF k
<1>8. QED
  BY <1>7 DEF PayloadLen

\* A frame the reader completes is the payload of one sender that wrote it all.
LEMMA FrameKnown ==
  ASSUME FrameInv, GridInv, ReaderInv, start + FrameLen <= Len(wire)
  PROVE  \E s \in Senders :
           /\ SubSeq(wire, start + HeaderLen + 1, start + FrameLen) = Payload(s)
           /\ SubSeq(wire, start + HeaderLen + 1, start + FrameLen) \in Seq(Senders)
           /\ written[s] = FrameLen /\ wire[start + 1] = s
<1> DEFINE c == Len(delivered)
           u == SubSeq(wire, start + HeaderLen + 1, start + FrameLen)
<1>1. c \in Nat /\ start = Begin(c) /\ start \in Nat /\ Len(wire) \in Nat
      /\ DOMAIN wire = 1..Len(wire) /\ wire \in Seq(Senders)
  BY BeginFacts, LenProperties DEF ReaderInv, FrameInv, TypeOK
<1> HIDE DEF c
<1>2. Begin(c) < Len(wire) /\ Begin(c) + FrameLen <= Len(wire)
  BY <1>1
<1>3. PICK s \in Senders :
        /\ \A i \in Begin(c) + 1..Begin(c) + FrameLen : i <= Len(wire) => wire[i] = s
        /\ written[s] = FrameLen
  BY <1>1, <1>2, FrameAt
<1>4. \A i \in start + 1..start + FrameLen : wire[i] = s
  BY <1>1, <1>3
<1>5. u \in Seq(Senders) /\ Len(u) = FrameLen - HeaderLen
      /\ \A i \in 1..FrameLen - HeaderLen : u[i] = s
  <2>1. /\ start + HeaderLen + 1 \in Int /\ start + FrameLen \in Int
        /\ \A i \in start + HeaderLen + 1..start + FrameLen : wire[i] = s
    BY <1>1, <1>4
  <2>2. /\ u \in Seq(Senders)
        /\ Len(u) = IF start + HeaderLen + 1 <= start + FrameLen
                    THEN (start + FrameLen) - (start + HeaderLen + 1) + 1 ELSE 0
        /\ \A i \in 1..(start + FrameLen) - (start + HeaderLen + 1) + 1 :
             u[i] = wire[(start + HeaderLen + 1) + i - 1]
    BY <2>1, SubSeqProperties
  <2>3. \A i \in 1..FrameLen - HeaderLen :
          /\ i \in 1..(start + FrameLen) - (start + HeaderLen + 1) + 1
          /\ (start + HeaderLen + 1) + i - 1 \in start + HeaderLen + 1..start + FrameLen
    BY <1>1
  <2>4. Len(u) = FrameLen - HeaderLen
    BY <1>1, <2>2
  <2>5. QED
    BY <2>1, <2>2, <2>3, <2>4
<1>6. u = Payload(s)
  <2>1. Payload(s) \in Seq(Senders) /\ Len(Payload(s)) = FrameLen - HeaderLen
        /\ \A i \in 1..FrameLen - HeaderLen : Payload(s)[i] = s
    <3>1. FrameLen - HeaderLen \in Nat
      OBVIOUS
    <3>2. Payload(s) \in [1..FrameLen - HeaderLen -> Senders]
      BY DEF Payload
    <3>3. QED
      BY <3>1, <3>2 DEF Payload
  <2>2. QED
    BY <1>5, <2>1, SeqEqual
<1>7. wire[start + 1] = s
  BY <1>1, <1>4
<1>8. QED
  BY <1>3, <1>5, <1>6, <1>7 DEF u

\* Its frames stay what they are while the wire grows.
LEMMA WireGrows ==
  ASSUME FrameInv, [Next]_vars
  PROVE  /\ \A i \in DOMAIN wire : i \in DOMAIN wire' /\ wire'[i] = wire[i]
         /\ \A s \in Senders : written[s] = FrameLen => written'[s] = FrameLen
<1>1. CASE \E s \in Senders : Write(s)
  <2>1. PICK s \in Senders : Write(s)
    BY <1>1
  <2>2. wire \in Seq(Senders) /\ wire' = Append(wire, s) /\ wire' \in Seq(Senders)
    BY <2>1, AppendProperties DEF Write, FrameInv, TypeOK
  <2>3. /\ DOMAIN wire = 1..Len(wire) /\ DOMAIN wire' = 1..Len(wire') /\ Len(wire) \in Nat
        /\ Len(wire') = Len(wire) + 1
        /\ \A i \in 1..Len(wire) : wire'[i] = wire[i]
    BY <2>2, LenProperties, AppendProperties
  <2>4. written[s] < FrameLen /\ \A t \in Senders \ {s} : written'[t] = written[t]
    BY <2>1 DEF Write, Writing, FrameInv, TypeOK, ProgressInv
  <2>5. QED
    BY <2>3, <2>4
<1>2. CASE UNCHANGED <<written, wire>>
  BY <1>2
<1>3. QED
  BY <1>1, <1>2 DEF Next, Call, Send, Lock, WriteTimeout, WriteError, ServeEnds, Exit,
                    CoreDies, HostReads, HostDies, connVars, vars

\* What has been delivered stays right.
LEMMA DeliveredStays ==
  ASSUME FrameInv, ReaderInv, [Next]_vars, NEW i \in DOMAIN delivered
  PROVE  \E s \in Senders :
           /\ delivered[i] = Payload(s) /\ written'[s] = FrameLen
           /\ wire'[Begin(i - 1) + 1] = s
<1>1. PICK s \in Senders : delivered[i] = Payload(s) /\ written[s] = FrameLen
                           /\ wire[Begin(i - 1) + 1] = s
  BY DEF ReaderInv
<1>2. Begin(i - 1) + 1 \in DOMAIN wire
  <2>1. i \in 1..Len(delivered) /\ Len(delivered) \in Nat
    BY LenProperties DEF ReaderInv
  <2>2. i - 1 \in Nat /\ i - 1 < Len(delivered)
    BY <2>1
  <2>3. Begin(i - 1) \in Nat /\ Begin(i - 1) + FrameLen <= start /\ start \in Nat
    BY <2>1, <2>2, BeginFacts DEF ReaderInv
  <2>4. start <= Len(wire) /\ Len(wire) \in Nat /\ DOMAIN wire = 1..Len(wire)
    BY <2>3, LenProperties DEF ReaderInv, FrameInv, TypeOK
  <2>5. QED
    BY <2>3, <2>4
<1>3. QED
  BY <1>1, <1>2, WireGrows

\* What the host has read are the frames delivered and the part of the next.
LEMMA ReadSoFar ==
  ASSUME FrameInv, ReaderInv
  PROVE  /\ Len(wire) \in Nat /\ unread \in Nat
         /\ start + header_read + payload_read \in Nat
         /\ Len(wire) = start + header_read + payload_read + unread
         /\ \A d \in Nat : Len(wire) = d + unread => d = start + header_read + payload_read
<1>1. wire \in Seq(Senders) /\ unread \in Nat /\ delivered \in Seq(Seq(Senders))
  BY DEF FrameInv, TypeOK, ReaderInv
<1>2. Len(wire) \in Nat /\ Len(delivered) \in Nat
  BY <1>1, LenProperties
<1>3. start \in Nat /\ header_read \in Nat /\ payload_read \in Nat
  BY <1>2, BeginFacts DEF ReaderInv
<1>4. Len(wire) = start + header_read + payload_read + unread
  BY DEF ReaderInv
<1>5. QED
  BY <1>1, <1>2, <1>3, <1>4

LEMMA CoreKeepsReader ==
  ASSUME FrameInv, ReaderInv, [Next]_vars,
         NEW d \in Nat, Len(wire) = d + unread, Len(wire') = d + unread',
         UNCHANGED <<start, header_read, payload_read, delivered>>, polling' \in BOOLEAN
  PROVE  ReaderInv'
<1>1. d = start + header_read + payload_read
  BY ReadSoFar
<1>2. Len(wire') = start + header_read + payload_read + unread'
  BY <1>1
<1>3. \A i \in DOMAIN delivered :
        \E s \in Senders : /\ delivered[i] = Payload(s) /\ written'[s] = FrameLen
                           /\ wire'[Begin(i - 1) + 1] = s
  BY DeliveredStays
<1>4. QED
  BY <1>2, <1>3 DEF ReaderInv

\* The loop puts a whole frame into the sink.
LEMMA DeliverReader ==
  ASSUME FrameInv, GridInv, ReaderInv, HostReads, Deliver,
         header_read + payload_read + 1 = FrameLen
  PROVE  ReaderInv'
<1> DEFINE u == SubSeq(wire, start + HeaderLen + 1, Len(wire) - unread')
           c == Len(delivered)
<1>1. /\ Len(wire) \in Nat /\ unread \in Nat /\ unread > 0 /\ unread' = unread - 1
      /\ c \in Nat /\ start = Begin(c) /\ start \in Nat
      /\ header_read \in Nat /\ payload_read \in Nat
      /\ wire' = wire /\ written' = written
      /\ Len(wire) = start + header_read + payload_read + unread
  <2>1. wire \in Seq(Senders) /\ unread \in Nat /\ delivered \in Seq(Seq(Senders))
    BY DEF FrameInv, TypeOK, ReaderInv
  <2>2. Len(wire) \in Nat /\ c \in Nat
    BY <2>1, LenProperties
  <2>3. start = Begin(c) /\ start \in Nat
    BY <2>2, BeginFacts DEF ReaderInv
  <2>4. QED
    BY <2>1, <2>2, <2>3 DEF HostReads, ReaderInv
<1>2. Len(wire) - unread' = start + FrameLen /\ start + FrameLen <= Len(wire)
  <2>1. start + FrameLen = start + header_read + payload_read + 1
    BY <1>1
  <2>2. QED
    BY <1>1, <2>1
<1>3. PICK s \in Senders : /\ u = Payload(s) /\ u \in Seq(Senders)
                           /\ written[s] = FrameLen /\ wire[start + 1] = s
  BY <1>2, FrameKnown
<1>4. /\ delivered \in Seq(Seq(Senders)) /\ delivered' = Append(delivered, u)
      /\ polling' = FALSE /\ start' = start + FrameLen
      /\ header_read' = 0 /\ payload_read' = 0
  BY <1>2 DEF Deliver, Reset, ReaderInv
<1> HIDE DEF u
<1>5. /\ delivered' \in Seq(Seq(Senders)) /\ Len(delivered') = c + 1
      /\ DOMAIN delivered' = 1..(c + 1)
      /\ \A i \in 1..c : i \in DOMAIN delivered /\ delivered'[i] = delivered[i]
      /\ delivered'[c + 1] = u
  BY <1>3, <1>4, AppendProperties, LenProperties
<1> HIDE DEF c
<1>6. start' = Begin(c + 1)
  BY <1>1, <1>4, BeginFacts
<1>7. \A i \in DOMAIN delivered' :
        \E t \in Senders : /\ delivered'[i] = Payload(t) /\ written'[t] = FrameLen
                           /\ wire'[Begin(i - 1) + 1] = t
  <2>1. SUFFICES ASSUME NEW i \in 1..(c + 1)
                 PROVE  \E t \in Senders : /\ delivered'[i] = Payload(t) /\ written'[t] = FrameLen
                                           /\ wire'[Begin(i - 1) + 1] = t
    BY <1>5
  <2>2. CASE i \in 1..c
    BY <1>1, <1>5, <2>2 DEF ReaderInv
  <2>3. CASE i = c + 1
    <3>1. i - 1 = c
      BY <1>1, <2>3
    <3>2. QED
      BY <1>1, <1>3, <1>5, <2>3, <3>1
  <2>4. QED
    BY <1>1, <2>1, <2>2, <2>3
<1>8. Len(wire') = start' + header_read' + payload_read' + unread'
  BY <1>1, <1>2, <1>4
<1>9. /\ header_read' \in 0..HeaderLen /\ payload_read' \in 0..FrameLen - HeaderLen
      /\ ~(payload_read' > 0) /\ header_read' + payload_read' < FrameLen
      /\ polling' \in BOOLEAN /\ start' = Begin(Len(delivered'))
  <2>1. 0 \in 0..HeaderLen /\ 0 \in 0..FrameLen - HeaderLen /\ 0 + 0 < FrameLen
    OBVIOUS
  <2>2. start' = Begin(Len(delivered'))
    BY <1>5, <1>6
  <2>3. polling' \in BOOLEAN
    BY <1>4, Zenon
  <2>4. header_read' = 0 /\ payload_read' = 0
    BY <1>4
  <2>5. QED
    BY <2>1, <2>2, <2>3, <2>4
<1>10. QED
  BY <1>5, <1>7, <1>8, <1>9 DEF ReaderInv

LEMMA ReadReader ==
  ASSUME FrameInv, GridInv, ReaderInv, ReadHeader \/ ReadPayload
  PROVE  ReaderInv'
<1>1. /\ Len(wire) \in Nat /\ unread \in Nat /\ unread > 0 /\ unread' = unread - 1
      /\ start \in Nat
      /\ header_read \in 0..HeaderLen /\ payload_read \in 0..FrameLen - HeaderLen
      /\ header_read + payload_read < FrameLen
      /\ payload_read > 0 => header_read = HeaderLen
      /\ wire' = wire /\ HostReads
      /\ Len(wire) = start + header_read + payload_read + unread
      /\ polling /\ polling \in BOOLEAN
  BY BeginFacts, LenProperties DEF ReadHeader, ReadPayload, HostReads, FrameInv, TypeOK, ReaderInv
<1>2. [Next]_vars
  BY <1>1 DEF Next
<1>3. \A i \in DOMAIN delivered :
        \E s \in Senders : /\ delivered[i] = Payload(s) /\ written'[s] = FrameLen
                           /\ wire'[Begin(i - 1) + 1] = s
  BY <1>2, DeliveredStays
<1>4. CASE ReadHeader
  <2>1. header_read < HeaderLen /\ payload_read = 0
    BY <1>1, <1>4 DEF ReadHeader
  <2>2. CASE header_read + 1 = HeaderLen /\ PayloadLen = 0
    <3>1. start + HeaderLen <= Len(wire)
      BY <1>1, <2>1, <2>2
    <3>2. FrameLen = HeaderLen
      BY <2>2, <3>1, HeaderKnown
    <3>3. Deliver
      BY <1>4, <2>2 DEF ReadHeader
    <3>4. header_read + payload_read + 1 = FrameLen
      BY <1>1, <2>1, <2>2, <3>2
    <3>5. QED
      BY <1>1, <3>3, <3>4, DeliverReader
  <2>3. CASE ~(header_read + 1 = HeaderLen /\ PayloadLen = 0)
    <3>1. /\ header_read' = header_read + 1
          /\ UNCHANGED <<polling, start, payload_read, delivered>>
      BY <1>4, <2>3 DEF ReadHeader
    <3>2. header_read' + payload_read' < FrameLen
      <4>1. CASE header_read + 1 < HeaderLen
        BY <1>1, <2>1, <3>1, <4>1
      <4>2. CASE header_read + 1 = HeaderLen
        <5>1. start + HeaderLen <= Len(wire)
          BY <1>1, <2>1, <4>2
        <5>2. HeaderLen # FrameLen
          BY <2>3, <4>2, <5>1, HeaderKnown
        <5>3. QED
          BY <1>1, <2>1, <3>1, <4>2, <5>2
      <4>3. QED
        BY <1>1, <2>1, <4>1, <4>2
    <3>3. /\ header_read' \in 0..HeaderLen /\ payload_read' = 0
          /\ Len(wire') = start' + header_read' + payload_read' + unread'
      BY <1>1, <2>1, <3>1
    <3>4. QED
      BY <1>1, <1>3, <3>1, <3>2, <3>3 DEF ReaderInv
  <2>4. QED
    BY <2>2, <2>3
<1>5. CASE ReadPayload
  <2>1. header_read = HeaderLen /\ start + HeaderLen <= Len(wire)
    BY <1>1, <1>5 DEF ReadPayload
  <2>2. PayloadLen = FrameLen - HeaderLen
    BY <2>1, HeaderKnown
  <2>3. CASE payload_read + 1 = PayloadLen
    <3>1. header_read + payload_read + 1 = FrameLen /\ Deliver
      BY <1>1, <1>5, <2>1, <2>2, <2>3 DEF ReadPayload
    <3>2. QED
      BY <1>1, <3>1, DeliverReader
  <2>4. CASE payload_read + 1 # PayloadLen
    <3>1. /\ payload_read' = payload_read + 1
          /\ UNCHANGED <<polling, start, header_read, delivered>>
      BY <1>5, <2>4 DEF ReadPayload
    <3>2. /\ payload_read' \in 0..FrameLen - HeaderLen
          /\ header_read' + payload_read' < FrameLen
          /\ Len(wire') = start' + header_read' + payload_read' + unread'
      BY <1>1, <2>1, <2>2, <2>4, <3>1
    <3>3. QED
      BY <1>1, <1>3, <2>1, <3>1, <3>2 DEF ReaderInv
  <2>5. QED
    BY <2>3, <2>4
<1>6. QED
  BY <1>4, <1>5

LEMMA NextReaderInv ==
  ASSUME FrameInv, FrameInv', GridInv, ReaderInv, [ReaderNext]_linkVars
  PROVE  ReaderInv'
<1>1. [Next]_vars
  BY ReaderStep
<1>2. /\ Len(wire) \in Nat /\ unread \in Nat /\ polling \in BOOLEAN
      /\ Len(wire') \in Nat /\ unread' \in Nat
  <2>1. wire \in Seq(Senders) /\ wire' \in Seq(Senders) /\ unread \in Nat /\ unread' \in Nat
    BY DEF FrameInv, TypeOK
  <2>2. QED
    BY <2>1, LenProperties DEF ReaderInv
<1>3. PICK d \in Nat : Len(wire) = d + unread
  BY ReadSoFar
<1>4. CASE ReadHeader \/ ReadPayload
  BY <1>4, ReadReader
<1>5. CASE /\ Poll \/ WouldBlock \/ EndOfFile \/ Disconnect \/ UNCHANGED linkVars
  <2>1. /\ UNCHANGED <<wire, unread, start, header_read, payload_read, delivered>>
        /\ polling' \in BOOLEAN
    BY <1>2, <1>5 DEF Poll, WouldBlock, EndOfFile, Disconnect, HostDies, linkVars, vars, readerVars
  <2>2. QED
    BY <1>1, <1>3, <2>1, CoreKeepsReader
<1>6. CASE CoreStep /\ UNCHANGED readerVars
  <2>1. Len(wire') = d + unread'
    <3>1. CASE \E s \in Senders : Write(s)
      <4>1. PICK s \in Senders : Write(s)
        BY <3>1
      <4>2. wire \in Seq(Senders) /\ wire' = Append(wire, s) /\ unread' = unread + 1
        BY <4>1 DEF Write, FrameInv, TypeOK
      <4>3. Len(wire') = Len(wire) + 1
        BY <4>2, AppendProperties
      <4>4. QED
        BY <1>2, <1>3, <4>2, <4>3
    <3>2. CASE UNCHANGED <<wire, unread>>
      BY <1>3, <3>2
    <3>3. QED
      BY <1>6, <3>1, <3>2 DEF CoreStep, Call, Send, Lock, WriteTimeout, WriteError, ServeEnds,
                              Exit, CoreDies, connVars
  <2>2. QED
    BY <1>1, <1>2, <1>6, <1>3, <2>1, CoreKeepsReader DEF readerVars
<1>7. QED
  BY <1>4, <1>5, <1>6 DEF ReaderNext, Reader

LEMMA InitReaderInv == ReaderInit => FrameInv /\ GridInv /\ ReaderInv
<1> SUFFICES ASSUME ReaderInit PROVE FrameInv /\ GridInv /\ ReaderInv
  OBVIOUS
<1>1. Init /\ wire = <<>> /\ unread = 0
  BY DEF ReaderInit, Init
<1>2. GridInv
  BY <1>1, InitGrid DEF GridInv
<1>3. /\ delivered = <<>> /\ delivered \in Seq(Seq(Senders)) /\ Len(delivered) = 0
      /\ Len(wire) = 0 /\ start = 0 /\ Begin(0) = 0
  BY <1>1, EmptySeq, BeginFacts DEF ReaderInit
<1>4. ReaderInv
  <2>1. /\ polling = FALSE /\ header_read = 0 /\ payload_read = 0
        /\ header_read \in 0..HeaderLen /\ payload_read \in 0..FrameLen - HeaderLen
        /\ header_read + payload_read < FrameLen /\ ~(payload_read > 0)
    BY DEF ReaderInit
  <2>2. DOMAIN delivered = {}
    BY <1>3
  <2>3. Len(wire) = start + header_read + payload_read + unread
    BY <1>1, <1>3, <2>1
  <2>4. QED
    BY <1>3, <2>1, <2>2, <2>3 DEF ReaderInv
<1>5. QED
  BY <1>1, <1>2, <1>4, InitFrameInv

THEOREM ReaderInvariance == ReaderSpec => [](FrameInv /\ GridInv /\ ReaderInv)
<1>1. FrameInv /\ GridInv /\ ReaderInv /\ [ReaderNext]_linkVars
        => (FrameInv /\ GridInv /\ ReaderInv)'
  BY ReaderStep, NextFrameInv, NextGrid, NextReaderInv
<1>2. QED
  BY <1>1, InitReaderInv, PTL DEF ReaderSpec

\* The app gets every frame the Core completed, once, whole and in the order of the
\* wire, for any number of senders, any sizes of frame, prefix and socket buffer,
\* however the reads and writes split them and whatever tears the last one
\* (frame.rs:103-147; server.go:73-175).
THEOREM FramesDelivered == ReaderSpec => []FramesArriveWhole
<1>1. FrameInv /\ GridInv /\ ReaderInv => FramesArriveWhole
  <2> SUFFICES ASSUME FrameInv, GridInv, ReaderInv PROVE FramesArriveWhole
    OBVIOUS
  <2>1. /\ Len(delivered) \in Nat /\ start = Begin(Len(delivered)) /\ start \in Nat
        /\ header_read \in Nat /\ payload_read \in Nat /\ unread \in Nat /\ Len(wire) \in Nat
        /\ header_read + payload_read < FrameLen
        /\ Len(wire) = start + header_read + payload_read + unread
    BY BeginFacts, LenProperties DEF ReaderInv, FrameInv, TypeOK
  <2>2. Taken \in Nat /\ Begin(Len(delivered)) <= Taken
        /\ Taken < Begin(Len(delivered)) + FrameLen
    BY <2>1 DEF Taken
  <2>3. Len(delivered) = Taken \div FrameLen
    BY <2>1, <2>2, FrameOf
  <2>4. QED
    BY <2>3 DEF FramesArriveWhole, ReaderInv, Begin
<1>2. QED
  BY <1>1, ReaderInvariance, PTL

=============================================================================
