----------------------------- MODULE RunState_proofs -----------------------------
(***************************************************************************)
(* Proofs about RunState: when nothing is under way, the intent, the       *)
(* published state, the run time and the service agree, and a stop that    *)
(* was answered holds, for any number of requests and of losses.           *)
(***************************************************************************)
EXTENDS RunState, TLAPS

USE RunAssumption

-----------------------------------------------------------------------------
(* The inductive invariant                                                  *)

\* Where a request holds the lock of preparations, the lock of transitions, or both.
Preparing == {"ask", "post", "consent", "lock", "active", "call", "use", "failed", "started",
              "reconcile", "reconcileStop"}
Coming == {"active", "call", "use", "failed", "started"}
Going == {"stopService", "reconcileStop"}
Places == Preparing \cup {"none", "asking", "notice", "launched", "stop", "stopService", "done"}

RunTypeOK ==
  /\ {dropped, runTime, raced} \subseteq BOOLEAN
  /\ latest \in Nat /\ asked \in 0..MaxRequests
  /\ kind \in [Requests -> {"none", "start", "stop"}]
  /\ pc \in [Requests -> Places]
  /\ enable \in [Requests -> {"none", "vpn", "proxy"}]
  /\ answer \in [Requests -> {"none", "yes", "no"}]
  /\ notices \in 0..MaxRequests
  /\ binding \in [number : Nat, kind : {"none", "vpn", "proxy"},
                  link : {"none", "waiting", "connected", "lost"}]
  /\ losses \in [Losses -> [pc : {"none", "clear", "settle", "done"}, token : Nat, number : Nat]]

\* Requests come one after the other, the token is the last one or no request's, and
\* only what is done is answered.
AskedInv ==
  /\ latest \in Requests => latest = asked
  /\ \A r \in Requests : /\ pc[r] = "none" <=> r > asked
                         /\ answer[r] # "none" => pc[r] = "done"
                         /\ pc[r] \in {"stop", "stopService"} => kind[r] = "stop"
                         /\ pc[r] \in Preparing \cup {"asking", "notice", "launched"} => kind[r] = "start"
                         /\ pc[r] \in {"reconcile", "reconcileStop"} => latest # r
                         /\ pc[r] \in Preparing \ {"reconcile", "reconcileStop"} => enable[r] # "none"

\* Each lock has the holder whose place says so.
LockInv ==
  \A r \in Requests : /\ pc[r] \in Preparing <=> preparation = r
                      /\ pc[r] \in Coming \cup Going <=> transition = r
                      /\ pc[r] = "use" <=> control = r

LocksOfRequests == {preparation, transition, control} \subseteq 0..MaxRequests

\* The callback that is kept is the one of a start that waits for it.
NoticeInv == notices # 0 => pc[notices] = "notice"

\* A disconnection of the binding is still to be cleared; one was cleared, and what it
\* means for the request is still to be settled.
Clearing == \E l \in Losses : losses[l].pc = "clear" /\ losses[l].number = binding.number

Settling == \E l \in Losses : losses[l].pc = "settle"

\* A binding goes with a run time and the service it bound, but for the start that is
\* binding it, or a disconnection of it not yet handled.
ServiceInv ==
  /\ binding.kind = "none" => ~runTime /\ service = "none"
  /\ control = 0 /\ ~runTime => binding.kind = "none"
  /\ control = 0 /\ runTime /\ service # binding.kind => Clearing
  /\ \A r \in Requests : pc[r] = "use" => binding.kind = enable[r]

\* A loss that leaves a state nobody published: its handling is due, or was overtaken.
Lost == Settling \/ raced

StopAwaited == latest \in Requests /\ pc[latest] = "stop"

Reconciling == \E r \in Requests : pc[r] = "reconcile"

\* The intent and the run time: a start under the lock is wanted, or the stop that
\* overtook it waits, or the start that did was denied; what runs and nobody wants is
\* about to be stopped, but for such a denial; the start that is current and done brought
\* it up, and it runs unless it was lost.
IntentInv ==
  /\ \A r \in Requests : pc[r] \in Coming => RunningRequested \/ StopAwaited \/ dropped
  /\ runTime /\ ~RunningRequested =>
       Reconciling \/ StopAwaited \/ dropped \/ \E r \in Requests : pc[r] \in Going
  /\ RunningRequested /\ pc[latest] = "done" =>
       transition = 0 /\ (runTime \/ Lost) /\ (runTime => phase = "STARTED")

\* The published phase, while no transition is under way.
PhaseInv ==
  /\ transition = 0 /\ runTime =>
       phase = "STARTED" \/ Reconciling \/ dropped \/ (latest \in Requests /\ pc[latest] # "done")
  /\ transition = 0 /\ ~runTime => phase = "STOPPED" \/ Lost
  /\ \A r \in Requests : pc[r] \in {"active", "started"} => runTime \/ Lost

\* StopHolds, and no transition can come.
HoldInv ==
  \A r \in Requests :
    kind[r] = "stop" /\ answer[r] = "yes" /\ asked = r =>
      /\ transition = 0 /\ phase = "STOPPED"
      /\ ~runTime /\ binding.kind = "none" /\ service = "none"

RunInv == /\ RunTypeOK /\ AskedInv /\ LockInv /\ LocksOfRequests /\ NoticeInv /\ ServiceInv
          /\ IntentInv /\ PhaseInv /\ HoldInv

-----------------------------------------------------------------------------
(* Steps                                                                    *)

\* The variables the invariant speaks of; the others are the permissions asked for.
runVars == <<arbiterVars, pc, enable, answer, lockVars, notices, controlVars, lossVars>>

LEMMA Unseen ==
  ASSUME RunInv, UNCHANGED runVars
  PROVE  RunInv'
<1>1. /\ UNCHANGED <<latest, asked, kind, dropped, pc, enable, answer, phase, transition, preparation>>
      /\ UNCHANGED <<notices, control, binding, runTime, service, losses, raced>>
  BY DEF runVars, arbiterVars, lockVars, controlVars, lossVars
<1>2. RunTypeOK' /\ AskedInv' /\ LockInv' /\ LocksOfRequests' /\ NoticeInv'
  BY <1>1 DEF RunInv, RunTypeOK, AskedInv, LockInv, LocksOfRequests, NoticeInv
<1>3. ServiceInv' /\ HoldInv'
  BY <1>1 DEF RunInv, ServiceInv, Clearing, HoldInv
<1>4. IntentInv' /\ PhaseInv'
  BY <1>1 DEF RunInv, IntentInv, PhaseInv, RunningRequested, StopAwaited, Reconciling, Lost, Settling
<1>5. QED
  BY <1>2, <1>3, <1>4 DEF RunInv

\* What an update of the places says of each.
LEMMA Moved ==
  ASSUME RunTypeOK, NEW r \in Requests, NEW label \in Places, pc' = [pc EXCEPT ![r] = label]
  PROVE  /\ pc' \in [Requests -> Places] /\ pc'[r] = label
         /\ \A x \in Requests \ {r} : pc'[x] = pc[x]
  BY DEF RunTypeOK

\* A token that was reset is no request's.
LEMMA ResetFacts ==
  ASSUME RunTypeOK, NEW t \in Nat, ResetToStopped(t)
  PROVE  /\ asked' = asked /\ kind' = kind /\ dropped' = dropped /\ latest' \in Nat /\ latest' # t
         /\ latest' = latest \/ latest' \notin Requests
         /\ latest # t => latest' = latest
<1>1. Stopped(t) \in Nat /\ Stopped(t) # t /\ Stopped(t) \notin Requests
  BY DEF Stopped, Requests
<1>2. QED
  BY <1>1 DEF ResetToStopped, IsCurrent, RunTypeOK

\* A denial that gives the intent up is remembered.
LEMMA DenyFacts ==
  ASSUME RunTypeOK, NEW r \in Requests, Deny(r)
  PROVE  /\ asked' = asked /\ kind' = kind /\ latest' # r
         /\ \/ latest' = latest /\ dropped' = dropped
            \/ latest' \in Nat \ Requests /\ dropped' = TRUE
<1>1. Stopped(r) \in Nat \ Requests /\ Stopped(r) # r
  BY DEF Stopped, Requests
<1>2. CASE latest = r
  BY <1>1, <1>2 DEF Deny, IsCurrent
<1>3. CASE latest # r
  <2>1. latest' = latest /\ dropped' = (dropped \/ FALSE) /\ asked' = asked /\ kind' = kind
    BY <1>3 DEF Deny, IsCurrent
  <2>2. dropped' = dropped
    BY <2>1 DEF RunTypeOK
  <2>3. QED
    BY <1>3, <2>1, <2>2
<1>4. QED
  BY <1>2, <1>3

LEMMA InitRun == Init => RunInv
<1> SUFFICES ASSUME Init PROVE RunInv
  OBVIOUS
<1>1. \A r \in Requests : /\ r # 0 /\ r > 0 /\ pc[r] = "none" /\ answer[r] = "none"
  BY DEF Init, Requests
<1>2. 0 \notin Requests
  BY DEF Requests
<1>3. RunTypeOK
  <2>1. {dropped, runTime, raced} \subseteq BOOLEAN
    BY DEF Init
  <2>2. /\ latest \in Nat /\ asked \in 0..MaxRequests /\ notices \in 0..MaxRequests
    BY DEF Init
  <2>3. /\ kind \in [Requests -> {"none", "start", "stop"}] /\ pc \in [Requests -> Places]
        /\ enable \in [Requests -> {"none", "vpn", "proxy"}]
        /\ answer \in [Requests -> {"none", "yes", "no"}]
    BY DEF Init, Places
  <2>4. binding \in [number : Nat, kind : {"none", "vpn", "proxy"},
                     link : {"none", "waiting", "connected", "lost"}]
    BY DEF Init, NoBinding
  <2>5. losses \in [Losses -> [pc : {"none", "clear", "settle", "done"}, token : Nat, number : Nat]]
    BY DEF Init
  <2>6. QED
    BY <2>1, <2>2, <2>3, <2>4, <2>5 DEF RunTypeOK
<1>4. AskedInv /\ LockInv /\ LocksOfRequests /\ NoticeInv
  BY <1>1, <1>2 DEF Init, AskedInv, LockInv, LocksOfRequests, NoticeInv, Preparing, Coming, Going
<1>5. ServiceInv /\ HoldInv
  BY <1>1 DEF Init, ServiceInv, HoldInv, NoBinding
<1>6. IntentInv /\ PhaseInv
  BY <1>1, <1>2 DEF Init, IntentInv, PhaseInv, RunningRequested, Coming
<1>7. QED
  BY <1>3, <1>4, <1>5, <1>6 DEF RunInv

\* A start in preparation goes on.
LEMMA PreparesOn ==
  ASSUME RunInv, NEW r \in Requests, NEW from \in {"ask", "post", "consent"}, pc[r] = from,
         NEW to \in {"post", "consent", "lock"}, pc' = [pc EXCEPT ![r] = to],
         UNCHANGED <<arbiterVars, enable, answer, lockVars, notices, controlVars, lossVars>>
  PROVE  RunInv'
<1>1. /\ UNCHANGED <<latest, asked, kind, dropped, enable, answer, phase, transition, preparation>>
      /\ UNCHANGED <<notices, control, binding, runTime, service, losses, raced>>
  BY DEF arbiterVars, lockVars, controlVars, lossVars
<1>2. /\ pc' \in [Requests -> Places] /\ pc'[r] = to /\ \A x \in Requests \ {r} : pc'[x] = pc[x]
  BY Moved DEF RunInv, Places, Preparing
<1>3. RunTypeOK'
  BY <1>1, <1>2 DEF RunInv, RunTypeOK
<1>4. AskedInv'
  BY <1>1, <1>2 DEF RunInv, AskedInv, Preparing
<1>5. LockInv' /\ LocksOfRequests'
  BY <1>1, <1>2 DEF RunInv, LockInv, LocksOfRequests, Preparing, Coming, Going
<1>6. NoticeInv'
  BY <1>1, <1>2 DEF RunInv, NoticeInv
<1>7. ServiceInv' /\ HoldInv'
  BY <1>1, <1>2 DEF RunInv, ServiceInv, Clearing, HoldInv
<1>8. (Reconciling' <=> Reconciling) /\ (StopAwaited' <=> StopAwaited)
      /\ (RunningRequested' <=> RunningRequested) /\ (Lost' <=> Lost)
      /\ (latest \in Requests => (pc'[latest] = "done" <=> pc[latest] = "done"))
  BY <1>1, <1>2 DEF Reconciling, StopAwaited, RunningRequested, Lost, Settling
<1>9. IntentInv' /\ PhaseInv'
  BY <1>1, <1>2, <1>8 DEF RunInv, IntentInv, PhaseInv, Coming, Going
<1>10. QED
  BY <1>3, <1>4, <1>5, <1>6, <1>7, <1>9 DEF RunInv

LEMMA BindStep == ASSUME RunInv, NEW r \in Requests, Bind(r) PROVE RunInv'
<1>1. /\ pc[r] = "call" /\ control = 0
      /\ UNCHANGED <<latest, asked, kind, dropped, enable, answer, phase, transition, preparation>>
      /\ UNCHANGED <<notices, losses, raced>>
  BY DEF Bind, Goto, StartFails, arbiterVars, lockVars, askVars, lossVars
<1>2. PICK to \in {"use", "failed"} :
        /\ pc' = [pc EXCEPT ![r] = to]
        /\ control' = IF to = "use" THEN r ELSE 0
        /\ \/ to = "use" /\ binding.kind = enable[r] /\ UNCHANGED <<binding, runTime, service>>
           \/ /\ to = "use" /\ UNCHANGED runTime /\ service' = "none"
              /\ binding' = [number |-> binding.number + 1, kind |-> enable[r], link |-> "waiting"]
           \/ /\ to = "failed" /\ runTime' = FALSE /\ service' = "none"
              /\ binding' = NoBinding(binding.number)
  BY DEF Bind, Goto, StartFails
<1>3. /\ pc' \in [Requests -> Places] /\ pc'[r] = to /\ \A x \in Requests \ {r} : pc'[x] = pc[x]
  BY <1>2, Moved DEF RunInv, Places, Preparing
<1>4. transition = r /\ r # 0 /\ enable[r] # "none"
  BY <1>1 DEF RunInv, LockInv, AskedInv, Coming, Preparing, Requests
<1>5. /\ binding' \in [number : Nat, kind : {"none", "vpn", "proxy"},
                        link : {"none", "waiting", "connected", "lost"}]
      /\ to = "use" => binding'.kind = enable[r]
      /\ to = "failed" => binding'.kind = "none" /\ runTime' = FALSE /\ service' = "none"
  BY <1>2 DEF RunInv, RunTypeOK, NoBinding
<1>6. RunTypeOK'
  <2>1. runTime' \in BOOLEAN
    BY <1>2 DEF RunInv, RunTypeOK
  <2>2. QED
    BY <1>1, <1>3, <1>5, <2>1 DEF RunInv, RunTypeOK
<1>7. AskedInv'
  BY <1>1, <1>3 DEF RunInv, AskedInv, Preparing
<1>8. LockInv' /\ LocksOfRequests'
  BY <1>1, <1>2, <1>3, <1>4 DEF RunInv, LockInv, LocksOfRequests, Preparing, Coming, Going, Requests
<1>9. NoticeInv'
  BY <1>1, <1>3 DEF RunInv, RunTypeOK, NoticeInv, Requests
<1>10. ServiceInv'
  <2>1. \A x \in Requests \ {r} : pc'[x] # "use"
    BY <1>1, <1>3 DEF RunInv, LockInv, Requests
  <2>2. CASE to = "use"
    BY <1>1, <1>2, <1>3, <1>4, <1>5, <2>1, <2>2 DEF ServiceInv
  <2>3. CASE to = "failed"
    BY <1>2, <1>3, <1>5, <2>1, <2>3 DEF ServiceInv
  <2>4. QED
    BY <2>2, <2>3
<1>11. IntentInv' /\ PhaseInv' /\ HoldInv'
  <2>1. RunningRequested \/ StopAwaited \/ dropped
    BY <1>1 DEF RunInv, IntentInv, Coming
  <2>2. (RunningRequested' <=> RunningRequested) /\ (StopAwaited => StopAwaited')
    BY <1>1, <1>3 DEF RunningRequested, StopAwaited
  <2>3. ~(RunningRequested' /\ pc'[latest'] = "done")
    BY <1>1, <1>3, <1>4 DEF RunInv, IntentInv, RunningRequested
  <2>4. transition # 0 /\ transition' # 0
    BY <1>1, <1>4
  <2>5. IntentInv'
    BY <1>1, <2>1, <2>2, <2>3 DEF IntentInv
  <2>6. PhaseInv'
    BY <1>1, <1>3, <1>4, <2>4 DEF RunInv, PhaseInv, LockInv, Coming
  <2>7. HoldInv'
    BY <1>1, <2>4 DEF RunInv, HoldInv
  <2>8. QED
    BY <2>5, <2>6, <2>7
<1>12. QED
  BY <1>6, <1>7, <1>8, <1>9, <1>10, <1>11 DEF RunInv

\* A request is new: it is current, and awaits its stop or its start.
LEMMA RequestSteps ==
  ASSUME RunInv, RequestStop \/ RequestStart
  PROVE  RunInv'
<1>1. PICK r \in Requests, k \in {"start", "stop"}, to \in {"stop", "asking", "launched"} :
        /\ NewRequest(r, k) /\ (to = "stop" <=> k = "stop") /\ pc' = [pc EXCEPT ![r] = to]
        /\ UNCHANGED <<enable, answer, lockVars, askVars, controlVars, lossVars>>
  BY DEF RequestStop, RequestStart, Goto
<1>2. /\ UNCHANGED <<enable, answer, phase, transition, preparation, notices>>
      /\ UNCHANGED <<control, binding, runTime, service, losses, raced>>
  BY <1>1 DEF lockVars, askVars, controlVars, lossVars
<1>3. /\ r = asked + 1 /\ asked' = r /\ latest' = r /\ r # 0 /\ dropped' = FALSE
      /\ kind' \in [Requests -> {"none", "start", "stop"}]
      /\ kind'[r] = k /\ \A q \in Requests \ {r} : kind'[q] = kind[q]
  BY <1>1 DEF NewRequest, RunInv, RunTypeOK, Requests
<1>4. /\ pc' \in [Requests -> Places] /\ pc'[r] = to
      /\ \A q \in Requests \ {r} : pc'[q] = pc[q]
  BY <1>1, Moved DEF RunInv, Places
<1>5. asked \in Nat /\ r > asked /\ pc[r] = "none" /\ answer[r] = "none"
  BY <1>3 DEF RunInv, RunTypeOK, AskedInv, Requests
<1>6. (RunningRequested' <=> k = "start") /\ (StopAwaited' <=> k = "stop")
  BY <1>1, <1>3, <1>4 DEF RunningRequested, StopAwaited
<1>7. RunTypeOK'
  <2>1. asked' \in 0..MaxRequests /\ latest' \in Nat
    BY <1>3 DEF Requests
  <2>2. dropped' \in BOOLEAN
    BY <1>3
  <2>3. QED
    BY <1>2, <1>3, <1>4, <2>1, <2>2 DEF RunInv, RunTypeOK
<1>8. AskedInv'
  <2>1. ASSUME NEW q \in Requests, q # r
        PROVE  q > asked' <=> q > asked
    BY <1>3, <1>5, <2>1 DEF Requests
  <2>2. ~(r > asked')
    BY <1>3 DEF Requests
  <2>3. QED
    BY <1>1, <1>2, <1>3, <1>4, <1>5, <2>1, <2>2 DEF RunInv, AskedInv, Preparing
<1>9. LockInv' /\ LocksOfRequests'
  BY <1>2, <1>4, <1>5 DEF RunInv, LockInv, LocksOfRequests, Preparing, Coming, Going
<1>10. NoticeInv'
  BY <1>2, <1>4, <1>5 DEF RunInv, RunTypeOK, NoticeInv, Requests
<1>11. ServiceInv'
  BY <1>2, <1>4, <1>5 DEF RunInv, ServiceInv, Clearing
<1>12. IntentInv'
  BY <1>1, <1>3, <1>4, <1>6 DEF IntentInv
<1>13. PhaseInv'
  <2>1. \A q \in Requests : pc'[q] \in {"active", "started"} => pc[q] \in {"active", "started"}
    BY <1>4, <1>5
  <2>2. QED
    BY <1>2, <1>3, <1>4, <2>1 DEF RunInv, PhaseInv, Lost, Settling
<1>14. HoldInv'
  BY <1>2, <1>3, <1>5 DEF HoldInv
<1>15. QED
  BY <1>7, <1>8, <1>9, <1>10, <1>11, <1>12, <1>13, <1>14 DEF RunInv

\* Starts wait for the notification, are launched, or are denied: a denial resets the
\* intent of the start that is current, and is remembered.
LEMMA WaitsOn ==
  ASSUME RunInv, asked' = asked, kind' = kind,
         pc' \in [Requests -> Places], answer' \in [Requests -> {"none", "yes", "no"}],
         \A q \in Requests :
           \/ pc'[q] = pc[q] /\ answer'[q] = answer[q]
           \/ /\ pc[q] \in {"asking", "notice"} /\ pc'[q] \in {"notice", "launched"}
              /\ answer'[q] = answer[q]
           \/ pc[q] = "notice" /\ pc'[q] = "done" /\ answer'[q] = "no" /\ latest' # q,
         \/ latest' = latest /\ dropped' = dropped
         \/ latest' \in Nat \ Requests /\ dropped' = TRUE,
         notices' \in 0..MaxRequests, notices' # 0 => pc'[notices'] = "notice",
         UNCHANGED <<enable, lockVars, controlVars, lossVars>>
  PROVE  RunInv'
<1>1. /\ UNCHANGED <<enable, phase, transition, preparation>>
      /\ UNCHANGED <<control, binding, runTime, service, losses, raced>>
  BY DEF lockVars, controlVars, lossVars
<1>2. \A q \in Requests :
        \/ pc'[q] = pc[q]
        \/ pc[q] \in {"asking", "notice"} /\ pc'[q] \in {"notice", "launched", "done"}
  OBVIOUS
<1>3. RunTypeOK'
  <2>1. latest' \in Nat /\ dropped' \in BOOLEAN
    BY DEF RunInv, RunTypeOK
  <2>2. QED
    BY <1>1, <2>1 DEF RunInv, RunTypeOK
<1>4. AskedInv'
  <2>1. latest' \in Requests => latest' = latest
    OBVIOUS
  <2>2. ASSUME NEW q \in Requests
        PROVE  /\ pc'[q] = "none" <=> q > asked
               /\ answer'[q] # "none" => pc'[q] = "done"
               /\ pc'[q] \in {"stop", "stopService"} => kind[q] = "stop"
               /\ pc'[q] \in Preparing \cup {"asking", "notice", "launched"} => kind[q] = "start"
               /\ pc'[q] \in {"reconcile", "reconcileStop"} => latest' # q
               /\ pc'[q] \in Preparing \ {"reconcile", "reconcileStop"} => enable[q] # "none"
    BY <1>2, <2>1 DEF RunInv, AskedInv, Preparing
  <2>3. QED
    BY <1>1, <2>1, <2>2 DEF RunInv, AskedInv
<1>5. LockInv' /\ LocksOfRequests'
  BY <1>1, <1>2 DEF RunInv, LockInv, LocksOfRequests, Preparing, Coming, Going
<1>6. NoticeInv'
  BY DEF NoticeInv
<1>7. ServiceInv'
  BY <1>1, <1>2 DEF RunInv, ServiceInv, Clearing
<1>8. HoldInv'
  BY <1>1 DEF RunInv, HoldInv
<1>9. \A q \in Requests : /\ pc'[q] \in Coming <=> pc[q] \in Coming
                          /\ pc'[q] \in Going <=> pc[q] \in Going
                          /\ pc'[q] = "reconcile" <=> pc[q] = "reconcile"
                          /\ pc'[q] = "stop" <=> pc[q] = "stop"
                          /\ pc'[q] \in {"active", "started"} <=> pc[q] \in {"active", "started"}
                          /\ latest' = q => (pc'[q] = "done" <=> pc[q] = "done")
  BY <1>2 DEF Coming, Going
<1>10. (Reconciling' <=> Reconciling) /\ (Lost' <=> Lost)
  BY <1>1, <1>9 DEF Reconciling, Lost, Settling
<1>11. CASE latest' = latest /\ dropped' = dropped
  <2>1. (RunningRequested' <=> RunningRequested) /\ (StopAwaited' <=> StopAwaited)
    BY <1>9, <1>11 DEF RunningRequested, StopAwaited
  <2>2. latest \in Requests => (pc'[latest] = "done" <=> pc[latest] = "done")
    BY <1>9, <1>11
  <2>3. IntentInv' /\ PhaseInv'
    BY <1>1, <1>9, <1>10, <1>11, <2>1, <2>2 DEF RunInv, IntentInv, PhaseInv, RunningRequested
  <2>4. QED
    BY <1>3, <1>4, <1>5, <1>6, <1>7, <1>8, <2>3 DEF RunInv
<1>12. CASE latest' \in Nat \ Requests /\ dropped' = TRUE
  <2>1. ~RunningRequested'
    BY <1>12 DEF RunningRequested
  <2>2. IntentInv'
    BY <1>12, <2>1 DEF IntentInv
  <2>3. PhaseInv'
    BY <1>1, <1>9, <1>10, <1>12 DEF RunInv, PhaseInv
  <2>4. QED
    BY <1>3, <1>4, <1>5, <1>6, <1>7, <1>8, <2>2, <2>3 DEF RunInv
<1>13. QED
  BY <1>11, <1>12

LEMMA AskStep ==
  ASSUME RunInv, NEW r \in Requests, AskNotification(r)
  PROVE  RunInv'
<1>1. pc[r] = "asking" /\ UNCHANGED <<enable, lockVars, controlVars, lossVars>>
  BY DEF AskNotification
<1>2. /\ pc \in [Requests -> Places] /\ answer \in [Requests -> {"none", "yes", "no"}]
      /\ notices \in 0..MaxRequests /\ r \in 0..MaxRequests /\ 0 \notin Requests
      /\ {"notice", "launched", "done"} \subseteq Places
  BY DEF RunInv, RunTypeOK, Requests, Places
<1>3. CASE /\ pc' = [pc EXCEPT ![r] = "launched"] /\ notices' \in {0, notices}
           /\ UNCHANGED <<arbiterVars, answer>>
  <2>1. pc' \in [Requests -> Places] /\ pc'[r] = "launched" /\ \A q \in Requests \ {r} : pc'[q] = pc[q]
    BY <1>2, <1>3
  <2>2. notices' # 0 => pc'[notices'] = "notice"
    BY <1>1, <1>2, <1>3, <2>1 DEF RunInv, NoticeInv, Requests
  <2>3. asked' = asked /\ kind' = kind /\ latest' = latest /\ dropped' = dropped
    BY <1>3 DEF arbiterVars
  <2>4. notices' \in 0..MaxRequests /\ answer' \in [Requests -> {"none", "yes", "no"}]
    BY <1>2, <1>3
  <2>5. QED
    BY <1>1, <1>3, <2>1, <2>2, <2>3, <2>4, WaitsOn
<1>4. CASE pc' = [pc EXCEPT ![r] = "notice"] /\ notices' = r /\ UNCHANGED <<arbiterVars, answer>>
  <2>1. pc' \in [Requests -> Places] /\ pc'[r] = "notice" /\ \A q \in Requests \ {r} : pc'[q] = pc[q]
    BY <1>2, <1>4
  <2>2. asked' = asked /\ kind' = kind /\ latest' = latest /\ dropped' = dropped
    BY <1>4 DEF arbiterVars
  <2>3. /\ notices' \in 0..MaxRequests /\ pc'[notices'] = "notice"
        /\ answer' \in [Requests -> {"none", "yes", "no"}]
    BY <1>2, <1>4, <2>1
  <2>4. QED
    BY <1>1, <1>4, <2>1, <2>2, <2>3, WaitsOn
<1>5. CASE /\ notices # 0 /\ notices' = r /\ Deny(notices)
           /\ pc' = [pc EXCEPT ![r] = "notice", ![notices] = "done"]
           /\ answer' = [answer EXCEPT ![notices] = "no"]
  <2>1. PICK old \in Requests : old = notices /\ pc[old] = "notice" /\ old # r
    BY <1>1, <1>2, <1>5 DEF RunInv, NoticeInv, Requests
  <2>2. /\ pc' \in [Requests -> Places] /\ pc'[r] = "notice" /\ pc'[old] = "done"
        /\ \A q \in Requests \ {r, old} : pc'[q] = pc[q]
    BY <1>2, <1>5, <2>1
  <2>3. /\ answer' \in [Requests -> {"none", "yes", "no"}] /\ answer'[old] = "no"
        /\ \A q \in Requests \ {old} : answer'[q] = answer[q]
    BY <1>2, <1>5, <2>1
  <2>4. /\ asked' = asked /\ kind' = kind /\ latest' # old
        /\ \/ latest' = latest /\ dropped' = dropped
           \/ latest' \in Nat \ Requests /\ dropped' = TRUE
    BY <1>5, <2>1, DenyFacts DEF RunInv
  <2>5. notices' \in 0..MaxRequests /\ pc'[notices'] = "notice"
    BY <1>2, <1>5, <2>2
  <2>6. QED
    BY <1>1, <2>1, <2>2, <2>3, <2>4, <2>5, WaitsOn
<1>6. QED
  BY <1>3, <1>4, <1>5 DEF AskNotification, Replace

LEMMA NoticeStep ==
  ASSUME RunInv, NoticeAnswered
  PROVE  RunInv'
<1>1. /\ notices # 0 /\ pc' = [pc EXCEPT ![notices] = "launched"] /\ notices' = 0
      /\ asked' = asked /\ kind' = kind /\ latest' = latest /\ dropped' = dropped
      /\ UNCHANGED <<answer, enable, lockVars, controlVars, lossVars>>
  BY DEF NoticeAnswered, Goto, arbiterVars
<1>2. PICK r \in Requests : r = notices /\ pc[r] = "notice"
  BY <1>1 DEF RunInv, RunTypeOK, NoticeInv, Requests
<1>3. /\ pc' \in [Requests -> Places] /\ pc'[r] = "launched"
      /\ \A q \in Requests \ {r} : pc'[q] = pc[q]
  BY <1>1, <1>2, Moved DEF RunInv, Places
<1>4. answer' \in [Requests -> {"none", "yes", "no"}] /\ notices' \in 0..MaxRequests
  BY <1>1 DEF RunInv, RunTypeOK
<1>5. QED
  BY <1>1, <1>2, <1>3, <1>4, WaitsOn

\* The activity denies the start that waits for the notification.
LEMMA ActivityStep ==
  ASSUME RunInv, ActivityGone
  PROVE  RunInv'
<1>1. notices' = 0 /\ UNCHANGED <<enable, lockVars, controlVars, lossVars>>
  BY DEF ActivityGone
<1>2. CASE notices = 0
  <2>1. UNCHANGED runVars
    BY <1>1, <1>2 DEF ActivityGone, runVars, arbiterVars
  <2>2. QED
    BY <2>1, Unseen
<1>3. CASE notices # 0
  <2>1. PICK r \in Requests : r = notices /\ pc[r] = "notice"
    BY <1>3 DEF RunInv, RunTypeOK, NoticeInv, Requests
  <2>2. Deny(r) /\ pc' = [pc EXCEPT ![r] = "done"] /\ answer' = [answer EXCEPT ![r] = "no"]
    BY <1>3, <2>1 DEF ActivityGone
  <2>3. /\ pc' \in [Requests -> Places] /\ pc'[r] = "done"
        /\ \A q \in Requests \ {r} : pc'[q] = pc[q]
    BY <2>2, Moved DEF RunInv, Places
  <2>4. /\ answer' \in [Requests -> {"none", "yes", "no"}]
        /\ answer'[r] = "no" /\ \A q \in Requests \ {r} : answer'[q] = answer[q]
    BY <2>2 DEF RunInv, RunTypeOK
  <2>5. /\ asked' = asked /\ kind' = kind /\ latest' # r
        /\ \/ latest' = latest /\ dropped' = dropped
           \/ latest' \in Nat \ Requests /\ dropped' = TRUE
    BY <2>2, DenyFacts DEF RunInv
  <2>6. notices' \in 0..MaxRequests
    BY <1>1
  <2>7. QED
    BY <1>1, <2>1, <2>3, <2>4, <2>5, <2>6, WaitsOn
<1>4. QED
  BY <1>2, <1>3

\* A start looks at its request before it takes the lock of transitions: it goes on, or
\* it gives up and has what runs reconciled.
LEMMA GivesUp ==
  ASSUME RunInv, NEW r \in Requests, pc[r] \in {"launched", "consent", "lock"},
         pc' = [pc EXCEPT ![r] = "reconcile"],
         \/ ~IsCurrent(r) /\ UNCHANGED arbiterVars
         \/ ResetToStopped(r),
         preparation' = r, preparation \in {0, r},
         UNCHANGED <<enable, answer, phase, transition, notices, controlVars, lossVars>>
  PROVE  RunInv'
<1>1. /\ UNCHANGED <<enable, answer, phase, transition, notices>>
      /\ UNCHANGED <<control, binding, runTime, service, losses, raced>>
  BY DEF controlVars, lossVars
<1>2. /\ pc' \in [Requests -> Places] /\ pc'[r] = "reconcile"
      /\ \A q \in Requests \ {r} : pc'[q] = pc[q]
  BY Moved DEF RunInv, Places, Preparing
<1>3. /\ asked' = asked /\ kind' = kind /\ dropped' = dropped /\ latest' \in Nat /\ latest' # r
      /\ latest' = latest \/ latest' \notin Requests
      /\ latest # r => latest' = latest
  <2>1. CASE ~IsCurrent(r) /\ UNCHANGED arbiterVars
    BY <2>1 DEF IsCurrent, arbiterVars, RunInv, RunTypeOK
  <2>2. CASE ResetToStopped(r)
    BY <2>2, ResetFacts DEF RunInv, Requests
  <2>3. QED
    BY <2>1, <2>2
<1>4. /\ r # 0 /\ pc[r] \notin {"none", "done", "stop"} /\ kind[r] = "start"
     
  BY DEF RunInv, AskedInv, NoticeInv, Preparing, Requests
<1>5. \A q \in Requests \ {r} : pc[q] \notin Coming /\ pc[q] \notin Preparing
  BY DEF RunInv, LockInv, Requests, Coming, Preparing
<1>6. RunTypeOK'
  BY <1>1, <1>2, <1>3 DEF RunInv, RunTypeOK
<1>7. AskedInv'
  BY <1>1, <1>2, <1>3, <1>4 DEF RunInv, AskedInv, Preparing
<1>8. LockInv' /\ LocksOfRequests'
  BY <1>1, <1>2, <1>4, <1>5 DEF RunInv, LockInv, LocksOfRequests, Preparing, Coming, Going, Requests
<1>9. NoticeInv'
  <2>1. notices # r
    BY <1>4 DEF RunInv, NoticeInv
  <2>2. QED
    BY <1>1, <1>2, <1>4, <2>1 DEF RunInv, RunTypeOK, NoticeInv, Requests
<1>10. ServiceInv'
  BY <1>1, <1>2 DEF RunInv, ServiceInv, Clearing
<1>11. HoldInv'
  BY <1>1, <1>3 DEF RunInv, HoldInv
<1>12. Reconciling'
  BY <1>2 DEF Reconciling
<1>13. IntentInv'
  <2>1. \A q \in Requests : pc'[q] \notin Coming
    BY <1>2, <1>5 DEF Coming
  <2>2. RunningRequested' /\ pc'[latest'] = "done" => RunningRequested /\ pc[latest] = "done"
    BY <1>2, <1>3 DEF RunningRequested
  <2>3. QED
    BY <1>1, <1>12, <2>1, <2>2 DEF RunInv, IntentInv, Lost, Settling
<1>14. PhaseInv'
  <2>1. \A q \in Requests : pc'[q] \notin {"active", "started"}
    BY <1>2, <1>5 DEF Coming
  <2>2. QED
    BY <1>1, <1>12, <2>1 DEF RunInv, PhaseInv, Lost, Settling
<1>15. QED
  BY <1>6, <1>7, <1>8, <1>9, <1>10, <1>11, <1>13, <1>14 DEF RunInv

LEMMA PrepareStep ==
  ASSUME RunInv, NEW r \in Requests, Prepare(r)
  PROVE  RunInv'
<1>1. /\ pc[r] = "launched" /\ preparation = 0 /\ preparation' = r
      /\ UNCHANGED <<phase, transition, notices, controlVars, lossVars>>
  BY DEF Prepare, askVars
<1>2. CASE pc' = [pc EXCEPT ![r] = "reconcile"] /\ UNCHANGED <<enable, answer>>
           /\ ((~IsCurrent(r) /\ UNCHANGED arbiterVars) \/ ResetToStopped(r))
  BY <1>1, <1>2, GivesUp
<1>3. ASSUME NEW k \in {"vpn", "proxy"}, enable' = [enable EXCEPT ![r] = k],
             NEW to \in {"ask", "lock"}, pc' = [pc EXCEPT ![r] = to],
             UNCHANGED <<arbiterVars, answer>>
      PROVE  RunInv'
  <2>1. /\ UNCHANGED <<latest, asked, kind, dropped, answer, phase, transition, notices>>
        /\ UNCHANGED <<control, binding, runTime, service, losses, raced>>
    BY <1>1, <1>3 DEF arbiterVars, controlVars, lossVars
  <2>2. /\ pc' \in [Requests -> Places] /\ pc'[r] = to
        /\ \A q \in Requests \ {r} : pc'[q] = pc[q]
    BY <1>3, Moved DEF RunInv, Places, Preparing
  <2>3. /\ enable' \in [Requests -> {"none", "vpn", "proxy"}] /\ enable'[r] = k
        /\ \A q \in Requests \ {r} : enable'[q] = enable[q]
    BY <1>3 DEF RunInv, RunTypeOK
  <2>4. r # 0 /\ kind[r] = "start"
    BY <1>1 DEF RunInv, AskedInv, NoticeInv, Preparing, Requests
  <2>5. \A q \in Requests \ {r} : pc[q] \notin Preparing
    BY <1>1 DEF RunInv, LockInv, Requests
  <2>6. RunTypeOK'
    BY <2>1, <2>2, <2>3 DEF RunInv, RunTypeOK
  <2>7. AskedInv'
    BY <1>1, <2>1, <2>2, <2>3, <2>4 DEF RunInv, AskedInv, Preparing
  <2>8. LockInv' /\ LocksOfRequests'
    BY <1>1, <2>1, <2>2, <2>4, <2>5 DEF RunInv, LockInv, LocksOfRequests, Preparing, Coming, Going, Requests
  <2>9. NoticeInv'
    <3>1. notices # r
      BY <1>1, <2>4 DEF RunInv, NoticeInv
    <3>2. QED
      BY <2>1, <2>2, <2>4, <3>1 DEF RunInv, RunTypeOK, NoticeInv, Requests
  <2>10. ServiceInv' /\ HoldInv'
    BY <2>1, <2>2, <2>3 DEF RunInv, ServiceInv, Clearing, HoldInv
  <2>11. /\ Reconciling => Reconciling'
         /\ StopAwaited' <=> StopAwaited
         /\ RunningRequested' <=> RunningRequested
         /\ Lost' <=> Lost
         /\ latest \in Requests => (pc'[latest] = "done" <=> pc[latest] = "done")
    BY <1>1, <2>1, <2>2 DEF Reconciling, StopAwaited, RunningRequested, Lost, Settling
  <2>12. \A q \in Requests : /\ pc'[q] \in Coming \cup Going <=> pc[q] \in Coming \cup Going
                             /\ pc'[q] \in Coming <=> pc[q] \in Coming
                             /\ pc'[q] \in Going <=> pc[q] \in Going
                             /\ pc'[q] \in {"active", "started"} <=> pc[q] \in {"active", "started"}
    BY <1>1, <2>2 DEF Coming, Going
  <2>13. IntentInv' /\ PhaseInv'
    BY <2>1, <2>11, <2>12 DEF RunInv, IntentInv, PhaseInv, RunningRequested
  <2>14. QED
    BY <2>6, <2>7, <2>8, <2>9, <2>10, <2>13 DEF RunInv
<1>4. QED
  BY <1>2, <1>3 DEF Prepare, Goto

\* The answer to the question for the consent, whoever gives it.
ConsentTypeOK == consent \in [Requests -> {"none", "granted", "denied"}]

LEMMA ConsentTyped ==
  ASSUME ConsentTypeOK, [Next]_vars
  PROVE  ConsentTypeOK'
<1>1. ASSUME NEW r, NEW value \in {"granted", "denied"}, Callback(r, value)
      PROVE  ConsentTypeOK'
  BY <1>1 DEF Callback, ConsentTypeOK
<1>2. CASE UNCHANGED consent
  BY <1>2 DEF ConsentTypeOK
<1>3. CASE ConsentAnswered \/ ActivityGone
  BY <1>1, <1>2, <1>3 DEF ConsentAnswered, ActivityGone
<1>4. CASE MainTask
  <2>1. ASSUME NEW r, NEW vpn, AnswerAtOnce(r, vpn)
        PROVE  ConsentTypeOK'
    BY <2>1 DEF AnswerAtOnce, ConsentTypeOK
  <2>2. ASSUME NEW r, ShowDialog(r)
        PROVE  ConsentTypeOK'
    BY <1>1, <1>2, <2>2 DEF ShowDialog
  <2>3. QED
    BY <1>2, <1>4, <2>1, <2>2 DEF MainTask
<1>5. CASE UserAnswers
  BY <1>2, <1>3, <1>5 DEF UserAnswers, NoticeAnswered, Goto
<1>6. ASSUME NEW r \in Requests, StartStep(r)
      PROVE  ConsentTypeOK'
  <2>1. CASE Consented(r)
    BY <2>1 DEF Consented, ConsentTypeOK
  <2>2. CASE ~Consented(r)
    BY <1>2, <1>6, <2>2 DEF StartStep, Prepare, Ask, Post, Transition, IsActive, Bind, UseService,
              StartFails, StartFailed, Started, Reconcile, Goto, Done
  <2>3. QED
    BY <2>1, <2>2
<1>7. ASSUME NEW r \in Requests, StopStep(r)
      PROVE  ConsentTypeOK'
  BY <1>1, <1>2, <1>7 DEF StopStep, Stop, StopService, Abandon, Done
<1>8. CASE RequestStop \/ RequestStart \/ ActivityComes \/ Refresh \/ Connect \/ Disconnect
  BY <1>2, <1>8 DEF RequestStop, RequestStart, ActivityComes, Refresh, Connect, Disconnect, Goto, jobVars
<1>9. ASSUME NEW l \in Losses, LossStep(l)
      PROVE  UNCHANGED consent
  BY <1>9 DEF LossStep, ClearBinding, HandleServiceLost, jobVars
<1>10. CASE UNCHANGED vars
  BY <1>2, <1>10 DEF vars, jobVars
<1>11. CASE MainThread
  BY <1>2, <1>4, <1>11 DEF MainThread, AskNotification
<1>12. QED
  BY <1>2, <1>3, <1>5, <1>6, <1>7, <1>8, <1>9, <1>10, <1>11 DEF Next

LEMMA ConsentedStep ==
  ASSUME RunInv, ConsentTypeOK, NEW r \in Requests, Consented(r)
  PROVE  RunInv'
<1>1. /\ pc[r] = "consent" /\ preparation = r /\ consent[r] \in {"granted", "denied"}
      /\ UNCHANGED <<enable, answer, lockVars, notices, controlVars, lossVars>>
  BY DEF Consented, Goto, askVars, RunInv, LockInv, Preparing, ConsentTypeOK
<1>2. CASE consent[r] = "granted" /\ IsCurrent(r)
  <2>1. pc' = [pc EXCEPT ![r] = "lock"] /\ UNCHANGED arbiterVars
    BY <1>2 DEF Consented, Goto
  <2>2. QED
    BY <1>1, <2>1, PreparesOn
<1>3. CASE ~(consent[r] = "granted" /\ IsCurrent(r))
  <2>1. pc' = [pc EXCEPT ![r] = "reconcile"]
    BY <1>3 DEF Consented, Goto
  <2>2. (~IsCurrent(r) /\ UNCHANGED arbiterVars) \/ ResetToStopped(r)
    BY <1>1, <1>3 DEF Consented
  <2>3. UNCHANGED <<enable, answer, phase, transition, notices, controlVars, lossVars>>
        /\ preparation' = r
    BY <1>1 DEF lockVars
  <2>4. QED
    BY <1>1, <2>1, <2>2, <2>3, GivesUp
<1>4. QED
  BY <1>2, <1>3

LEMMA AskingSteps ==
  ASSUME RunInv, NEW r \in Requests, Ask(r) \/ Post(r)
  PROVE  RunInv'
<1>1. PICK from \in {"ask", "post", "consent"}, to \in {"post", "consent", "lock"} :
        /\ pc[r] = from /\ pc' = [pc EXCEPT ![r] = to]
        /\ UNCHANGED <<arbiterVars, enable, answer, lockVars, notices>>
        /\ UNCHANGED <<controlVars, lossVars>>
  BY DEF Ask, Post, Goto
<1>2. QED
  BY <1>1, PreparesOn

-----------------------------------------------------------------------------
(* Under the lock of transitions                                            *)

\* What the lock excludes, and what its holder knows.
LEMMA Locked ==
  ASSUME RunInv
  PROVE  /\ transition = 0 =>
              control = 0 /\ \A q \in Requests : pc[q] \notin Coming \cup Going
         /\ \A r \in Requests : pc[r] \in Coming \cup Going =>
              /\ transition = r /\ r # 0
              /\ \A q \in Requests \ {r} : pc[q] \notin Coming \cup Going
              /\ ~(RunningRequested /\ pc[latest] = "done")
              /\ \A q \in Requests : ~(kind[q] = "stop" /\ answer[q] = "yes" /\ asked = q)
         /\ \A r \in Requests : pc[r] \in Preparing =>
              /\ preparation = r /\ r # 0 /\ kind[r] = "start"
              /\ \A q \in Requests \ {r} : pc[q] \notin Preparing
         /\ latest \in Requests => pc[latest] # "none"
<1>1. 0 \notin Requests
  BY DEF Requests
<1>2. ASSUME transition = 0
      PROVE  control = 0 /\ \A q \in Requests : pc[q] \notin Coming \cup Going
  <2>1. \A q \in Requests : pc[q] \notin Coming \cup Going
    BY <1>1, <1>2 DEF RunInv, LockInv
  <2>2. control \in Requests => pc[control] = "use"
    BY DEF RunInv, LockInv
  <2>3. control \in Requests \/ control = 0
    BY DEF RunInv, LocksOfRequests, Requests
  <2>4. QED
    BY <2>1, <2>2, <2>3 DEF Coming
<1>3. ASSUME NEW r \in Requests, pc[r] \in Coming \cup Going
      PROVE  /\ transition = r /\ r # 0
             /\ \A q \in Requests \ {r} : pc[q] \notin Coming \cup Going
             /\ ~(RunningRequested /\ pc[latest] = "done")
             /\ \A q \in Requests : ~(kind[q] = "stop" /\ answer[q] = "yes" /\ asked = q)
  <2>1. transition = r /\ r # 0
    BY <1>1, <1>3 DEF RunInv, LockInv
  <2>2. \A q \in Requests \ {r} : pc[q] \notin Coming \cup Going
    BY <2>1 DEF RunInv, LockInv
  <2>3. ~(RunningRequested /\ pc[latest] = "done")
    BY <2>1 DEF RunInv, IntentInv
  <2>4. \A q \in Requests : ~(kind[q] = "stop" /\ answer[q] = "yes" /\ asked = q)
    BY <2>1 DEF RunInv, HoldInv
  <2>5. QED
    BY <2>1, <2>2, <2>3, <2>4
<1>4. ASSUME NEW r \in Requests, pc[r] \in Preparing
      PROVE  /\ preparation = r /\ r # 0 /\ kind[r] = "start"
             /\ \A q \in Requests \ {r} : pc[q] \notin Preparing
  <2>1. preparation = r /\ r # 0 /\ \A q \in Requests \ {r} : pc[q] \notin Preparing
    BY <1>1, <1>4 DEF RunInv, LockInv
  <2>2. kind[r] = "start"
    BY <1>4 DEF RunInv, AskedInv
  <2>3. QED
    BY <2>1, <2>2
<1>5. latest \in Requests => pc[latest] # "none"
  BY DEF RunInv, RunTypeOK, AskedInv, Requests
<1>6. QED
  BY <1>2, <1>3, <1>4, <1>5

LEMMA TransitionStep ==
  ASSUME RunInv, NEW r \in Requests, Transition(r)
  PROVE  RunInv'
<1>1. /\ pc[r] = "lock" /\ transition = 0
      /\ UNCHANGED <<arbiterVars, enable, answer, preparation, notices>>
      /\ UNCHANGED <<controlVars, lossVars>>
  BY DEF Transition, Goto, askVars
<1>2. /\ preparation = r /\ r # 0 /\ kind[r] = "start"
      /\ \A q \in Requests : pc[q] \notin Coming \cup Going
  BY <1>1, Locked DEF Preparing
<1>3. CASE ~IsCurrent(r)
  <2>1. pc' = [pc EXCEPT ![r] = "reconcile"] /\ UNCHANGED <<phase, transition>>
    BY <1>3 DEF Transition, Goto
  <2>2. QED
    BY <1>1, <1>2, <1>3, <2>1, GivesUp
<1>4. CASE IsCurrent(r)
  <2>1. PICK to \in {"active", "call"} :
          /\ pc' = [pc EXCEPT ![r] = to] /\ transition' = r
          /\ to = "active" => runTime
    BY <1>4 DEF Transition, Goto
  <2>2. /\ UNCHANGED <<latest, asked, kind, dropped, enable, answer, preparation, notices>>
        /\ UNCHANGED <<control, binding, runTime, service, losses, raced>>
    BY <1>1 DEF arbiterVars, controlVars, lossVars
  <2>3. /\ pc' \in [Requests -> Places] /\ pc'[r] = to
        /\ \A q \in Requests \ {r} : pc'[q] = pc[q]
    BY <2>1, Moved DEF RunInv, Places, Preparing
  <2>4. latest = r /\ asked = r /\ RunningRequested' /\ ~(\E q \in Requests : kind[q] = "stop" /\ asked = q)
    BY <1>2, <1>4, <2>2 DEF IsCurrent, RunInv, AskedInv, RunningRequested
  <2>5. RunTypeOK' /\ AskedInv'
    BY <1>1, <1>2, <2>2, <2>3 DEF RunInv, RunTypeOK, AskedInv, Preparing
  <2>6. LockInv' /\ LocksOfRequests'
    BY <1>1, <1>2, <2>1, <2>2, <2>3 DEF RunInv, LockInv, LocksOfRequests, Preparing, Coming, Going, Requests
  <2>7. NoticeInv'
    <3>1. notices # r
      BY <1>1, <1>2 DEF RunInv, NoticeInv
    <3>2. QED
      BY <1>2, <2>2, <2>3, <3>1 DEF RunInv, RunTypeOK, NoticeInv, Requests
  <2>8. ServiceInv'
    BY <1>1, <2>2, <2>3 DEF RunInv, ServiceInv, Clearing
  <2>9. IntentInv'
    BY <2>1, <2>2, <2>3, <2>4 DEF IntentInv
  <2>10. PhaseInv'
    BY <1>2, <2>1, <2>2, <2>3 DEF PhaseInv, Coming
  <2>11. HoldInv'
    BY <2>2, <2>4 DEF HoldInv
  <2>12. QED
    BY <2>5, <2>6, <2>7, <2>8, <2>9, <2>10, <2>11 DEF RunInv
<1>5. QED
  BY <1>3, <1>4

\* A start that runs, and is still wanted, is published: it was brought up, or the
\* loss of it is still to be settled.
LEMMA Publishes ==
  ASSUME RunInv, NEW r \in Requests, pc[r] \in {"active", "started"},
         phase' = "STARTED", Done(r, "yes"), transition' = 0, preparation' = 0,
         UNCHANGED <<arbiterVars, notices, controlVars, lossVars>>
  PROVE  RunInv'
<1>1. /\ UNCHANGED <<latest, asked, kind, dropped, notices>>
      /\ UNCHANGED <<control, binding, runTime, service, losses, raced>>
      /\ pc' = [pc EXCEPT ![r] = "done"] /\ answer' = [answer EXCEPT ![r] = "yes"]
      /\ enable' = [enable EXCEPT ![r] = "none"]
  BY DEF arbiterVars, controlVars, lossVars, Done
<1>2. /\ pc' \in [Requests -> Places] /\ pc'[r] = "done"
      /\ \A q \in Requests \ {r} : pc'[q] = pc[q]
  BY <1>1, Moved DEF RunInv, Places
<1>3. /\ answer' \in [Requests -> {"none", "yes", "no"}]
      /\ answer'[r] = "yes" /\ \A q \in Requests \ {r} : answer'[q] = answer[q]
      /\ enable' \in [Requests -> {"none", "vpn", "proxy"}]
      /\ \A q \in Requests \ {r} : enable'[q] = enable[q]
  BY <1>1 DEF RunInv, RunTypeOK
<1>4. /\ r # 0 /\ kind[r] = "start"
      /\ \A q \in Requests \ {r} : pc[q] \notin Coming \cup Going /\ pc[q] \notin Preparing
      /\ ~(RunningRequested /\ pc[latest] = "done")
      /\ \A q \in Requests : ~(kind[q] = "stop" /\ answer[q] = "yes" /\ asked = q)
  BY Locked DEF Preparing, Coming
<1>5. RunTypeOK'
  BY <1>1, <1>2, <1>3 DEF RunInv, RunTypeOK
<1>6. AskedInv'
  BY <1>1, <1>2, <1>3 DEF RunInv, AskedInv, Preparing
<1>7. LockInv' /\ LocksOfRequests'
  BY <1>1, <1>2, <1>4 DEF RunInv, LockInv, LocksOfRequests, Preparing, Coming, Going, Requests
<1>8. NoticeInv'
  <2>1. notices # r
    BY <1>4 DEF RunInv, NoticeInv
  <2>2. QED
    BY <1>1, <1>2, <1>4, <2>1 DEF RunInv, RunTypeOK, NoticeInv, Requests
<1>9. ServiceInv'
  BY <1>1, <1>2, <1>3 DEF RunInv, ServiceInv, Clearing
<1>10. runTime \/ Lost
  BY DEF RunInv, PhaseInv
<1>11. Lost' <=> Lost
  BY <1>1 DEF Lost, Settling
<1>12. IntentInv'
  <2>1. RunningRequested \/ StopAwaited \/ dropped
    BY DEF RunInv, IntentInv, Coming
  <2>2. (RunningRequested' <=> RunningRequested) /\ (StopAwaited => StopAwaited')
    BY <1>1, <1>2 DEF RunningRequested, StopAwaited
  <2>3. \A q \in Requests : pc'[q] \notin Coming
    BY <1>2, <1>4 DEF Coming
  <2>4. QED
    BY <1>1, <1>10, <1>11, <2>1, <2>2, <2>3 DEF IntentInv
<1>13. PhaseInv'
  BY <1>1, <1>2, <1>4, <1>10, <1>11 DEF PhaseInv, Coming
<1>14. HoldInv'
  BY <1>1, <1>3, <1>4 DEF HoldInv
<1>15. QED
  BY <1>5, <1>6, <1>7, <1>8, <1>9, <1>12, <1>13, <1>14 DEF RunInv

LEMMA ActiveStep ==
  ASSUME RunInv, NEW r \in Requests, IsActive(r)
  PROVE  RunInv'
<1>1. /\ pc[r] = "active"
      /\ UNCHANGED <<arbiterVars, notices, controlVars, lossVars>>
  BY DEF IsActive, askVars
<1>2. CASE phase' = "STARTED" /\ Done(r, "yes") /\ transition' = 0 /\ preparation' = 0
  BY <1>1, <1>2, Publishes
<1>3. CASE Goto(r, "call") /\ UNCHANGED <<transition, preparation>>
  <2>1. /\ UNCHANGED <<latest, asked, kind, dropped, enable, answer, transition, preparation>>
        /\ UNCHANGED <<notices, control, binding, runTime, service, losses, raced>>
        /\ pc' = [pc EXCEPT ![r] = "call"]
    BY <1>1, <1>3 DEF arbiterVars, controlVars, lossVars, Goto
  <2>2. /\ pc' \in [Requests -> Places] /\ pc'[r] = "call"
        /\ \A q \in Requests \ {r} : pc'[q] = pc[q]
    BY <2>1, Moved DEF RunInv, Places, Preparing
  <2>3. /\ transition = r /\ r # 0
        /\ ~(RunningRequested /\ pc[latest] = "done")
        /\ \A q \in Requests \ {r} : pc[q] \notin Coming \cup Going
    BY <1>1, Locked DEF Coming
  <2>4. RunTypeOK' /\ AskedInv'
    BY <1>1, <2>1, <2>2 DEF RunInv, RunTypeOK, AskedInv, Preparing
  <2>5. LockInv' /\ LocksOfRequests'
    BY <1>1, <2>1, <2>2 DEF RunInv, LockInv, LocksOfRequests, Preparing, Coming, Going
  <2>6. NoticeInv'
    <3>1. notices # r
      BY <1>1, <2>3 DEF RunInv, NoticeInv
    <3>2. QED
      BY <2>1, <2>2, <2>3, <3>1 DEF RunInv, RunTypeOK, NoticeInv, Requests
  <2>7. ServiceInv'
    BY <1>1, <2>1, <2>2 DEF RunInv, ServiceInv, Clearing
  <2>8. IntentInv'
    <3>1. RunningRequested \/ StopAwaited \/ dropped
      BY <1>1 DEF RunInv, IntentInv, Coming
    <3>2. (RunningRequested' <=> RunningRequested) /\ (StopAwaited => StopAwaited')
          /\ ~(RunningRequested' /\ pc'[latest'] = "done")
      BY <1>1, <2>1, <2>2, <2>3 DEF RunningRequested, StopAwaited
    <3>3. QED
      BY <2>1, <3>1, <3>2 DEF IntentInv
  <2>9. PhaseInv'
    BY <2>1, <2>2, <2>3 DEF PhaseInv, Coming
  <2>10. HoldInv'
    BY <2>1, <2>3 DEF RunInv, HoldInv
  <2>11. QED
    BY <2>4, <2>5, <2>6, <2>7, <2>8, <2>9, <2>10 DEF RunInv
<1>4. QED
  BY <1>2, <1>3 DEF IsActive

LEMMA UseStep ==
  ASSUME RunInv, NEW r \in Requests, UseService(r)
  PROVE  RunInv'
<1>1. /\ pc[r] = "use" /\ control' = 0
      /\ UNCHANGED <<latest, asked, kind, dropped, enable, answer, phase, transition, preparation>>
      /\ UNCHANGED <<notices, losses, raced>>
  BY DEF UseService, Goto, StartFails, arbiterVars, lockVars, askVars, lossVars
<1>2. PICK to \in {"started", "failed"} :
        /\ pc' = [pc EXCEPT ![r] = to]
        /\ \/ to = "started" /\ service' = enable[r] /\ runTime' = TRUE /\ UNCHANGED binding
           \/ /\ to = "failed" /\ runTime' = FALSE /\ service' = "none"
              /\ binding' = NoBinding(binding.number)
  BY DEF UseService, Goto, StartFails
<1>3. /\ pc' \in [Requests -> Places] /\ pc'[r] = to
      /\ \A q \in Requests \ {r} : pc'[q] = pc[q]
  BY <1>2, Moved DEF RunInv, Places, Preparing
<1>4. /\ transition = r /\ r # 0 /\ kind[r] = "start"
      /\ ~(RunningRequested /\ pc[latest] = "done")
      /\ \A q \in Requests \ {r} : pc[q] \notin Coming \cup Going
      /\ \A q \in Requests : ~(kind[q] = "stop" /\ answer[q] = "yes" /\ asked = q)
  BY <1>1, Locked DEF Coming, Preparing
<1>5. /\ binding' \in [number : Nat, kind : {"none", "vpn", "proxy"},
                        link : {"none", "waiting", "connected", "lost"}]
      /\ to = "started" => runTime' = TRUE /\ binding'.kind = service' /\ binding'.kind # "none"
      /\ to = "failed" => binding'.kind = "none" /\ runTime' = FALSE /\ service' = "none"
  BY <1>1, <1>2 DEF RunInv, RunTypeOK, NoBinding, ServiceInv, AskedInv, Preparing
<1>6. RunTypeOK'
  <2>1. runTime' \in BOOLEAN
    BY <1>2
  <2>2. QED
    BY <1>1, <1>3, <1>5, <2>1 DEF RunInv, RunTypeOK
<1>7. AskedInv'
  BY <1>1, <1>3 DEF RunInv, AskedInv, Preparing
<1>8. LockInv' /\ LocksOfRequests'
  BY <1>1, <1>3, <1>4 DEF RunInv, LockInv, LocksOfRequests, Preparing, Coming, Going, Requests
<1>9. NoticeInv'
  <2>1. notices # r
    BY <1>1, <1>4 DEF RunInv, NoticeInv
  <2>2. QED
    BY <1>1, <1>3, <1>4, <2>1 DEF RunInv, RunTypeOK, NoticeInv, Requests
<1>10. ServiceInv'
  <2>1. \A q \in Requests : pc'[q] # "use"
    BY <1>3, <1>4 DEF Coming
  <2>2. CASE to = "started"
    BY <1>5, <2>1, <2>2 DEF ServiceInv
  <2>3. CASE to = "failed"
    BY <1>5, <2>1, <2>3 DEF ServiceInv
  <2>4. QED
    BY <2>2, <2>3
<1>11. IntentInv'
  <2>1. RunningRequested \/ StopAwaited \/ dropped
    BY <1>1 DEF RunInv, IntentInv, Coming
  <2>2. (RunningRequested' <=> RunningRequested) /\ (StopAwaited => StopAwaited')
        /\ ~(RunningRequested' /\ pc'[latest'] = "done")
    BY <1>1, <1>3, <1>4 DEF RunningRequested, StopAwaited
  <2>3. QED
    BY <1>1, <2>1, <2>2 DEF IntentInv
<1>12. PhaseInv'
  BY <1>1, <1>3, <1>4, <1>5 DEF PhaseInv, Coming
<1>13. HoldInv'
  BY <1>1, <1>4 DEF HoldInv
<1>14. QED
  BY <1>6, <1>7, <1>8, <1>9, <1>10, <1>11, <1>12, <1>13 DEF RunInv

\* A start that failed or was overtaken gives the lock of transitions back, and has
\* what runs reconciled.
LEMMA GivesBack ==
  ASSUME RunInv, NEW r \in Requests, pc[r] \in {"failed", "started"},
         transition' = 0, pc' = [pc EXCEPT ![r] = "reconcile"],
         \/ ~IsCurrent(r) /\ UNCHANGED arbiterVars
         \/ ResetToStopped(r),
         \/ phase' = "STOPPED"
         \/ pc[r] = "started" /\ UNCHANGED phase,
         UNCHANGED <<enable, answer, preparation, notices, controlVars, lossVars>>
  PROVE  RunInv'
<1>1. /\ UNCHANGED <<enable, answer, preparation, notices>>
      /\ UNCHANGED <<control, binding, runTime, service, losses, raced>>
  BY DEF controlVars, lossVars
<1>2. /\ pc' \in [Requests -> Places] /\ pc'[r] = "reconcile"
      /\ \A q \in Requests \ {r} : pc'[q] = pc[q]
  BY Moved DEF RunInv, Places, Preparing
<1>3. /\ asked' = asked /\ kind' = kind /\ dropped' = dropped /\ latest' \in Nat /\ latest' # r
      /\ latest' = latest \/ latest' \notin Requests
  <2>1. CASE ~IsCurrent(r) /\ UNCHANGED arbiterVars
    BY <2>1 DEF IsCurrent, arbiterVars, RunInv, RunTypeOK
  <2>2. CASE ResetToStopped(r)
    BY <2>2, ResetFacts DEF RunInv, Requests
  <2>3. QED
    BY <2>1, <2>2
<1>4. /\ transition = r /\ r # 0 /\ kind[r] = "start"
      /\ ~(RunningRequested /\ pc[latest] = "done")
      /\ \A q \in Requests \ {r} : pc[q] \notin Coming \cup Going
      /\ \A q \in Requests : ~(kind[q] = "stop" /\ answer[q] = "yes" /\ asked = q)
  BY Locked DEF Coming, Preparing
<1>5. RunTypeOK'
  BY <1>1, <1>2, <1>3 DEF RunInv, RunTypeOK
<1>6. AskedInv'
  BY <1>1, <1>2, <1>3 DEF RunInv, AskedInv, Preparing
<1>7. LockInv' /\ LocksOfRequests'
  BY <1>1, <1>2, <1>4 DEF RunInv, LockInv, LocksOfRequests, Preparing, Coming, Going, Requests
<1>8. NoticeInv'
  <2>1. notices # r
    BY <1>4 DEF RunInv, NoticeInv
  <2>2. QED
    BY <1>1, <1>2, <1>4, <2>1 DEF RunInv, RunTypeOK, NoticeInv, Requests
<1>9. ServiceInv'
  BY <1>1, <1>2 DEF RunInv, ServiceInv, Clearing
<1>10. Reconciling'
  BY <1>2 DEF Reconciling
<1>11. \A q \in Requests : pc'[q] \notin Coming
  BY <1>2, <1>4 DEF Coming
<1>12. IntentInv'
  <2>1. ~(RunningRequested' /\ pc'[latest'] = "done")
    BY <1>2, <1>3, <1>4 DEF RunningRequested
  <2>2. QED
    BY <1>10, <1>11, <2>1 DEF IntentInv
<1>13. PhaseInv'
  <2>1. pc[r] = "started" => runTime \/ Lost
    BY DEF RunInv, PhaseInv
  <2>2. Lost' <=> Lost
    BY <1>1 DEF Lost, Settling
  <2>3. QED
    BY <1>1, <1>10, <1>11, <2>1, <2>2 DEF PhaseInv, Coming
<1>14. HoldInv'
  BY <1>1, <1>3, <1>4 DEF HoldInv
<1>15. QED
  BY <1>5, <1>6, <1>7, <1>8, <1>9, <1>12, <1>13, <1>14 DEF RunInv

LEMMA EndSteps ==
  ASSUME RunInv, NEW r \in Requests, StartFailed(r) \/ Started(r)
  PROVE  RunInv'
<1>1. UNCHANGED <<notices, controlVars>> /\ transition' = 0
  BY DEF StartFailed, Started, askVars
<1>2. CASE StartFailed(r)
  BY <1>1, <1>2, GivesBack DEF StartFailed, Goto
<1>3. CASE Started(r)
  <2>1. pc[r] = "started" /\ UNCHANGED <<arbiterVars, lossVars>>
    BY <1>3 DEF Started
  <2>2. CASE IsCurrent(r)
    BY <1>1, <1>3, <2>1, <2>2, Publishes DEF Started
  <2>3. CASE ~IsCurrent(r)
    BY <1>1, <1>3, <2>1, <2>3, GivesBack DEF Started, Goto
  <2>4. QED
    BY <2>2, <2>3
<1>4. QED
  BY <1>2, <1>3

\* What runs although nobody wants it is stopped by the reconciler.
LEMMA ReconcileStep ==
  ASSUME RunInv, NEW r \in Requests, Reconcile(r)
  PROVE  RunInv'
<1>1. /\ pc[r] = "reconcile" /\ transition = 0
      /\ UNCHANGED <<latest, asked, kind, dropped, notices>>
      /\ UNCHANGED <<control, binding, runTime, service, losses, raced>>
  BY DEF Reconcile, Goto, Done, arbiterVars, askVars, controlVars, lossVars
<1>2. /\ preparation = r /\ r # 0 /\ kind[r] = "start"
      /\ \A q \in Requests \ {r} : pc[q] \notin Preparing
      /\ \A q \in Requests : pc[q] \notin Coming \cup Going
  BY <1>1, Locked DEF Preparing
<1>3. latest # r /\ notices # r
  BY <1>1, <1>2 DEF RunInv, AskedInv, NoticeInv
<1>4. CASE RunningRequested \/ ~runTime
  <2>1. /\ pc' = [pc EXCEPT ![r] = "done"] /\ answer' = [answer EXCEPT ![r] = "no"]
        /\ enable' = [enable EXCEPT ![r] = "none"]
        /\ preparation' = 0 /\ UNCHANGED <<phase, transition>>
    BY <1>4 DEF Reconcile, Done
  <2>2. /\ pc' \in [Requests -> Places] /\ pc'[r] = "done"
        /\ \A q \in Requests \ {r} : pc'[q] = pc[q]
    BY <2>1, Moved DEF RunInv, Places
  <2>3. /\ answer' \in [Requests -> {"none", "yes", "no"}]
        /\ answer'[r] = "no" /\ \A q \in Requests \ {r} : answer'[q] = answer[q]
        /\ enable' \in [Requests -> {"none", "vpn", "proxy"}]
        /\ \A q \in Requests \ {r} : enable'[q] = enable[q]
    BY <2>1 DEF RunInv, RunTypeOK
  <2>4. RunTypeOK' /\ AskedInv'
    BY <1>1, <2>2, <2>3 DEF RunInv, RunTypeOK, AskedInv, Preparing
  <2>5. LockInv' /\ LocksOfRequests'
    BY <1>1, <1>2, <2>1, <2>2 DEF RunInv, LockInv, LocksOfRequests, Preparing, Coming, Going, Requests
  <2>6. NoticeInv'
    BY <1>1, <1>2, <1>3, <2>2 DEF RunInv, RunTypeOK, NoticeInv, Requests
  <2>7. ServiceInv'
    BY <1>1, <2>2, <2>3 DEF RunInv, ServiceInv, Clearing
  <2>8. (RunningRequested' <=> RunningRequested) /\ (Lost' <=> Lost)
        /\ (latest \in Requests => pc'[latest] = pc[latest])
    BY <1>1, <1>3, <2>2 DEF RunningRequested, Lost, Settling
  <2>9. \A q \in Requests : pc'[q] \notin Coming
    BY <1>2, <2>2 DEF Coming
  <2>10. IntentInv'
    BY <1>1, <1>4, <2>1, <2>8, <2>9 DEF RunInv, IntentInv
  <2>11. PhaseInv'
    <3>1. runTime => RunningRequested /\ (phase = "STARTED" \/ pc[latest] # "done")
      BY <1>4 DEF RunInv, IntentInv
    <3>2. runTime => phase = "STARTED" \/ (latest \in Requests /\ pc'[latest] # "done")
      BY <3>1, <2>8 DEF RunningRequested
    <3>3. ~runTime => phase = "STOPPED" \/ Lost
      BY <1>1 DEF RunInv, PhaseInv
    <3>4. QED
      BY <1>1, <2>1, <2>8, <2>9, <3>2, <3>3 DEF PhaseInv, Coming
  <2>12. HoldInv'
    BY <1>1, <2>1, <2>3 DEF RunInv, HoldInv
  <2>13. QED
    BY <2>4, <2>5, <2>6, <2>7, <2>10, <2>11, <2>12 DEF RunInv
<1>5. CASE ~(RunningRequested \/ ~runTime)
  <2>1. /\ pc' = [pc EXCEPT ![r] = "reconcileStop"] /\ transition' = r
        /\ UNCHANGED <<preparation, answer, enable>>
    BY <1>5 DEF Reconcile, Goto
  <2>2. /\ pc' \in [Requests -> Places] /\ pc'[r] = "reconcileStop"
        /\ \A q \in Requests \ {r} : pc'[q] = pc[q]
    BY <2>1, Moved DEF RunInv, Places, Preparing
  <2>3. RunTypeOK' /\ AskedInv'
    BY <1>1, <1>2, <2>1, <2>2 DEF RunInv, RunTypeOK, AskedInv, Preparing
  <2>4. LockInv' /\ LocksOfRequests'
    BY <1>1, <1>2, <2>1, <2>2 DEF RunInv, LockInv, LocksOfRequests, Preparing, Coming, Going, Requests
  <2>5. NoticeInv'
    BY <1>1, <1>2, <1>3, <2>2 DEF RunInv, RunTypeOK, NoticeInv, Requests
  <2>6. ServiceInv'
    BY <1>1, <2>1, <2>2 DEF RunInv, ServiceInv, Clearing
  <2>7. \A q \in Requests : pc'[q] \notin Coming
    BY <1>2, <2>2 DEF Coming
  <2>8. IntentInv'
    <3>1. ~RunningRequested'
      BY <1>1, <1>5 DEF RunningRequested
    <3>2. pc'[r] \in Going
      BY <2>2 DEF Going
    <3>3. QED
      BY <2>7, <3>1, <3>2 DEF IntentInv
  <2>9. PhaseInv'
    BY <1>2, <2>1, <2>7 DEF PhaseInv, Coming
  <2>10. HoldInv'
    BY <1>1, <1>5, <2>1 DEF RunInv, HoldInv
  <2>11. QED
    BY <2>3, <2>4, <2>5, <2>6, <2>8, <2>9, <2>10 DEF RunInv
<1>6. QED
  BY <1>4, <1>5

-----------------------------------------------------------------------------
(* A stop                                                                   *)

\* A stop that was overtaken, one that finds nothing to stop, and one that stops.
LEMMA StopTaken ==
  ASSUME RunInv, NEW r \in Requests, Stop(r)
  PROVE  RunInv'
<1>1. /\ pc[r] = "stop" /\ transition = 0
      /\ UNCHANGED <<latest, asked, kind, dropped, preparation, notices>>
      /\ enable' \in {enable, [enable EXCEPT ![r] = "none"]}
      /\ UNCHANGED <<control, binding, runTime, service, losses, raced>>
  BY DEF Stop, Done, arbiterVars, controlVars, lossVars
<1>2. PICK to \in {"done", "stopService"}, value \in {"none", "yes", "no"} :
        /\ pc' = [pc EXCEPT ![r] = to] /\ answer' = [answer EXCEPT ![r] = value]
        /\ \/ /\ ~IsCurrent(r) /\ to = "done" /\ value = "no" /\ UNCHANGED <<phase, transition>>
           \/ /\ IsCurrent(r) /\ to = "done" /\ value = "yes" /\ UNCHANGED <<phase, transition>>
              /\ phase = "STOPPED" /\ ~runTime
           \/ /\ IsCurrent(r) /\ to = "stopService" /\ value = "none" /\ transition' = r
              /\ ~(phase = "STOPPED" /\ ~runTime)
  <2>1. answer[r] = "none" /\ answer = [answer EXCEPT ![r] = "none"]
    BY <1>1 DEF RunInv, RunTypeOK, AskedInv
  <2>2. QED
    BY <2>1 DEF Stop, Done
<1>3. /\ pc' \in [Requests -> Places] /\ pc'[r] = to
      /\ \A q \in Requests \ {r} : pc'[q] = pc[q]
  BY <1>2, Moved DEF RunInv, Places
<1>4. /\ answer' \in [Requests -> {"none", "yes", "no"}]
      /\ answer'[r] = value /\ \A q \in Requests \ {r} : answer'[q] = answer[q]
      /\ enable' \in [Requests -> {"none", "vpn", "proxy"}]
      /\ \A q \in Requests \ {r} : enable'[q] = enable[q]
  BY <1>1, <1>2 DEF RunInv, RunTypeOK
<1>5. /\ control = 0 /\ r # 0 /\ kind[r] = "stop" /\ notices # r
      /\ \A q \in Requests : pc[q] \notin Coming \cup Going
      /\ IsCurrent(r) => latest = r /\ asked = r /\ ~RunningRequested
  <2>1. control = 0 /\ \A q \in Requests : pc[q] \notin Coming \cup Going
    BY <1>1, Locked
  <2>2. r # 0
    BY DEF Requests
  <2>3. kind[r] = "stop" /\ notices # r
    BY <1>1, <2>2 DEF RunInv, AskedInv, NoticeInv
  <2>4. IsCurrent(r) => latest = r /\ asked = r /\ ~RunningRequested
    BY <2>3 DEF IsCurrent, RunInv, AskedInv, RunningRequested
  <2>5. QED
    BY <2>1, <2>2, <2>3, <2>4
<1>6. RunTypeOK' /\ AskedInv'
  BY <1>1, <1>2, <1>3, <1>4, <1>5 DEF RunInv, RunTypeOK, AskedInv, Preparing
<1>7. LockInv' /\ LocksOfRequests'
  BY <1>1, <1>2, <1>3, <1>5 DEF RunInv, LockInv, LocksOfRequests, Preparing, Coming, Going, Requests
<1>8. NoticeInv'
  BY <1>1, <1>3, <1>5 DEF RunInv, RunTypeOK, NoticeInv, Requests
<1>9. ServiceInv'
  BY <1>1, <1>2, <1>3, <1>4 DEF RunInv, ServiceInv, Clearing
<1>10. \A q \in Requests : pc'[q] \notin Coming
  BY <1>2, <1>3, <1>5 DEF Coming
<1>11. IntentInv'
  <2>1. CASE ~IsCurrent(r)
    <3>1. /\ latest # r /\ (RunningRequested' <=> RunningRequested)
          /\ (StopAwaited' <=> StopAwaited) /\ (Reconciling => Reconciling')
          /\ Lost' <=> Lost
      BY <1>1, <1>3, <2>1 DEF IsCurrent, RunningRequested, StopAwaited, Reconciling, Lost, Settling
    <3>2. latest \in Requests => pc'[latest] = pc[latest]
      BY <1>3, <3>1
    <3>3. UNCHANGED <<phase, transition>>
      BY <1>2, <2>1
    <3>4. RunningRequested => latest \in Requests
      BY DEF RunningRequested
    <3>5. QED
      BY <1>1, <1>5, <1>10, <3>1, <3>2, <3>3, <3>4 DEF RunInv, IntentInv
  <2>2. CASE IsCurrent(r)
    <3>1. ~RunningRequested'
      BY <1>1, <1>5, <2>2 DEF RunningRequested
    <3>2. ~runTime \/ pc'[r] \in Going
      BY <1>2, <1>3, <2>2 DEF Going
    <3>3. QED
      BY <1>1, <1>10, <3>1, <3>2 DEF IntentInv
  <2>3. QED
    BY <2>1, <2>2
<1>12. PhaseInv'
  <2>1. CASE transition' = r
    BY <1>5, <1>10, <2>1 DEF PhaseInv, Coming
  <2>2. CASE IsCurrent(r) /\ transition' # r
    BY <1>1, <1>2, <1>10, <2>2 DEF PhaseInv, Coming
  <2>3. CASE ~IsCurrent(r)
    <3>1. latest # r /\ UNCHANGED <<phase, transition>> /\ (Reconciling => Reconciling') /\ (Lost' <=> Lost)
          /\ (latest \in Requests => pc'[latest] = pc[latest])
      BY <1>1, <1>2, <1>3, <2>3 DEF IsCurrent, Reconciling, Lost, Settling
    <3>2. QED
      BY <1>1, <1>10, <3>1 DEF RunInv, PhaseInv, Coming
  <2>4. QED
    BY <2>1, <2>2, <2>3
<1>13. HoldInv'
  <2>1. ASSUME NEW q \in Requests, kind'[q] = "stop", answer'[q] = "yes", asked' = q
        PROVE  /\ transition' = 0 /\ phase' = "STOPPED"
               /\ ~runTime' /\ binding'.kind = "none" /\ service' = "none"
    <3>1. CASE q = r
      <4>1. transition' = 0 /\ phase' = "STOPPED" /\ ~runTime
        BY <1>1, <1>2, <1>4, <2>1, <3>1
      <4>2. binding.kind = "none" /\ service = "none"
        BY <1>5, <4>1 DEF RunInv, ServiceInv
      <4>3. QED
        BY <1>1, <4>1, <4>2
    <3>2. CASE q # r
      <4>1. answer[q] = "yes" /\ asked = q /\ kind[q] = "stop" /\ ~IsCurrent(r)
        BY <1>1, <1>4, <1>5, <2>1, <3>2
      <4>2. UNCHANGED <<phase, transition>>
        BY <1>2, <4>1
      <4>3. QED
        BY <1>1, <4>1, <4>2 DEF RunInv, HoldInv
    <3>3. QED
      BY <3>1, <3>2
  <2>2. QED
    BY <2>1 DEF HoldInv
<1>14. QED
  BY <1>6, <1>7, <1>8, <1>9, <1>11, <1>12, <1>13 DEF RunInv

LEMMA StopServiceStep ==
  ASSUME RunInv, NEW r \in Requests, StopService(r)
  PROVE  RunInv'
<1>1. /\ pc[r] \in Going /\ control = 0 /\ UNCHANGED control
      /\ UNCHANGED <<latest, asked, kind, dropped, notices, losses, raced>>
      /\ enable' = [enable EXCEPT ![r] = "none"]
      /\ binding' = NoBinding(binding.number) /\ runTime' = FALSE /\ service' = "none"
      /\ phase' = "STOPPED" /\ transition' = 0
      /\ preparation' = IF pc[r] = "reconcileStop" THEN 0 ELSE preparation
  BY DEF StopService, Done, arbiterVars, askVars, lossVars, Going
<1>2. PICK value \in {"yes", "no"} :
        /\ pc' = [pc EXCEPT ![r] = "done"] /\ answer' = [answer EXCEPT ![r] = value]
        /\ value = "yes" => kind[r] = "stop"
  BY DEF StopService, Done, RunInv, AskedInv
<1>3. /\ pc' \in [Requests -> Places] /\ pc'[r] = "done"
      /\ \A q \in Requests \ {r} : pc'[q] = pc[q]
  BY <1>2, Moved DEF RunInv, Places
<1>4. /\ answer' \in [Requests -> {"none", "yes", "no"}]
      /\ answer'[r] = value /\ \A q \in Requests \ {r} : answer'[q] = answer[q]
      /\ enable' \in [Requests -> {"none", "vpn", "proxy"}]
      /\ \A q \in Requests \ {r} : enable'[q] = enable[q]
  BY <1>1, <1>2 DEF RunInv, RunTypeOK
<1>5. /\ transition = r /\ r # 0
      /\ ~(RunningRequested /\ pc[latest] = "done")
      /\ \A q \in Requests \ {r} : pc[q] \notin Coming \cup Going
  BY <1>1, Locked
<1>6. binding' \in [number : Nat, kind : {"none", "vpn", "proxy"},
                    link : {"none", "waiting", "connected", "lost"}] /\ binding'.kind = "none"
  BY <1>1 DEF RunInv, RunTypeOK, NoBinding
<1>7. RunTypeOK'
  <2>1. runTime' \in BOOLEAN
    BY <1>1
  <2>2. QED
    BY <1>1, <1>3, <1>4, <1>6, <2>1 DEF RunInv, RunTypeOK
<1>8. AskedInv'
  BY <1>1, <1>3, <1>4 DEF RunInv, AskedInv, Preparing, Going
<1>9. LockInv' /\ LocksOfRequests'
  <2>1. pc[r] = "reconcileStop" => \A q \in Requests \ {r} : pc[q] \notin Preparing
    BY Locked DEF Preparing
  <2>2. pc[r] = "stopService" => preparation # r
    BY DEF RunInv, LockInv, Preparing
  <2>3. QED
    BY <1>1, <1>3, <1>5, <2>1, <2>2 DEF RunInv, LockInv, LocksOfRequests, Preparing, Coming, Going, Requests
<1>10. NoticeInv'
  <2>1. notices # r
    BY <1>1, <1>5 DEF RunInv, NoticeInv, Going
  <2>2. QED
    BY <1>1, <1>3, <1>5, <2>1 DEF RunInv, RunTypeOK, NoticeInv, Requests
<1>11. ServiceInv'
  <2>1. \A q \in Requests : pc'[q] # "use"
    BY <1>3, <1>5 DEF Coming
  <2>2. QED
    BY <1>1, <1>6, <2>1 DEF ServiceInv
<1>12. \A q \in Requests : pc'[q] \notin Coming
  BY <1>3, <1>5 DEF Coming
<1>13. IntentInv'
  <2>1. ~(RunningRequested /\ latest = r)
    BY <1>1 DEF RunInv, AskedInv, RunningRequested, Going
  <2>2. ~(RunningRequested' /\ pc'[latest'] = "done")
    BY <1>1, <1>3, <1>5, <2>1 DEF RunningRequested
  <2>3. QED
    BY <1>1, <1>12, <2>2 DEF IntentInv
<1>14. PhaseInv'
  BY <1>1, <1>12 DEF PhaseInv, Coming
<1>15. HoldInv'
  BY <1>1, <1>6 DEF HoldInv
<1>16. QED
  BY <1>7, <1>8, <1>9, <1>10, <1>11, <1>13, <1>14, <1>15 DEF RunInv

-----------------------------------------------------------------------------
(* Android and the loss of the service                                      *)

LEMMA RefreshStep ==
  ASSUME RunInv, Refresh
  PROVE  RunInv'
<1>1. /\ transition = 0 /\ phase' = IF runTime THEN "STARTED" ELSE "STOPPED"
      /\ UNCHANGED <<latest, asked, kind, dropped, pc, enable, answer, transition, preparation>>
      /\ UNCHANGED <<notices, control, binding, runTime, service, losses, raced>>
  BY DEF Refresh, arbiterVars, jobVars, askVars, controlVars, lossVars
<1>2. RunTypeOK' /\ AskedInv' /\ LockInv' /\ LocksOfRequests'
  BY <1>1 DEF RunInv, RunTypeOK, AskedInv, LockInv, LocksOfRequests
<1>3. ServiceInv' /\ HoldInv' /\ NoticeInv'
  BY <1>1 DEF RunInv, ServiceInv, Clearing, HoldInv, NoticeInv
<1>4. (RunningRequested' <=> RunningRequested) /\ (StopAwaited' <=> StopAwaited)
      /\ (Reconciling' <=> Reconciling) /\ (Lost' <=> Lost)
  BY <1>1 DEF RunningRequested, StopAwaited, Reconciling, Lost, Settling
<1>5. IntentInv' /\ PhaseInv'
  BY <1>1, <1>4 DEF RunInv, IntentInv, PhaseInv
<1>6. QED
  BY <1>2, <1>3, <1>5 DEF RunInv

\* A step of a binding or of a loss, which leaves the requests and the intent alone.
LEMMA LossSteps ==
  ASSUME RunInv,
         UNCHANGED <<arbiterVars, jobVars, lockVars, askVars, control, raced>>,
         binding' \in [number : Nat, kind : {"none", "vpn", "proxy"},
                       link : {"none", "waiting", "connected", "lost"}],
         losses' \in [Losses -> [pc : {"none", "clear", "settle", "done"}, token : Nat, number : Nat]],
         service' \in {service, "none"},
         \/ UNCHANGED runTime /\ binding'.kind = binding.kind
         \/ control = 0 /\ runTime' = FALSE /\ binding'.kind = "none" /\ service' = "none" /\ Settling',
         Settling => Settling',
         runTime' /\ (Clearing \/ service' # service) => Clearing'
  PROVE  RunInv'
<1>1. /\ UNCHANGED <<latest, asked, kind, dropped, pc, enable, answer, phase, transition, preparation>>
      /\ UNCHANGED <<notices, control, raced>>
      /\ runTime' => runTime
      /\ ~runTime' => ~runTime \/ Settling'
  BY DEF arbiterVars, jobVars, lockVars, askVars
<1>2. RunTypeOK'
  <2>1. runTime' \in BOOLEAN
    BY DEF RunInv, RunTypeOK
  <2>2. QED
    BY <1>1, <2>1 DEF RunInv, RunTypeOK
<1>3. AskedInv' /\ LockInv' /\ LocksOfRequests' /\ NoticeInv'
  BY <1>1 DEF RunInv, AskedInv, LockInv, LocksOfRequests, NoticeInv
<1>4. ServiceInv'
  <2>1. CASE UNCHANGED runTime /\ binding'.kind = binding.kind
    BY <1>1, <2>1 DEF RunInv, ServiceInv
  <2>2. CASE control = 0 /\ runTime' = FALSE /\ binding'.kind = "none" /\ service' = "none"
    <3>1. \A q \in Requests : pc[q] # "use"
      BY <2>2 DEF RunInv, LockInv, Requests
    <3>2. QED
      BY <1>1, <2>2, <3>1 DEF ServiceInv
  <2>3. QED
    BY <2>1, <2>2
<1>5. HoldInv'
  BY <1>1 DEF RunInv, HoldInv
<1>6. (RunningRequested' <=> RunningRequested) /\ (StopAwaited' <=> StopAwaited)
      /\ (Reconciling' <=> Reconciling) /\ (Lost => Lost') /\ (Settling' => Lost')
  BY <1>1 DEF RunningRequested, StopAwaited, Reconciling, Lost
<1>7. IntentInv'
  BY <1>1, <1>6 DEF RunInv, IntentInv
<1>8. PhaseInv'
  BY <1>1, <1>6 DEF RunInv, PhaseInv
<1>9. QED
  BY <1>2, <1>3, <1>4, <1>5, <1>7, <1>8 DEF RunInv

LEMMA ConnectStep ==
  ASSUME RunInv, Connect
  PROVE  RunInv'
<1>1. /\ binding' \in [number : Nat, kind : {"none", "vpn", "proxy"},
                       link : {"none", "waiting", "connected", "lost"}]
      /\ binding'.kind = binding.kind /\ binding'.number = binding.number
  BY DEF Connect, RunInv, RunTypeOK
<1>2. UNCHANGED <<runTime, service, losses, raced>>
      /\ UNCHANGED <<arbiterVars, jobVars, lockVars, askVars, control>>
  BY DEF Connect, lossVars
<1>3. (Settling => Settling') /\ (Clearing => Clearing')
  BY <1>1, <1>2 DEF Settling, Clearing
<1>4. losses' \in [Losses -> [pc : {"none", "clear", "settle", "done"}, token : Nat, number : Nat]]
  BY <1>2 DEF RunInv, RunTypeOK
<1>5. QED
  BY <1>1, <1>2, <1>3, <1>4, LossSteps

LEMMA DisconnectStep ==
  ASSUME RunInv, Disconnect
  PROVE  RunInv'
<1>1. PICK l \in Losses, n \in 1..binding.number :
        /\ losses[l].pc = "none"
        /\ losses' = [losses EXCEPT ![l] = [pc |-> "clear", token |-> latest, number |-> n]]
        /\ \/ /\ n = binding.number /\ service' = "none"
              /\ binding' = [binding EXCEPT !.link = "lost"]
           \/ UNCHANGED <<binding, service>>
        /\ UNCHANGED <<arbiterVars, jobVars, lockVars, askVars, control, runTime, raced>>
  BY DEF Disconnect
<1>2. binding.number \in Nat /\ n \in Nat /\ latest \in Nat
  BY DEF RunInv, RunTypeOK
<1>3. /\ binding' \in [number : Nat, kind : {"none", "vpn", "proxy"},
                       link : {"none", "waiting", "connected", "lost"}]
      /\ binding'.kind = binding.kind /\ binding'.number = binding.number
      /\ service' \in {service, "none"}
  BY <1>1 DEF RunInv, RunTypeOK
<1>4. /\ losses' \in [Losses -> [pc : {"none", "clear", "settle", "done"}, token : Nat, number : Nat]]
      /\ losses'[l].pc = "clear" /\ losses'[l].number = n
      /\ \A k \in Losses \ {l} : losses'[k] = losses[k]
  BY <1>1, <1>2 DEF RunInv, RunTypeOK
<1>5. Settling => Settling'
  BY <1>1, <1>4 DEF Settling
<1>6. Clearing => Clearing'
  <2>1. SUFFICES ASSUME NEW k \in Losses, losses[k].pc = "clear", losses[k].number = binding.number
                 PROVE  Clearing'
    BY DEF Clearing
  <2>2. k # l
    BY <1>1, <2>1
  <2>3. QED
    BY <1>3, <1>4, <2>1, <2>2 DEF Clearing
<1>7. service' # service => Clearing'
  <2>1. service' # service => n = binding.number
    BY <1>1
  <2>2. QED
    BY <1>3, <1>4, <2>1 DEF Clearing
<1>8. QED
  BY <1>1, <1>3, <1>4, <1>5, <1>6, <1>7, LossSteps

LEMMA ClearStep ==
  ASSUME RunInv, NEW l \in Losses, ClearBinding(l)
  PROVE  RunInv'
<1>1. /\ losses[l].pc = "clear" /\ control = 0
      /\ UNCHANGED <<arbiterVars, jobVars, lockVars, askVars, control, raced>>
  BY DEF ClearBinding
<1>2. PICK to \in {"settle", "done"} :
        /\ losses' = [losses EXCEPT ![l].pc = to]
        /\ \/ /\ to = "settle" /\ runTime' = FALSE /\ service' = "none"
              /\ binding' = NoBinding(binding.number)
           \/ /\ to = "done" /\ UNCHANGED <<binding, runTime, service>>
              /\ ~(losses[l].number = binding.number /\ binding.kind # "none")
  BY DEF ClearBinding
<1>3. /\ losses' \in [Losses -> [pc : {"none", "clear", "settle", "done"}, token : Nat, number : Nat]]
      /\ losses'[l].pc = to
      /\ \A k \in Losses \ {l} : losses'[k] = losses[k]
  BY <1>2 DEF RunInv, RunTypeOK
<1>4. /\ binding' \in [number : Nat, kind : {"none", "vpn", "proxy"},
                       link : {"none", "waiting", "connected", "lost"}]
      /\ to = "settle" => binding'.kind = "none"
  BY <1>2 DEF RunInv, RunTypeOK, NoBinding
<1>5. (Settling => Settling') /\ (to = "settle" => Settling')
  BY <1>1, <1>3 DEF Settling
<1>6. runTime' /\ Clearing => Clearing'
  <2>1. SUFFICES ASSUME runTime', NEW k \in Losses, losses[k].pc = "clear",
                        losses[k].number = binding.number
                 PROVE  Clearing'
    BY DEF Clearing
  <2>2. /\ runTime /\ UNCHANGED binding
        /\ ~(losses[l].number = binding.number /\ binding.kind # "none")
    BY <1>2, <2>1
  <2>3. binding.kind # "none"
    BY <2>2 DEF RunInv, ServiceInv
  <2>4. k # l
    BY <2>1, <2>2, <2>3
  <2>5. QED
    BY <1>3, <2>1, <2>2, <2>4 DEF Clearing
<1>7. /\ service' \in {service, "none"} /\ (runTime' => service' = service)
      /\ \/ UNCHANGED runTime /\ binding'.kind = binding.kind
         \/ control = 0 /\ runTime' = FALSE /\ binding'.kind = "none" /\ service' = "none" /\ Settling'
  BY <1>1, <1>2, <1>4, <1>5
<1>8. QED
  BY <1>1, <1>3, <1>4, <1>5, <1>6, <1>7, LossSteps

\* What the loss means is settled, unless another request has come: then the loss was
\* overtaken, and raced says so.
LEMMA SettleStep ==
  ASSUME RunInv, NEW l \in Losses, HandleServiceLost(l)
  PROVE  RunInv'
<1>1. /\ losses[l].pc = "settle" /\ transition = 0
      /\ losses' = [losses EXCEPT ![l].pc = "done"]
      /\ raced' = (raced \/ (~runTime /\ ~IsCurrent(losses[l].token)))
      /\ UNCHANGED <<pc, enable, answer, transition, preparation, notices>>
      /\ UNCHANGED <<control, binding, runTime, service>>
  BY DEF HandleServiceLost, jobVars, askVars, controlVars
<1>2. /\ losses' \in [Losses -> [pc : {"none", "clear", "settle", "done"}, token : Nat, number : Nat]]
      /\ losses'[l].pc = "done"
      /\ \A k \in Losses \ {l} : losses'[k] = losses[k]
  BY <1>1 DEF RunInv, RunTypeOK
<1>3. raced' \in BOOLEAN /\ (raced => raced')
  BY <1>1 DEF RunInv, RunTypeOK
<1>4. /\ asked' = asked /\ kind' = kind /\ dropped' = dropped /\ latest' \in Nat
      /\ latest' = latest \/ latest' \notin Requests
  <2>1. CASE UNCHANGED arbiterVars
    BY <2>1 DEF arbiterVars, RunInv, RunTypeOK
  <2>2. CASE ResetToStopped(latest)
    <3>1. latest \in Nat
      BY DEF RunInv, RunTypeOK
    <3>2. QED
      BY <2>2, <3>1, ResetFacts DEF RunInv
  <2>3. QED
    BY <2>1, <2>2 DEF HandleServiceLost
<1>5. /\ phase' = phase \/ phase' = "STOPPED"
      /\ runTime => latest' = latest /\ phase' = phase
      /\ ~runTime => (latest' \notin Requests /\ phase' = "STOPPED") \/ raced'
  <2>1. CASE ~runTime /\ IsCurrent(losses[l].token)
    <3>1. latest \in Nat /\ ResetToStopped(latest) /\ phase' = "STOPPED"
      BY <2>1 DEF HandleServiceLost, RunInv, RunTypeOK
    <3>2. latest' \notin Requests
      BY <3>1 DEF ResetToStopped, IsCurrent, Stopped, Requests
    <3>3. QED
      BY <2>1, <3>1, <3>2
  <2>2. CASE ~(~runTime /\ IsCurrent(losses[l].token))
    <3>1. UNCHANGED <<latest, phase>>
      BY <2>2 DEF HandleServiceLost, arbiterVars
    <3>2. ~runTime => raced'
      BY <1>1, <2>2
    <3>3. QED
      BY <3>1, <3>2
  <2>3. QED
    BY <2>1, <2>2
<1>6. \A q \in Requests : pc[q] \notin Coming \cup Going
  BY <1>1, Locked
<1>7. RunTypeOK'
  BY <1>1, <1>2, <1>3, <1>4 DEF RunInv, RunTypeOK
<1>8. AskedInv'
  BY <1>1, <1>4 DEF RunInv, AskedInv, Preparing
<1>9. LockInv' /\ LocksOfRequests'
  BY <1>1 DEF RunInv, LockInv, LocksOfRequests
<1>10. NoticeInv'
  BY <1>1, <1>5 DEF RunInv, NoticeInv
<1>11. ServiceInv'
  <2>1. Clearing => Clearing'
    BY <1>1, <1>2 DEF Clearing
  <2>2. QED
    BY <1>1, <2>1 DEF RunInv, ServiceInv
<1>12. IntentInv'
  <2>1. CASE runTime
    <3>1. (RunningRequested' <=> RunningRequested) /\ (StopAwaited' <=> StopAwaited)
          /\ (Reconciling' <=> Reconciling)
      BY <1>1, <1>4, <1>5, <2>1 DEF RunningRequested, StopAwaited, Reconciling
    <3>2. QED
      BY <1>1, <1>4, <1>5, <1>6, <2>1, <3>1 DEF RunInv, IntentInv
  <2>2. CASE ~runTime
    BY <1>1, <1>5, <1>6, <2>2 DEF IntentInv, RunningRequested, Lost
  <2>3. QED
    BY <2>1, <2>2
<1>13. PhaseInv'
  <2>1. CASE runTime
    BY <1>1, <1>4, <1>5, <1>6, <2>1 DEF RunInv, PhaseInv, Reconciling, Coming
  <2>2. CASE ~runTime
    BY <1>1, <1>5, <1>6, <2>2 DEF PhaseInv, Lost, Coming
  <2>3. QED
    BY <2>1, <2>2
<1>14. HoldInv'
  BY <1>1, <1>4, <1>5 DEF RunInv, HoldInv
<1>15. QED
  BY <1>7, <1>8, <1>9, <1>10, <1>11, <1>12, <1>13, <1>14 DEF RunInv

-----------------------------------------------------------------------------
(* The theorems                                                             *)

LEMMA NextRun ==
  ASSUME RunInv, ConsentTypeOK, [Next]_vars
  PROVE  RunInv'
<1>1. CASE RequestStop \/ RequestStart
  BY <1>1, RequestSteps
<1>2. ASSUME NEW r \in Requests, AskNotification(r)
      PROVE  RunInv'
  BY <1>2, AskStep
<1>3. CASE NoticeAnswered
  BY <1>3, NoticeStep
<1>4. CASE ConsentAnswered \/ MainTask \/ ActivityComes \/ UNCHANGED vars
  <2>1. UNCHANGED runVars
    BY <1>4 DEF ConsentAnswered, MainTask, ActivityComes, vars, runVars, arbiterVars, jobVars, lockVars,
                askVars, controlVars, lossVars
  <2>2. QED
    BY <2>1, Unseen
<1>5. CASE ActivityGone
  BY <1>5, ActivityStep
<1>6. ASSUME NEW r \in Requests, StartStep(r) \/ StopStep(r)
      PROVE  RunInv'
  <2>1. CASE Prepare(r) \/ Ask(r) \/ Post(r)
    BY <2>1, PrepareStep, AskingSteps
  <2>2. CASE Consented(r)
    BY <2>2, ConsentedStep
  <2>3. CASE Transition(r) \/ IsActive(r)
    BY <2>3, TransitionStep, ActiveStep
  <2>4. CASE Bind(r) \/ UseService(r)
    BY <2>4, BindStep, UseStep
  <2>5. CASE StartFailed(r) \/ Started(r) \/ Reconcile(r)
    BY <2>5, EndSteps, ReconcileStep
  <2>6. CASE StopStep(r)
    BY <2>6, StopTaken, StopServiceStep DEF StopStep
  <2>7. QED
    BY <1>6, <2>1, <2>2, <2>3, <2>4, <2>5, <2>6 DEF StartStep
<1>7. CASE Refresh \/ Connect \/ Disconnect
  BY <1>7, RefreshStep, ConnectStep, DisconnectStep
<1>8. ASSUME NEW l \in Losses, LossStep(l)
      PROVE  RunInv'
  BY <1>8, ClearStep, SettleStep DEF LossStep
<1>9. QED
  BY <1>1, <1>2, <1>3, <1>4, <1>5, <1>6, <1>7, <1>8 DEF Next, UserAnswers, MainThread

\* The locks have the holders that the coroutines say, the intent, the run time and the
\* published state lag behind each other only as far as a coroutine or the handling of a
\* loss is under way, and an answered stop leaves nothing behind (ServiceStateMachine.kt,
\* ServiceController.kt).
THEOREM RunInvariance == Spec => []RunInv
<1>1. Init => RunInv /\ ConsentTypeOK
  BY InitRun DEF Init, ConsentTypeOK
<1>2. RunInv /\ ConsentTypeOK /\ [Next]_vars => (RunInv /\ ConsentTypeOK)'
  BY NextRun, ConsentTyped
<1>3. QED
  BY <1>1, <1>2, PTL DEF Spec

\* When nothing is under way, the run time, the binding and the service agree, and the
\* intent and the published state with them, but for a start that raced ahead of the
\* handling of a loss, and for one that was denied while a service ran
\* (ServiceStateMachine.kt, reconcileStopped, handleServiceLost and requestStart).
THEOREM QuietAgrees == Spec => []QuietIsConsistent
<1>1. RunInv => QuietIsConsistent
  <2> SUFFICES ASSUME RunInv, Quiet
               PROVE  /\ runTime => binding.kind # "none" /\ binding.kind = service
                      /\ ~runTime => binding.kind = "none" /\ service = "none"
                      /\ \/ /\ phase = (IF runTime THEN "STARTED" ELSE "STOPPED")
                            /\ RunningRequested <=> runTime
                         \/ raced /\ ~runTime
                         \/ dropped /\ runTime
    BY DEF QuietIsConsistent
  <2>1. /\ \A q \in Requests : pc[q] \in {"none", "done"}
        /\ ~Clearing /\ ~Settling /\ ~Reconciling /\ ~StopAwaited
    BY DEF Quiet, Clearing, Settling, Reconciling, StopAwaited
  <2>2. transition = 0
    <3>1. transition \in Requests \/ transition = 0
      BY DEF RunInv, LocksOfRequests, Requests
    <3>2. transition \in Requests => pc[transition] \in Coming \cup Going
      BY DEF RunInv, LockInv
    <3>3. QED
      BY <2>1, <3>1, <3>2 DEF Coming, Going
  <2>3. control = 0
    BY <2>2, Locked
  <2>4. /\ runTime => binding.kind # "none" /\ binding.kind = service
        /\ ~runTime => binding.kind = "none" /\ service = "none"
    BY <2>1, <2>3 DEF RunInv, ServiceInv
  <2>5. latest \in Requests => pc[latest] = "done"
    BY <2>1, Locked
  <2>6. Lost => raced
    BY <2>1 DEF Lost
  <2>7. runTime => phase = "STARTED" \/ dropped
    BY <2>1, <2>2, <2>5 DEF RunInv, PhaseInv
  <2>8. ~runTime => phase = "STOPPED" \/ raced
    BY <2>2, <2>6 DEF RunInv, PhaseInv
  <2>9. RunningRequested => runTime \/ raced
    BY <2>5, <2>6 DEF RunInv, IntentInv, RunningRequested
  <2>10. runTime => RunningRequested \/ dropped
    BY <2>1 DEF RunInv, IntentInv, Going
  <2>11. CASE runTime
    BY <2>4, <2>7, <2>10, <2>11
  <2>12. CASE ~runTime
    BY <2>4, <2>8, <2>9, <2>12
  <2>13. QED
    BY <2>11, <2>12
<1>2. QED
  BY <1>1, RunInvariance, PTL

\* After a stop that was answered well, and until the next request, nothing runs and
\* nothing comes up again (ServiceStateMachine.kt, stop and runStart).
THEOREM StopsHold == Spec => []StopHolds
<1>1. RunInv => StopHolds
  BY DEF RunInv, HoldInv, StopHolds
<1>2. QED
  BY <1>1, RunInvariance, PTL
=============================================================================
