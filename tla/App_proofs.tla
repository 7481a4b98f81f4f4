------------------------------ MODULE App_proofs ------------------------------
(***************************************************************************)
(* The app's actions and its hot keys: what is shown, what a restart        *)
(* answers and what is authorized, proved from one inductive invariant; and *)
(* that the registry of hot keys, IDS and the system agree, from another.   *)
(***************************************************************************)
EXTENDS AppActions, Hotkeys, TLAPS

-----------------------------------------------------------------------------
(* The app's actions: the inductive invariant                               *)

\* A listener task that is still to call the Core, or calls it.
Pending == {"wanted", "queued", "calling"}

\* Places of the worker, of a call, and of a setup before and after the Core is called.
Restarts == {"off", "lifecycle", "launching", "init", "loop"}
Quietly  == {"idle", "requesting", "updating", "done"}
Before   == {"queued", "authorizing", "handoff", "joined", "told"}
After    == {"configuring", "configured", "rejected"}

\* Who is where, and has which listener task there.
PlaceInv ==
  /\ kind[Worker] = "worker" /\ \A c \in Calls : kind[c] # "worker" /\ step[c] \notin Restarts
  /\ step[Worker] \notin Quietly \cup {"told", "running"}
  /\ \A p \in Procs :
       /\ step[p] \in Restarts \cup Quietly \/ kind[p] \in {"restart", "update"} => listener[p] = "none"
       /\ step[p] \in Before => listener[p] \in {"none", "wanted"}
       /\ step[p] \in After => listener[p] # "wanted"
       /\ step[p] \in {"running", "stopping"} => listener[p] \notin {"none", "wanted"}
       /\ listener[p] = "wanted" => kind[p] \in {"worker", "initialize"}
       /\ step[p] \in {"requesting", "updating"} => kind[p] = "update"
       /\ step[p] \in {"queued"} \cup After => kind[p] # "update"

\* Who calls the Core is the first in line, and so is the setup that is at work.
LineInv ==
  \A p \in Procs :
    /\ listener[p] = "calling" => listenerQueue # <<>> /\ Head(listenerQueue) = p
    /\ step[p] \in {"authorizing"} \cup After /\ kind[p] # "update" =>
         setupQueue # <<>> /\ Head(setupQueue) = p

\* What is shown is what the current request asks for, as long as it has not called the
\* Core; and a call of an overtaken request has the current one behind it.
RequestInv ==
  /\ listener[latest] \in Pending => shown = Wish(latest)
  /\ listener[latest] = "failed" => spoiled
  /\ \A p \in Procs :
       listener[p] = "calling" /\ p # latest => listener[latest] \in {"wanted", "queued"}

\* A current start that joined a restart is taken over by its next round.
JoinedInv ==
  listener[latest] = "wanted" => /\ step[latest] = "joined" => asked
                                 /\ step[latest] = "told" => answer[latest] # "yes"

\* The worker has still to look at what is shown.
LookAgain ==
  \/ status # "connected" \/ step[Worker] \in {"lifecycle", "launching", "init"}
  \/ step[Worker] = "loop" /\ asked

\* What is shown and what the Core does differ only while the current request is under
\* way, or where the worker has still to start what a new Core does not know of.
CarriedInv ==
  ~spoiled => listener[latest] \in Pending \/ core.listening = shown \/ (shown /\ LookAgain)

\* A restart that is asked for is not forgotten before the worker has set up.
RestartInv ==
  /\ step[Worker] \in {"lifecycle", "launching", "init"} => asked
  /\ step[Worker] \in {"lifecycle", "launching"} => status = "connecting"
  /\ unserved # {} /\ ~asked => step[Worker] \in {"queued", "authorizing", "handoff", "joined"}

\* Rights granted to a Core that was launched without them wait for its restart, unless
\* the restart that they joined had launched it.
GrantInv ==
  /\ authorization = "authorized" => granted
  /\ granted /\ ~core.privileged /\ ~late =>
       \/ step[Worker] \in {"lifecycle", "launching"}
       \/ \E p \in Procs : step[p] = "handoff"
       \/ step[Worker] = "off" /\ status # "connected"

ActionsInv == /\ ActionsTypeOK /\ PlaceInv /\ LineInv /\ RequestInv /\ JoinedInv /\ CarriedInv
              /\ RestartInv /\ GrantInv

-----------------------------------------------------------------------------
(* The app's actions: lemmas                                                *)

LEMMA ProcsTyped ==
  Worker \in Procs /\ Worker \notin Calls /\ Calls \subseteq Procs /\ Procs = Calls \cup {Worker}
  BY ActionsAssumption DEF Worker, Procs, Calls

\* A process joins the line of a scheduler: who is first stays so.
LEMMA InLine ==
  ASSUME NEW s \in Seq(Procs), NEW p \in Procs
  PROVE  /\ Append(s, p) \in Seq(Procs) /\ Append(s, p) # <<>>
         /\ s # <<>> => Head(Append(s, p)) = Head(s)
  OBVIOUS

LEMMA OutOfLine ==
  ASSUME NEW s \in Seq(Procs), s # <<>>
  PROVE  Head(s) \in Procs /\ Tail(s) \in Seq(Procs)
  OBVIOUS

\* What a process may await.
Places == {"idle", "off", "lifecycle", "launching", "init", "loop", "queued", "requesting",
           "authorizing", "handoff", "joined", "told", "running", "configuring",
           "configured", "rejected", "stopping", "updating", "done"}

\* The type invariant, with every Boolean by itself.
LEMMA Typed ==
  ActionsTypeOK <=>
    /\ step \in [Procs -> Places]
    /\ kind \in [Procs -> Kinds \cup {"none", "worker"}]
    /\ answer \in [Procs -> {"none", "yes", "no", "error"}]
    /\ asked \in BOOLEAN /\ faults \in Nat
    /\ unserved \subseteq Procs /\ status \in {"connecting", "connected", "disconnected"}
    /\ latest \in Procs /\ aim \in [Procs -> BOOLEAN]
    /\ listener \in [Procs -> {"none", "wanted", "queued", "calling", "ok", "failed"}]
    /\ setupQueue \in Seq(Procs) /\ listenerQueue \in Seq(Procs)
    /\ shown \in BOOLEAN /\ spoiled \in BOOLEAN /\ tunWanted \in BOOLEAN /\ granted \in BOOLEAN
    /\ late \in BOOLEAN
    /\ authorization \in {"none", "unauthorized", "authorized"}
    /\ core \in [alive : BOOLEAN, privileged : BOOLEAN, tun : BOOLEAN, listening : BOOLEAN]
  BY DEF ActionsTypeOK, Places

LEMMA ActionsInitially == ActionsInit => ActionsInv
<1> SUFFICES ASSUME ActionsInit PROVE ActionsInv
  OBVIOUS
<1> USE ProcsTyped DEF ActionsInit
<1>1. ActionsTypeOK
  <2>1. core \in [alive : BOOLEAN, privileged : BOOLEAN, tun : BOOLEAN, listening : BOOLEAN]
    BY DEF Launched
  <2>2. <<>> \in Seq(Procs)
    OBVIOUS
  <2>3. {shown, spoiled, tunWanted, granted, late} \subseteq BOOLEAN /\ asked \in BOOLEAN
    OBVIOUS
  <2> QED
    BY <2>1, <2>2, <2>3 DEF ActionsTypeOK
<1>2. PlaceInv
  BY DEF PlaceInv, Restarts, Quietly, Before, After
<1>3. LineInv
  BY DEF LineInv, After
<1>4. RequestInv /\ JoinedInv
  BY DEF RequestInv, JoinedInv, Pending
<1>5. CarriedInv /\ RestartInv /\ GrantInv
  BY DEF CarriedInv, RestartInv, GrantInv, Launched
<1> QED
  BY <1>1, <1>2, <1>3, <1>4, <1>5 DEF ActionsInv

-----------------------------------------------------------------------------
(* The worker                                                               *)


LEMMA StopKeeps ==
  ASSUME ActionsInv, Stop
  PROVE  ActionsInv'
<1> USE ProcsTyped DEF Stop, restartVars, requestVars, listenVars, setupVars
<1>0. ActionsTypeOK /\ step \in [Procs -> Places]
  BY Typed DEF ActionsInv
<1>1. ActionsTypeOK'
  <2>1. core' \in [alive : BOOLEAN, privileged : BOOLEAN, tun : BOOLEAN, listening : BOOLEAN]
    BY DEF Launched
  <2> QED
    BY <1>0, <2>1 DEF ActionsTypeOK
<1>2. PlaceInv'
  BY <1>0 DEF ActionsInv, PlaceInv, Restarts, Quietly, Before, After
<1>3. LineInv'
  BY <1>0 DEF ActionsInv, LineInv, After
<1>4. RequestInv' /\ JoinedInv'
  BY <1>0 DEF ActionsInv, ActionsTypeOK, RequestInv, JoinedInv, Pending, Wish
<1>5. CarriedInv'
  BY <1>0 DEF ActionsInv, ActionsTypeOK, CarriedInv, RestartInv, LookAgain, Pending, Launched
<1>6. RestartInv' /\ GrantInv'
  BY <1>0 DEF ActionsInv, RestartInv, GrantInv
<1> QED
  BY <1>1, <1>2, <1>3, <1>4, <1>5, <1>6 DEF ActionsInv

\* Who joined the worker is told what became of it.
LEMMA EveryoneIsTold ==
  ASSUME ActionsInv, NEW outcome \in {"none", "yes", "no", "error"}, WorkerEnds(outcome),
         step[Worker] \in {"launching", "init", "loop"}
  PROVE  /\ step' \in [Procs -> Places] /\ answer' \in [Procs -> {"none", "yes", "no", "error"}]
         /\ step'[Worker] = "off"
         /\ \A p \in Calls : IF step[p] = "joined" THEN step'[p] = "told" /\ answer'[p] = outcome
                                                   ELSE step'[p] = step[p] /\ answer'[p] = answer[p]
<1> USE ProcsTyped DEF WorkerEnds
<1>0. step \in [Procs -> Places] /\ answer \in [Procs -> {"none", "yes", "no", "error"}]
  BY Typed DEF ActionsInv
<1>1. step' \in [Procs -> Places]
  BY <1>0 DEF Places
<1>2. answer' \in [Procs -> {"none", "yes", "no", "error"}]
  BY <1>0
<1>3. step'[Worker] = "off"
  OBVIOUS
<1>4. \A p \in Calls : IF step[p] = "joined" THEN step'[p] = "told" /\ answer'[p] = outcome
                                            ELSE step'[p] = step[p] /\ answer'[p] = answer[p]
  OBVIOUS
<1> QED
  BY <1>1, <1>2, <1>3, <1>4

LEMMA EndKeeps ==
  ASSUME ActionsInv, NEW outcome \in {"none", "yes", "no", "error"}, WorkerEnds(outcome),
         step[Worker] \in {"launching", "init", "loop"},
         UNCHANGED <<kind, unserved, requestVars, listenVars, setupVars, core, late>>,
         asked' = asked, faults' \in Nat, status' \in {"connecting", "connected", "disconnected"},
         \/ step[Worker] = "loop" /\ ~asked /\ status' = status
         \/ outcome \in {"no", "error"} /\ status' # "connected"
  PROVE  ActionsInv'
<1> USE ProcsTyped DEF requestVars, listenVars, setupVars
<1>0. ActionsTypeOK /\ step \in [Procs -> Places] /\ latest \in Procs
  BY Typed DEF ActionsInv
<1>a. /\ step' \in [Procs -> Places] /\ answer' \in [Procs -> {"none", "yes", "no", "error"}]
      /\ step'[Worker] = "off"
      /\ \A p \in Calls : IF step[p] = "joined" THEN step'[p] = "told" /\ answer'[p] = outcome
                                                ELSE step'[p] = step[p] /\ answer'[p] = answer[p]
  BY EveryoneIsTold
<1>1. ActionsTypeOK'
  BY <1>0, <1>a DEF ActionsTypeOK, Places
<1>2. PlaceInv'
  BY <1>0, <1>a DEF ActionsInv, PlaceInv, Restarts, Quietly, Before, After
<1>3. LineInv'
  BY <1>0, <1>a DEF ActionsInv, LineInv, After
<1>4. RequestInv'
  BY <1>0, <1>a DEF ActionsInv, RequestInv, Pending, Wish
<1>5. JoinedInv'
  BY <1>0, <1>a DEF ActionsInv, JoinedInv, PlaceInv, Restarts
<1>6. CarriedInv'
  BY <1>0, <1>a DEF ActionsInv, CarriedInv, RestartInv, LookAgain, Pending
<1>7. RestartInv'
  BY <1>0, <1>a DEF ActionsInv, RestartInv
<1>8. GrantInv'
  <2>1. \A q \in Procs : step[q] = "handoff" => step'[q] = "handoff"
    BY <1>0, <1>a
  <2> QED
    BY <1>0, <1>a, <2>1 DEF ActionsInv, RestartInv, GrantInv
<1> QED
  BY <1>1, <1>2, <1>3, <1>4, <1>5, <1>6, <1>7, <1>8 DEF ActionsInv

LEMMA LaunchKeeps ==
  ASSUME ActionsInv, Launch
  PROVE  ActionsInv'
<1> USE ProcsTyped DEF Launch, requestVars, listenVars, setupVars
<1>0. ActionsTypeOK /\ step \in [Procs -> Places] /\ granted \in BOOLEAN /\ shown \in BOOLEAN
  BY Typed DEF ActionsInv
<1>1. CASE step'[Worker] = "init"
  <2>0. /\ core' = Launched(granted) /\ status' = "connected" /\ UNCHANGED <<answer, faults>> /\ late' = FALSE
        /\ step' = [step EXCEPT ![Worker] = "init"]
    BY <1>1 DEF WorkerEnds
  <2>1. ActionsTypeOK'
    <3>1. core' \in [alive : BOOLEAN, privileged : BOOLEAN, tun : BOOLEAN, listening : BOOLEAN]
      BY <1>0, <2>0 DEF Launched
    <3> QED
      BY <1>0, <2>0, <3>1 DEF ActionsTypeOK
  <2>2. PlaceInv'
    BY <1>0, <2>0 DEF ActionsInv, PlaceInv, Restarts, Quietly, Before, After
  <2>3. LineInv'
    BY <1>0, <2>0 DEF ActionsInv, LineInv, After
  <2>4. RequestInv' /\ JoinedInv'
    BY <1>0, <2>0 DEF ActionsInv, ActionsTypeOK, RequestInv, JoinedInv, Pending, Wish
  <2>5. CarriedInv'
    BY <1>0, <2>0 DEF CarriedInv, LookAgain, Launched
  <2>6. RestartInv' /\ GrantInv'
    BY <1>0, <2>0 DEF ActionsInv, RestartInv, GrantInv, Launched
  <2> QED
    BY <2>1, <2>2, <2>3, <2>4, <2>5, <2>6 DEF ActionsInv
<1>2. CASE step'[Worker] # "init"
  <2>1. PICK outcome \in {"no", "error"} :
          /\ WorkerEnds(outcome) /\ UNCHANGED <<core, late>> /\ faults' = faults + 1
          /\ status' = IF outcome = "no" THEN status ELSE "disconnected"
    BY <1>0, <1>2
  <2>2. status = "connecting" /\ faults' \in Nat
    BY <2>1 DEF ActionsInv, RestartInv, ActionsTypeOK
  <2> QED
    BY <2>1, <2>2, EndKeeps
<1> QED
  BY <1>1, <1>2

LEMMA InitCoreKeeps ==
  ASSUME ActionsInv, InitCore
  PROVE  ActionsInv'
<1> USE ProcsTyped DEF InitCore, requestVars, listenVars, setupVars
<1>0. ActionsTypeOK /\ step \in [Procs -> Places]
  BY Typed DEF ActionsInv
<1>1. CASE /\ CoreAnswers /\ step' = [step EXCEPT ![Worker] = "loop"] /\ UNCHANGED <<core, status, answer>>
  <2> USE <1>1 DEF CoreAnswers
  <2>1. ActionsTypeOK'
    BY <1>0 DEF ActionsTypeOK
  <2>2. PlaceInv'
    BY <1>0 DEF ActionsInv, PlaceInv, Restarts, Quietly, Before, After
  <2>3. LineInv'
    BY <1>0 DEF ActionsInv, LineInv, After
  <2>4. RequestInv' /\ JoinedInv'
    BY <1>0 DEF ActionsInv, ActionsTypeOK, RequestInv, JoinedInv, Pending, Wish
  <2>5. CarriedInv'
    BY <1>0 DEF ActionsInv, CarriedInv, RestartInv, LookAgain
  <2>6. RestartInv' /\ GrantInv'
    BY <1>0 DEF ActionsInv, RestartInv, GrantInv
  <2> QED
    BY <2>1, <2>2, <2>3, <2>4, <2>5, <2>6 DEF ActionsInv
<1>2. CASE CoreFails /\ WorkerEnds("error") /\ status' = "disconnected"
  <2>1. faults' \in Nat /\ UNCHANGED <<core, late>>
    BY <1>0, <1>2 DEF CoreFails, ActionsTypeOK
  <2> QED
    BY <1>2, <2>1, EndKeeps
<1> QED
  BY <1>1, <1>2

LEMMA LoopKeeps ==
  ASSUME ActionsInv, Loop
  PROVE  ActionsInv'
<1> USE ProcsTyped DEF Loop, RoundIf, requestVars, coreVars
<1>0. /\ ActionsTypeOK /\ step \in [Procs -> Places] /\ shown \in BOOLEAN /\ setupQueue \in Seq(Procs)
      /\ listener \in [Procs -> {"none", "wanted", "queued", "calling", "ok", "failed"}] /\ latest \in Procs
  BY Typed DEF ActionsInv
<1>1. CASE asked
  <2> USE <1>1 DEF SetupInLine, Request
  <2>0. /\ step' = [step EXCEPT ![Worker] = "queued"] /\ UNCHANGED answer /\ asked' = FALSE
        /\ setupQueue' = Append(setupQueue, Worker)
        /\ listener' = [listener EXCEPT ![Worker] = IF shown THEN "wanted" ELSE "none"]
        /\ latest' = IF shown THEN Worker ELSE latest
        /\ shown' = shown /\ spoiled' = IF shown THEN FALSE ELSE spoiled
    BY <1>0
  <2>a. /\ setupQueue' \in Seq(Procs) /\ setupQueue' # <<>>
        /\ setupQueue # <<>> => Head(setupQueue') = Head(setupQueue)
    BY <1>0, <2>0, InLine
  <2>b. listener[Worker] = "none" /\ kind[Worker] = "worker"
    BY DEF ActionsInv, PlaceInv, Restarts
  <2>1. ActionsTypeOK'
    <3>1. asked' \in BOOLEAN /\ spoiled' \in BOOLEAN /\ shown' \in BOOLEAN
      BY <2>0, Typed DEF ActionsInv
    <3> QED
      BY <1>0, <2>0, <2>a, <3>1 DEF ActionsTypeOK
  <2>2. PlaceInv'
    BY <1>0, <2>0, <2>b DEF ActionsInv, PlaceInv, Restarts, Quietly, Before, After
  <2>3. LineInv'
    BY <1>0, <2>0, <2>a DEF ActionsInv, LineInv, After
  <2>4. RequestInv'
    BY <1>0, <2>0, <2>b DEF ActionsInv, RequestInv, Pending, Wish
  <2>5. JoinedInv'
    <3>1. ~shown => listener[latest] # "wanted"
      BY <1>0 DEF ActionsInv, RequestInv, PlaceInv, Pending, Wish
    <3> QED
      BY <1>0, <2>0, <2>b, <3>1 DEF JoinedInv
  <2>6. CarriedInv'
    BY <1>0, <2>0, <2>b DEF ActionsInv, CarriedInv, Pending
  <2>7. RestartInv' /\ GrantInv'
    BY <1>0, <2>0 DEF ActionsInv, RestartInv, GrantInv
  <2> QED
    BY <2>1, <2>2, <2>3, <2>4, <2>5, <2>6, <2>7 DEF ActionsInv
<1>2. CASE ~asked
  <2>1. WorkerEnds(answer[Worker]) /\ asked' = asked
    BY <1>0, <1>2 DEF ActionsTypeOK
  <2>2. UNCHANGED <<kind, unserved, status, requestVars, listenVars, setupVars, core, late, faults>>
    BY <1>2 DEF listenVars, setupVars
  <2>3. /\ answer[Worker] \in {"none", "yes", "no", "error"} /\ faults' \in Nat
        /\ status' \in {"connecting", "connected", "disconnected"} /\ step[Worker] = "loop"
    BY <1>0, <2>2 DEF ActionsTypeOK
  <2> QED
    BY <1>2, <2>1, <2>2, <2>3, EndKeeps
<1> QED
  BY <1>1, <1>2

\* A process joins the worker, which begins if it was off.
LEMMA RestartKeeps ==
  ASSUME ActionsInv, NEW p \in Procs, RestartCore(p),
         \/ step[p] = "idle" /\ p \in Calls /\ kind' = [kind EXCEPT ![p] = "restart"]
         \/ step[p] = "handoff" /\ UNCHANGED kind,
         UNCHANGED <<answer, requestVars, listenVars, setupVars, core, faults>>,
         late' \in BOOLEAN, late => late',
         step[p] = "handoff" /\ step[Worker] \notin {"off", "lifecycle", "launching"} /\ ~core.privileged => late'
  PROVE  ActionsInv'
<1> USE ProcsTyped DEF RestartCore, requestVars, listenVars, setupVars
<1>0. ActionsTypeOK /\ step \in [Procs -> Places] /\ latest \in Procs
      /\ kind \in [Procs -> Kinds \cup {"none", "worker"}]
  BY Typed DEF ActionsInv
<1>a. /\ step' = [q \in Procs |-> IF q = p THEN "joined"
                                  ELSE IF q = Worker /\ step[q] = "off" THEN "lifecycle" ELSE step[q]]
      /\ \A q \in Procs \ {p} : kind'[q] = kind[q]
      /\ kind'[p] \in {"restart", kind[p]} /\ (kind'[p] # kind[p] => listener[p] = "none" /\ p # Worker)
      /\ step[p] \in {"idle", "handoff"}
  <2>1. step' = [q \in Procs |-> IF q = p THEN "joined"
                                 ELSE IF q = Worker /\ step[q] = "off" THEN "lifecycle" ELSE step[q]]
    <3>1. CASE p = Worker
      BY <1>0, <3>1
    <3>2. CASE p # Worker
      BY <1>0, <3>2
    <3> QED
      BY <3>1, <3>2
  <2>2. /\ \A q \in Procs \ {p} : kind'[q] = kind[q]
        /\ kind'[p] \in {"restart", kind[p]} /\ step[p] \in {"idle", "handoff"}
        /\ kind'[p] # kind[p] => step[p] = "idle" /\ p # Worker
    BY <1>0
  <2>3. step[p] = "idle" => listener[p] = "none"
    BY DEF ActionsInv, PlaceInv, Quietly
  <2> QED
    BY <2>1, <2>2, <2>3
<1>1. ActionsTypeOK'
  <2>1. step' \in [Procs -> Places]
    BY <1>0, <1>a DEF Places
  <2>2. kind' \in [Procs -> Kinds \cup {"none", "worker"}]
    BY <1>0 DEF Kinds
  <2> QED
    BY <1>0, <2>1, <2>2 DEF ActionsTypeOK, Places
<1>2. PlaceInv'
  BY <1>0, <1>a DEF ActionsInv, PlaceInv, Restarts, Quietly, Before, After
<1>3. LineInv'
  BY <1>0, <1>a DEF ActionsInv, LineInv, After
<1>4. RequestInv'
  BY <1>0, <1>a DEF ActionsInv, RequestInv, Pending, Wish
<1>5. JoinedInv'
  BY <1>0, <1>a DEF ActionsInv, JoinedInv
<1>6. CarriedInv'
  BY <1>0, <1>a DEF ActionsInv, CarriedInv, LookAgain, Pending
<1>7. RestartInv'
  BY <1>0, <1>a DEF ActionsInv, RestartInv
<1>8. GrantInv'
  <2>1. \A q \in Procs \ {p} : step[q] = "handoff" => step'[q] = "handoff"
    BY <1>0, <1>a
  <2>2. step[Worker] \in {"off", "lifecycle", "launching"} /\ p # Worker =>
          step'[Worker] \in {"lifecycle", "launching"}
    BY <1>0, <1>a
  <2> QED
    BY <1>0, <1>a, <2>1, <2>2 DEF ActionsInv, GrantInv, RestartInv
<1> QED
  BY <1>1, <1>2, <1>3, <1>4, <1>5, <1>6, <1>7, <1>8 DEF ActionsInv

-----------------------------------------------------------------------------
(* The calls, and the question for TUN                                      *)

LEMMA CallKeeps ==
  ASSUME ActionsInv, NEW c \in Calls, NEW k \in Kinds, Call(c, k)
  PROVE  ActionsInv'
<1> USE ProcsTyped DEF Call, restartVars, coreVars
<1>0. /\ ActionsTypeOK /\ step \in [Procs -> Places] /\ kind \in [Procs -> Kinds \cup {"none", "worker"}]
      /\ setupQueue \in Seq(Procs) /\ listenerQueue \in Seq(Procs) /\ latest \in Procs
      /\ listener \in [Procs -> {"none", "wanted", "queued", "calling", "ok", "failed"}]
  BY Typed DEF ActionsInv
<1>a. /\ step[c] = "idle" /\ listener[c] = "none" /\ c # Worker
      /\ kind' \in [Procs -> Kinds \cup {"none", "worker"}]
      /\ kind'[c] = k /\ \A q \in Procs \ {c} : kind'[q] = kind[q]
  BY <1>0 DEF ActionsInv, PlaceInv, Quietly
<1>1. CASE k = "restart"
  <2>1. /\ late' \in BOOLEAN /\ (late => late')
        /\ (step[c] = "handoff" /\ step[Worker] \notin {"off", "lifecycle", "launching"} /\ ~core.privileged => late')
    BY <1>1, <1>a, Typed DEF ActionsInv
  <2>2. /\ RestartCore(c) /\ c \in Procs /\ kind' = [kind EXCEPT ![c] = "restart"]
        /\ UNCHANGED <<answer, requestVars, listenVars, setupVars, core, faults>>
    BY <1>1 DEF setupVars, listenVars
  <2>3. step[c] = "idle"
    BY <1>a
  <2> QED
    BY <2>1, <2>2, <2>3, RestartKeeps
<1>2. CASE k \in {"apply", "update"}
  <2> DEFINE place == IF k = "apply" THEN "queued" ELSE "requesting"
  <2> USE DEF requestVars
  <2>0. /\ step' = [step EXCEPT ![c] = place] /\ listener' = listener
        /\ UNCHANGED <<asked, unserved, status, latest, shown, spoiled, listenerQueue>>
        /\ setupQueue' \in Seq(Procs)
        /\ setupQueue # <<>> => setupQueue' # <<>> /\ Head(setupQueue') = Head(setupQueue)
    <3>1. CASE k = "apply"
      <4>1. [listener EXCEPT ![c] = "none"] = listener
        BY <1>0, <1>a
      <4> QED
        BY <1>0, <3>1, <4>1, InLine DEF SetupInLine
    <3>2. CASE k = "update"
      BY <1>0, <3>2 DEF listenVars
    <3> QED
      BY <1>2, <3>1, <3>2
  <2>1. ActionsTypeOK'
    BY <1>0, <1>a, <2>0 DEF ActionsTypeOK
  <2>2. PlaceInv'
    BY <1>0, <1>a, <1>2, <2>0 DEF ActionsInv, PlaceInv, Restarts, Quietly, Before, After
  <2>3. LineInv'
    BY <1>0, <1>a, <2>0 DEF ActionsInv, LineInv, After
  <2>4. RequestInv' /\ JoinedInv'
    BY <1>0, <1>a, <2>0 DEF ActionsInv, RequestInv, JoinedInv, Pending, Wish
  <2>5. CarriedInv'
    BY <1>0, <1>a, <2>0 DEF ActionsInv, CarriedInv, LookAgain
  <2>6. RestartInv' /\ GrantInv'
    BY <1>0, <1>a, <2>0 DEF ActionsInv, RestartInv, GrantInv
  <2> QED
    BY <2>1, <2>2, <2>3, <2>4, <2>5, <2>6 DEF ActionsInv
<1>3. CASE k \in {"start", "stop", "initialize"}
  <2> DEFINE task == IF k = "initialize" THEN "wanted" ELSE "queued"
             place == IF k = "initialize" THEN "queued" ELSE "running"
  <2>0. /\ step' = [step EXCEPT ![c] = place] /\ listener' = [listener EXCEPT ![c] = task]
        /\ UNCHANGED <<asked, unserved, status>>
        /\ latest' = c /\ shown' = (k # "stop") /\ spoiled' = FALSE
    BY <1>3 DEF SetupInLine, ListenInLine, Request
  <2>a. /\ setupQueue' \in Seq(Procs) /\ listenerQueue' \in Seq(Procs)
        /\ setupQueue # <<>> => setupQueue' # <<>> /\ Head(setupQueue') = Head(setupQueue)
        /\ listenerQueue # <<>> => listenerQueue' # <<>> /\ Head(listenerQueue') = Head(listenerQueue)
    <3>1. CASE k = "initialize"
      BY <1>0, <3>1, InLine DEF SetupInLine
    <3>2. CASE k \in {"start", "stop"}
      BY <1>0, <3>2, InLine DEF ListenInLine
    <3> QED
      BY <1>3, <3>1, <3>2
  <2>1. ActionsTypeOK'
    <3>1. shown' \in BOOLEAN /\ spoiled' \in BOOLEAN
      BY <2>0
    <3> QED
      BY <1>0, <1>a, <2>0, <2>a, <3>1 DEF ActionsTypeOK
  <2>2. PlaceInv'
    BY <1>0, <1>a, <1>3, <2>0 DEF ActionsInv, PlaceInv, Restarts, Quietly, Before, After
  <2>3. LineInv'
    BY <1>0, <1>a, <2>0, <2>a DEF ActionsInv, LineInv, After
  <2>4. RequestInv' /\ JoinedInv'
    BY <1>0, <1>a, <1>3, <2>0 DEF ActionsInv, RequestInv, JoinedInv, Pending, Wish
  <2>5. CarriedInv'
    BY <1>0, <1>a, <2>0 DEF CarriedInv, Pending
  <2>6. RestartInv' /\ GrantInv'
    BY <1>0, <1>a, <2>0 DEF ActionsInv, RestartInv, GrantInv
  <2> QED
    BY <2>1, <2>2, <2>3, <2>4, <2>5, <2>6 DEF ActionsInv
<1> QED
  BY <1>1, <1>2, <1>3 DEF Kinds

LEMMA WantTunKeeps ==
  ASSUME ActionsInv, WantTun
  PROVE  ActionsInv'
<1> USE DEF WantTun, restartVars, requestVars, listenVars, coreVars
<1>1. ActionsTypeOK'
  <2>1. tunWanted' \in BOOLEAN
    OBVIOUS
  <2> QED
    BY <2>1 DEF ActionsInv, ActionsTypeOK
<1>2. PlaceInv' /\ LineInv' /\ RequestInv' /\ JoinedInv'
  BY DEF ActionsInv, PlaceInv, LineInv, RequestInv, JoinedInv, Wish
<1>3. CarriedInv' /\ RestartInv' /\ GrantInv'
  BY DEF ActionsInv, CarriedInv, RestartInv, GrantInv, LookAgain
<1> QED
  BY <1>1, <1>2, <1>3 DEF ActionsInv

\* A setup, or an update, that has its answer about TUN calls the Core.
LEMMA ContinueKeeps ==
  ASSUME ActionsInv, NEW p \in Procs, NEW tun \in BOOLEAN, Continue(p, tun),
         Requesting(p) \/ step[p] = "authorizing",
         authorization' = authorization \/ (granted /\ authorization' = "authorized"),
         UNCHANGED <<kind, answer, asked, status, requestVars, setupQueue, tunWanted, granted, coreVars>>
  PROVE  ActionsInv'
<1> USE ProcsTyped DEF requestVars, coreVars
<1>0. /\ ActionsTypeOK /\ step \in [Procs -> Places] /\ kind \in [Procs -> Kinds \cup {"none", "worker"}]
      /\ setupQueue \in Seq(Procs) /\ listenerQueue \in Seq(Procs) /\ latest \in Procs
      /\ listener \in [Procs -> {"none", "wanted", "queued", "calling", "ok", "failed"}]
      /\ aim \in [Procs -> BOOLEAN]
  BY Typed DEF ActionsInv
<1> DEFINE place == IF kind[p] = "update" THEN "updating" ELSE "configuring"
           task == IF listener[p] = "wanted" THEN "queued" ELSE listener[p]
<1>a. /\ step' = [step EXCEPT ![p] = place] /\ listener' = [listener EXCEPT ![p] = task]
      /\ unserved' = IF p = Worker THEN {} ELSE unserved
      /\ step[p] \in {"requesting", "queued", "authorizing"}
  <2>1. listener' = [listener EXCEPT ![p] = task]
    BY <1>0 DEF Continue, ListenInLine, listenVars
  <2> QED
    BY <2>1 DEF Continue, Requesting
<1>b. /\ listenerQueue' \in Seq(Procs)
      /\ listenerQueue # <<>> => listenerQueue' # <<>> /\ Head(listenerQueue') = Head(listenerQueue)
  BY <1>0, InLine DEF Continue, ListenInLine, listenVars
<1>c. listener[p] \in {"none", "wanted"} /\ (kind[p] = "update" => listener[p] = "none")
  BY <1>a DEF ActionsInv, PlaceInv, Quietly, Before
<1>1. ActionsTypeOK'
  <2>1. aim' \in [Procs -> BOOLEAN]
    BY <1>0 DEF Continue
  <2>2. step' \in [Procs -> Places]
    BY <1>0, <1>a DEF Places
  <2>3. authorization' \in {"none", "unauthorized", "authorized"} /\ unserved' \subseteq Procs
    BY <1>0, <1>a DEF ActionsTypeOK
  <2> QED
    BY <1>0, <1>a, <1>b, <2>1, <2>2, <2>3 DEF ActionsTypeOK, Places
<1>2. PlaceInv'
  BY <1>0, <1>a, <1>c DEF ActionsInv, PlaceInv, Restarts, Quietly, Before, After
<1>3. LineInv'
  <2>1. kind[p] # "update" => setupQueue # <<>> /\ Head(setupQueue) = p
    BY DEF ActionsInv, LineInv, Requesting, PlaceInv
  <2> QED
    BY <1>0, <1>a, <1>b, <1>c, <2>1 DEF ActionsInv, LineInv, After
<1>4. RequestInv' /\ JoinedInv'
  BY <1>0, <1>a, <1>c DEF ActionsInv, RequestInv, JoinedInv, Pending, Wish
<1>5. CarriedInv'
  BY <1>0, <1>a, <1>c DEF ActionsInv, CarriedInv, LookAgain, Pending
<1>6. RestartInv' /\ GrantInv'
  BY <1>0, <1>a DEF ActionsInv, RestartInv, GrantInv
<1> QED
  BY <1>1, <1>2, <1>3, <1>4, <1>5, <1>6 DEF ActionsInv

LEMMA AskKeeps ==
  ASSUME ActionsInv, NEW p \in Procs, Ask(p)
  PROVE  ActionsInv'
<1> USE ProcsTyped DEF Ask, restartVars, requestVars, listenVars, coreVars
<1>0. ActionsTypeOK /\ step \in [Procs -> Places] /\ latest \in Procs
  BY Typed DEF ActionsInv
<1>a. step[p] \in {"requesting", "queued"}
  BY DEF Requesting
<1>1. ActionsTypeOK'
  <2>1. step' \in [Procs -> Places]
    BY <1>0 DEF Places
  <2> QED
    BY <1>0, <2>1 DEF ActionsTypeOK, Places
<1>2. PlaceInv'
  BY <1>0, <1>a DEF ActionsInv, PlaceInv, Restarts, Quietly, Before, After
<1>3. LineInv'
  <2>1. kind[p] # "update" => setupQueue # <<>> /\ Head(setupQueue) = p
    BY DEF ActionsInv, Requesting, PlaceInv
  <2> QED
    BY <1>0, <1>a, <2>1 DEF ActionsInv, LineInv, After
<1>4. RequestInv' /\ JoinedInv'
  BY <1>0, <1>a DEF ActionsInv, RequestInv, JoinedInv, Pending, Wish
<1>5. CarriedInv'
  BY <1>0, <1>a DEF ActionsInv, CarriedInv, LookAgain
<1>6. RestartInv' /\ GrantInv'
  BY <1>0, <1>a DEF ActionsInv, RestartInv, GrantInv
<1> QED
  BY <1>1, <1>2, <1>3, <1>4, <1>5, <1>6 DEF ActionsInv

LEMMA GrantedKeeps ==
  ASSUME ActionsInv, NEW p \in Procs, Granted(p)
  PROVE  ActionsInv'
<1> USE ProcsTyped DEF Granted, Grant, restartVars, requestVars, listenVars, coreVars
<1>0. /\ ActionsTypeOK /\ step \in [Procs -> Places] /\ latest \in Procs /\ setupQueue \in Seq(Procs)
  BY Typed DEF ActionsInv
<1>a. kind[p] # "update" => setupQueue # <<>> /\ Head(setupQueue) = p
  BY DEF ActionsInv, LineInv
<1>1. ActionsTypeOK'
  <2>1. step' \in [Procs -> Places]
    BY <1>0 DEF Places
  <2>2. setupQueue' \in Seq(Procs)
    BY <1>0, <1>a, OutOfLine DEF LeaveSetup
  <2>3. granted' \in BOOLEAN
    OBVIOUS
  <2> QED
    BY <1>0, <2>1, <2>2, <2>3 DEF ActionsTypeOK, Places
<1>2. PlaceInv'
  BY <1>0 DEF ActionsInv, PlaceInv, Restarts, Quietly, Before, After
<1>3. LineInv'
  BY <1>0, <1>a DEF ActionsInv, LineInv, After, LeaveSetup
<1>4. RequestInv' /\ JoinedInv'
  BY <1>0 DEF ActionsInv, RequestInv, JoinedInv, Pending, Wish
<1>5. CarriedInv'
  BY <1>0 DEF ActionsInv, CarriedInv, LookAgain
<1>6. RestartInv' /\ GrantInv'
  BY <1>0 DEF ActionsInv, RestartInv, GrantInv
<1> QED
  BY <1>1, <1>2, <1>3, <1>4, <1>5, <1>6 DEF ActionsInv

LEMMA AdminKeeps ==
  ASSUME ActionsInv, NEW p \in Procs, NoQuestion(p) \/ Answered(p) \/ HandOff(p)
  PROVE  ActionsInv'
<1>0. tunWanted \in BOOLEAN
  BY Typed DEF ActionsInv
<1>1. CASE NoQuestion(p)
  <2>1. (tunWanted /\ authorization = "authorized") \in BOOLEAN
    BY <1>0
  <2> QED
    BY <1>1, <2>1, ContinueKeeps DEF NoQuestion
<1>2. CASE Answered(p)
  BY <1>2, ContinueKeeps DEF Answered
<1>3. CASE HandOff(p)
  <2>1. late \in BOOLEAN /\ core.privileged \in BOOLEAN
    BY Typed DEF ActionsInv
  <2>2. /\ step[p] = "handoff" /\ RestartCore(p)
        /\ late' = (late \/ (step[Worker] \notin {"off", "lifecycle", "launching"} /\ ~core.privileged))
        /\ UNCHANGED <<kind, answer, requestVars, listenVars, setupVars, core, faults>>
    BY <1>3 DEF HandOff
  <2>3. late' \in BOOLEAN /\ (late => late')
        /\ (step[Worker] \notin {"off", "lifecycle", "launching"} /\ ~core.privileged => late')
    BY <2>1, <2>2
  <2> QED
    BY <2>2, <2>3, RestartKeeps
<1> QED
  BY <1>1, <1>2, <1>3

-----------------------------------------------------------------------------
(* The listener                                                             *)

LEMMA TellCoreKeeps ==
  ASSUME ActionsInv, TellCore
  PROVE  ActionsInv'
<1> USE ProcsTyped DEF restartVars, requestVars, setupVars, coreVars
<1>0. /\ ActionsTypeOK /\ listenerQueue \in Seq(Procs) /\ latest \in Procs /\ listenerQueue # <<>>
      /\ listener \in [Procs -> {"none", "wanted", "queued", "calling", "ok", "failed"}]
      /\ UNCHANGED <<step, kind, answer, restartVars, requestVars, setupVars, coreVars>>
  BY Typed DEF ActionsInv, TellCore
<1>1. PICK p \in Procs :
        /\ p = Head(listenerQueue) /\ listener[p] = "queued"
        /\ IF p = latest
           THEN listener' = [listener EXCEPT ![p] = "calling"] /\ UNCHANGED listenerQueue
           ELSE listener' = [listener EXCEPT ![p] = "ok"] /\ listenerQueue' = Tail(listenerQueue)
  BY <1>0, OutOfLine DEF TellCore, IsCurrent
<1>2. listenerQueue' \in Seq(Procs)
  BY <1>0, <1>1, OutOfLine
<1>3. \A q \in Procs : listener[q] # "calling"
  BY <1>1 DEF ActionsInv, LineInv
<1>4. ActionsTypeOK'
  BY <1>0, <1>1, <1>2 DEF ActionsTypeOK
<1>5. PlaceInv'
  BY <1>0, <1>1 DEF ActionsInv, PlaceInv, Restarts, Quietly, Before, After
<1>6. LineInv'
  BY <1>0, <1>1, <1>3 DEF ActionsInv, LineInv, After
<1>7. RequestInv' /\ JoinedInv'
  BY <1>0, <1>1, <1>3 DEF ActionsInv, RequestInv, JoinedInv, Pending, Wish
<1>8. CarriedInv' /\ RestartInv' /\ GrantInv'
  BY <1>0, <1>1 DEF ActionsInv, CarriedInv, RestartInv, GrantInv, LookAgain, Pending
<1> QED
  BY <1>4, <1>5, <1>6, <1>7, <1>8 DEF ActionsInv

LEMMA CoreToldKeeps ==
  ASSUME ActionsInv, CoreTold
  PROVE  ActionsInv'
<1> USE ProcsTyped DEF restartVars, setupVars
<1>0. /\ ActionsTypeOK /\ listenerQueue \in Seq(Procs) /\ latest \in Procs /\ listenerQueue # <<>>
      /\ listener \in [Procs -> {"none", "wanted", "queued", "calling", "ok", "failed"}]
      /\ UNCHANGED <<step, kind, answer, restartVars, latest, shown, setupVars>>
      /\ spoiled \in BOOLEAN /\ listenerQueue' = Tail(listenerQueue)
      /\ core \in [alive : BOOLEAN, privileged : BOOLEAN, tun : BOOLEAN, listening : BOOLEAN]
  BY Typed DEF ActionsInv, CoreTold
<1>1. PICK p \in Procs, outcome \in {"ok", "failed"} :
        /\ p = Head(listenerQueue) /\ listener[p] = "calling"
        /\ listener' = [listener EXCEPT ![p] = outcome]
        /\ late' = late
        /\ \/ /\ core' = [core EXCEPT !.listening = Wish(p)] /\ spoiled' = spoiled /\ faults' = faults
              /\ outcome = "ok"
           \/ /\ core' = core /\ spoiled' = (spoiled \/ p = latest) /\ faults' \in {faults, faults + 1}
  BY <1>0, OutOfLine DEF CoreTold, IsCurrent, CoreAnswers, CoreFails
<1>2. listenerQueue' \in Seq(Procs)
  BY <1>0, OutOfLine
<1>3. \A q \in Procs \ {p} : listener[q] # "calling"
  BY <1>1 DEF ActionsInv, LineInv
<1>4. ActionsTypeOK'
  <2>1. Wish(p) \in BOOLEAN
    BY DEF Wish
  <2>2. core' \in [alive : BOOLEAN, privileged : BOOLEAN, tun : BOOLEAN, listening : BOOLEAN]
    BY <1>0, <1>1, <2>1
  <2>3. spoiled' \in BOOLEAN
    BY <1>0, <1>1
  <2>4. faults' \in Nat
    BY <1>0, <1>1 DEF ActionsTypeOK
  <2> QED
    BY <1>0, <1>1, <1>2, <2>2, <2>3, <2>4 DEF ActionsTypeOK
<1>5. PlaceInv'
  BY <1>0, <1>1 DEF ActionsInv, PlaceInv, Restarts, Quietly, Before, After
<1>6. LineInv'
  BY <1>0, <1>1, <1>3 DEF ActionsInv, LineInv, After
<1>7. RequestInv' /\ JoinedInv'
  BY <1>0, <1>1, <1>3 DEF ActionsInv, RequestInv, JoinedInv, Pending, Wish
<1>8. CarriedInv'
  <2>1. CASE p = latest
    <3>1. core'.listening = shown' \/ spoiled'
      BY <1>0, <1>1, <2>1 DEF ActionsInv, RequestInv, Pending
    <3> QED
      BY <3>1 DEF CarriedInv
  <2>2. CASE p # latest
    <3>1. listener'[latest'] \in Pending
      BY <1>0, <1>1, <2>2 DEF ActionsInv, RequestInv, Pending
    <3> QED
      BY <3>1 DEF CarriedInv
  <2> QED
    BY <2>1, <2>2
<1>9. RestartInv' /\ GrantInv'
  <2>1. core'.privileged = core.privileged /\ late' = late
    BY <1>0, <1>1
  <2> QED
    BY <1>0, <2>1 DEF restartVars, setupVars, ActionsInv, RestartInv, GrantInv
<1> QED
  BY <1>4, <1>5, <1>6, <1>7, <1>8, <1>9 DEF ActionsInv

-----------------------------------------------------------------------------
(* What follows on a setup, a listener task or a restart                    *)

\* p is through with its listener task, if it had one: nothing is shown that is not so.
LEMMA FinishKeeps ==
  ASSUME ActionsInv, NEW p \in Procs, NEW outcome \in {"none", "yes", "no", "error"}, Finish(p, outcome),
         listener' = [listener EXCEPT ![p] = "none"],
         listener[p] \notin Pending \/ p # latest, listener[p] # "calling",
         step[p] \notin Restarts \cup {"queued", "authorizing", "handoff", "joined"},
         p = Worker => step[p] \in After \cup {"stopping"},
         shown' \in BOOLEAN, shown' = shown \/ (listener[p] = "failed" /\ p = latest),
         UNCHANGED <<asked, unserved, status, latest, spoiled, listenerQueue, granted, tunWanted, late>>,
         setupQueue' \in Seq(Procs), aim' \in [Procs -> BOOLEAN], faults' \in Nat,
         \/ setupQueue' = setupQueue
         \/ step[p] \in After,
         authorization' \in {"none", authorization},
         core' \in [alive : BOOLEAN, privileged : BOOLEAN, tun : BOOLEAN, listening : BOOLEAN],
         core'.listening = core.listening, core'.privileged = core.privileged
  PROVE  ActionsInv'
<1> USE ProcsTyped
<1>0. /\ ActionsTypeOK /\ step \in [Procs -> Places] /\ kind \in [Procs -> Kinds \cup {"none", "worker"}]
      /\ latest \in Procs /\ answer \in [Procs -> {"none", "yes", "no", "error"}]
      /\ listener \in [Procs -> {"none", "wanted", "queued", "calling", "ok", "failed"}]
      /\ asked \in BOOLEAN /\ spoiled \in BOOLEAN /\ granted \in BOOLEAN /\ tunWanted \in BOOLEAN
      /\ late \in BOOLEAN
  BY Typed DEF ActionsInv
<1>a. /\ step' = [step EXCEPT ![p] = IF p = Worker THEN "loop" ELSE "done"]
      /\ kind' = [kind EXCEPT ![p] = IF p = Worker THEN @ ELSE "none"]
      /\ answer' = [answer EXCEPT ![p] = IF p = Worker THEN outcome ELSE "none"]
  BY DEF Finish
<1>1. ActionsTypeOK'
  <2>1. step' \in [Procs -> Places]
    BY <1>0, <1>a DEF Places
  <2>2. kind' \in [Procs -> Kinds \cup {"none", "worker"}]
    BY <1>0, <1>a
  <2>3. answer' \in [Procs -> {"none", "yes", "no", "error"}]
    BY <1>0, <1>a
  <2>4. {shown', spoiled', tunWanted', granted', late'} \subseteq BOOLEAN
    BY <1>0
  <2>5. /\ authorization' \in {"none", "unauthorized", "authorized"}
        /\ listener' \in [Procs -> {"none", "wanted", "queued", "calling", "ok", "failed"}]
    BY <1>0 DEF ActionsTypeOK
  <2> QED
    BY <1>0, <2>1, <2>2, <2>3, <2>4, <2>5 DEF ActionsTypeOK, Places
<1>2. PlaceInv'
  BY <1>0, <1>a DEF ActionsInv, PlaceInv, Restarts, Quietly, Before, After
<1>3. LineInv'
  <2>1. step[p] \in After => kind[p] # "update" /\ Head(setupQueue) = p
    BY DEF ActionsInv, PlaceInv, LineInv
  <2>2. \A q \in Procs \ {p} : step'[q] \in {"authorizing"} \cup After /\ kind'[q] # "update" =>
                                setupQueue' # <<>> /\ Head(setupQueue') = q
    BY <1>0, <1>a, <2>1 DEF ActionsInv, LineInv
  <2>3. \A q \in Procs : listener'[q] = "calling" => listenerQueue # <<>> /\ Head(listenerQueue) = q
    BY <1>0 DEF ActionsInv, LineInv
  <2> QED
    BY <1>0, <1>a, <2>2, <2>3 DEF LineInv, After
<1>4. RequestInv'
  BY <1>0, <1>a DEF ActionsInv, RequestInv, Pending, Wish
<1>5. JoinedInv'
  BY <1>0, <1>a DEF ActionsInv, JoinedInv
<1>6. CarriedInv'
  <2>1. listener[p] = "failed" /\ p = latest => spoiled
    BY DEF ActionsInv, RequestInv
  <2>2. LookAgain => LookAgain'
    BY <1>0, <1>a DEF LookAgain, After
  <2> QED
    BY <1>0, <1>a, <2>1, <2>2 DEF ActionsInv, CarriedInv, Pending
<1>7. RestartInv'
  BY <1>0, <1>a DEF ActionsInv, RestartInv, After
<1>8. GrantInv'
  <2>1. /\ (step[Worker] \in {"lifecycle", "launching", "off"} => step'[Worker] = step[Worker])
        /\ \A q \in Procs : step[q] = "handoff" => step'[q] = "handoff"
    BY <1>0, <1>a DEF After
  <2> QED
    BY <1>0, <2>1 DEF ActionsInv, GrantInv
<1> QED
  BY <1>1, <1>2, <1>3, <1>4, <1>5, <1>6, <1>7, <1>8 DEF ActionsInv

\* The listener task of a start or a stop is over.
LEMMA RanKeeps ==
  ASSUME ActionsInv, NEW p \in Procs, Ran(p) \/ Stopped(p)
  PROVE  ActionsInv'
<1> USE DEF restartVars, setupVars, coreVars
<1>0. /\ ActionsTypeOK /\ shown \in BOOLEAN /\ asked \in BOOLEAN
      /\ core \in [alive : BOOLEAN, privileged : BOOLEAN, tun : BOOLEAN, listening : BOOLEAN]
  BY Typed DEF ActionsInv
<1>1. /\ listener[p] \in {"ok", "failed"} /\ listener' = [listener EXCEPT ![p] = "none"]
      /\ step[p] \in {"running", "stopping"}
      /\ Finish(p, "yes") \/ Finish(p, "no")
      /\ UNCHANGED <<restartVars, latest, spoiled, listenerQueue, setupVars, coreVars>>
  BY DEF Ran, Stopped
<1>2. shown' \in BOOLEAN /\ (shown' = shown \/ (listener[p] = "failed" /\ p = latest))
  <2>1. Wish(p) \in BOOLEAN
    BY DEF Wish
  <2> QED
    BY <1>0, <2>1 DEF Ran, Stopped, IsCurrent
<1>3. p = Worker => step[p] = "stopping"
  BY <1>1 DEF ActionsInv, PlaceInv
<1>4. listener[p] \notin Pending /\ step[p] \notin Restarts \cup {"queued", "authorizing", "handoff", "joined"}
  BY <1>1 DEF Pending, Restarts
<1>5. /\ setupQueue' \in Seq(Procs) /\ aim' \in [Procs -> BOOLEAN] /\ faults' \in Nat /\ core' = core /\ late' = late
      /\ listener[p] # "calling"
  BY <1>0, <1>1 DEF ActionsTypeOK
<1> QED
  BY <1>0, <1>1, <1>2, <1>3, <1>4, <1>5, FinishKeeps

LEMMA ConfiguredKeeps ==
  ASSUME ActionsInv, NEW p \in Procs, Configured(p)
  PROVE  ActionsInv'
<1> USE ProcsTyped DEF restartVars, requestVars, listenVars
<1>0. /\ ActionsTypeOK /\ step \in [Procs -> Places] /\ aim \in [Procs -> BOOLEAN] /\ latest \in Procs
      /\ core \in [alive : BOOLEAN, privileged : BOOLEAN, tun : BOOLEAN, listening : BOOLEAN]
  BY Typed DEF ActionsInv
<1>1. PICK place \in {"configured", "rejected"} :
        /\ step[p] = "configuring" /\ step' = [step EXCEPT ![p] = place]
        /\ UNCHANGED <<kind, answer, restartVars, requestVars, listenVars, setupQueue, tunWanted,
                       authorization, granted>>
  BY DEF Configured
<1>2. /\ core' \in [alive : BOOLEAN, privileged : BOOLEAN, tun : BOOLEAN, listening : BOOLEAN]
      /\ core'.listening = core.listening /\ core'.privileged = core.privileged
      /\ faults' \in Nat /\ aim' \in [Procs -> BOOLEAN] /\ late' = late
  <2>1. aim[p] \in BOOLEAN /\ faults \in Nat
    BY <1>0 DEF ActionsTypeOK
  <2>2. aim' \in [Procs -> BOOLEAN]
    BY <1>0 DEF Configured
  <2> QED
    BY <1>0, <2>1, <2>2 DEF Configured, CoreAnswers, CoreFails
<1>3. ActionsTypeOK'
  <2>1. step' \in [Procs -> Places]
    BY <1>0, <1>1 DEF Places
  <2> QED
    BY <1>0, <1>1, <1>2, <2>1 DEF ActionsTypeOK, Places
<1>4. PlaceInv'
  BY <1>0, <1>1 DEF ActionsInv, PlaceInv, Restarts, Quietly, Before, After
<1>5. LineInv'
  BY <1>0, <1>1 DEF ActionsInv, LineInv, After
<1>6. RequestInv' /\ JoinedInv'
  BY <1>0, <1>1 DEF ActionsInv, RequestInv, JoinedInv, Pending, Wish
<1>7. CarriedInv'
  BY <1>0, <1>1, <1>2 DEF ActionsInv, CarriedInv, LookAgain
<1>8. RestartInv' /\ GrantInv'
  BY <1>0, <1>1, <1>2 DEF ActionsInv, RestartInv, GrantInv
<1> QED
  BY <1>3, <1>4, <1>5, <1>6, <1>7, <1>8 DEF ActionsInv

\* A setup answers: its caller goes on, or stops what it had started.
LEMMA AnswersKeep ==
  ASSUME ActionsInv, NEW p \in Procs, NEW outcome \in {"none", "yes", "no", "error"}, Answers(p, outcome),
         \/ step[p] \in {"configured", "rejected"} /\ listener[p] \notin {"queued", "calling"}
         \/ /\ step[p] = "told" /\ p \in Calls /\ outcome = answer[p] /\ setupQueue' = setupQueue
            /\ kind[p] \notin {"restart", "update"},
         UNCHANGED <<asked, unserved, status, tunWanted, granted, aim, core, late, faults>>,
         authorization' \in {"none", authorization}, setupQueue' \in Seq(Procs)
  PROVE  ActionsInv'
<1> USE ProcsTyped DEF requestVars
<1>0. /\ ActionsTypeOK /\ step \in [Procs -> Places] /\ kind \in [Procs -> Kinds \cup {"none", "worker"}]
      /\ latest \in Procs /\ listenerQueue \in Seq(Procs)
      /\ listener \in [Procs -> {"none", "wanted", "queued", "calling", "ok", "failed"}]
      /\ shown \in BOOLEAN /\ tunWanted \in BOOLEAN /\ granted \in BOOLEAN
      /\ core \in [alive : BOOLEAN, privileged : BOOLEAN, tun : BOOLEAN, listening : BOOLEAN]
      /\ aim \in [Procs -> BOOLEAN] /\ faults \in Nat
  BY Typed DEF ActionsInv
<1>1. /\ listener[p] \notin {"queued", "calling"} /\ (step[p] # "told" => listener[p] # "wanted")
      /\ step[p] \in {"configured", "rejected", "told"} /\ (p = Worker => step[p] # "told")
  BY <1>0 DEF ActionsInv, PlaceInv, Before, After
<1>2. CASE /\ outcome # "yes" /\ listener[p] # "none" /\ p = latest
           /\ latest' = p /\ shown' = FALSE /\ spoiled' = FALSE
           /\ listener' = [listener EXCEPT ![p] = "queued"] /\ listenerQueue' = Append(listenerQueue, p)
           /\ step' = [step EXCEPT ![p] = "stopping"] /\ UNCHANGED <<answer, kind>>
  <2> USE <1>2
  <2>a. /\ listenerQueue' \in Seq(Procs) /\ listenerQueue' # <<>>
        /\ listenerQueue # <<>> => Head(listenerQueue') = Head(listenerQueue)
    BY <1>0, InLine
  <2>1. ActionsTypeOK'
    <3>1. shown' \in BOOLEAN /\ spoiled' \in BOOLEAN /\ tunWanted' \in BOOLEAN /\ granted' \in BOOLEAN
          /\ late' \in BOOLEAN
      BY <1>0, Typed DEF ActionsInv
    <3>2. step' \in [Procs -> Places]
      BY <1>0 DEF Places
    <3>3. authorization' \in {"none", "unauthorized", "authorized"}
      BY <1>0 DEF ActionsTypeOK
    <3> QED
      BY <1>0, <2>a, <3>1, <3>2, <3>3 DEF ActionsTypeOK, Places
  <2>2. PlaceInv'
    <3>1. kind[p] \notin {"restart", "update"}
      BY DEF ActionsInv, PlaceInv
    <3> QED
      BY <1>0, <1>1, <3>1 DEF ActionsInv, PlaceInv, Restarts, Quietly, Before, After
  <2>3. LineInv'
    <3>1. step[p] \in After => kind[p] # "update" /\ Head(setupQueue) = p
      BY DEF ActionsInv, PlaceInv, LineInv
    <3>2. \A q \in Procs \ {p} : step'[q] \in {"authorizing"} \cup After /\ kind'[q] # "update" =>
                                  setupQueue' # <<>> /\ Head(setupQueue') = q
      BY <1>0, <3>1 DEF ActionsInv, LineInv, After
    <3> QED
      BY <1>0, <1>1, <2>a, <3>2 DEF ActionsInv, LineInv, After
  <2>4. RequestInv' /\ JoinedInv'
    BY <1>0, <1>1 DEF ActionsInv, RequestInv, JoinedInv, Pending, Wish
  <2>5. CarriedInv'
    BY <1>0 DEF CarriedInv, Pending
  <2>6. RestartInv' /\ GrantInv'
    BY <1>0, <1>1 DEF ActionsInv, RestartInv, GrantInv
  <2> QED
    BY <2>1, <2>2, <2>3, <2>4, <2>5, <2>6 DEF ActionsInv
<1>3. CASE /\ outcome = "yes" \/ listener[p] = "none" \/ p # latest
           /\ Finish(p, outcome) /\ listener' = [listener EXCEPT ![p] = "none"]
           /\ UNCHANGED <<requestVars, listenerQueue>>
  <2>1. listener[p] \notin Pending \/ p # latest
    BY <1>1, <1>3 DEF ActionsInv, JoinedInv, Pending
  <2>2. /\ step[p] \notin Restarts \cup {"queued", "authorizing", "handoff", "joined"}
        /\ p = Worker => step[p] \in After \cup {"stopping"}
        /\ setupQueue' = setupQueue \/ step[p] \in After
    BY <1>1 DEF Restarts, After
  <2>3. /\ UNCHANGED <<asked, unserved, status, latest, spoiled, listenerQueue, granted, tunWanted, late>>
        /\ shown' = shown /\ aim' = aim /\ faults' = faults /\ core' = core
        /\ Finish(p, outcome) /\ listener' = [listener EXCEPT ![p] = "none"] /\ listener[p] # "calling"
    BY <1>1, <1>3
  <2>4. /\ shown' \in BOOLEAN /\ aim' \in [Procs -> BOOLEAN] /\ faults' \in Nat
        /\ core' \in [alive : BOOLEAN, privileged : BOOLEAN, tun : BOOLEAN, listening : BOOLEAN]
        /\ core'.listening = core.listening /\ core'.privileged = core.privileged
    BY <1>0, <2>3
  <2> QED
    BY <2>1, <2>2, <2>3, <2>4, FinishKeeps
<1> QED
  BY <1>2, <1>3 DEF Answers, Request, ListenInLine, IsCurrent

LEMMA SetUpKeeps ==
  ASSUME ActionsInv, NEW p \in Procs, SetUp(p)
  PROVE  ActionsInv'
<1> USE DEF restartVars, coreVars
<1>1. /\ setupQueue \in Seq(Procs) /\ setupQueue # <<>> /\ kind[p] # "update"
  BY Typed DEF ActionsInv, SetUp, PlaceInv, LineInv, After
<1>2. setupQueue' \in Seq(Procs)
  BY <1>1, OutOfLine DEF SetUp, LeaveSetup
<1> DEFINE outcome == IF step[p] = "configured" /\ listener[p] # "failed" THEN "yes" ELSE "no"
<1>3. /\ Answers(p, outcome) /\ step[p] \in {"configured", "rejected"} /\ listener[p] \notin {"queued", "calling"}
      /\ UNCHANGED <<asked, unserved, status, tunWanted, granted, aim, core, late, faults>>
      /\ authorization' = authorization /\ outcome \in {"none", "yes", "no", "error"}
  BY DEF SetUp
<1> QED
  BY <1>2, <1>3, AnswersKeep

LEMMA ToldKeeps ==
  ASSUME ActionsInv, NEW p \in Calls, Told(p)
  PROVE  ActionsInv'
<1> USE ProcsTyped DEF restartVars, coreVars, requestVars, listenVars
<1>0. /\ ActionsTypeOK /\ setupQueue \in Seq(Procs) /\ answer[p] \in {"none", "yes", "no", "error"}
      /\ listener \in [Procs -> {"none", "wanted", "queued", "calling", "ok", "failed"}]
      /\ core \in [alive : BOOLEAN, privileged : BOOLEAN, tun : BOOLEAN, listening : BOOLEAN]
      /\ aim \in [Procs -> BOOLEAN] /\ faults \in Nat /\ shown \in BOOLEAN
  BY Typed DEF ActionsInv
<1>1. /\ step[p] = "told" /\ setupQueue' = setupQueue /\ authorization' \in {"none", authorization}
      /\ UNCHANGED <<asked, unserved, status, tunWanted, granted, aim, core, late, faults>>
  BY DEF Told
<1>2. CASE kind[p] \in {"restart", "update"}
  <2>1. listener[p] = "none" /\ [listener EXCEPT ![p] = "none"] = listener
    BY <1>0, <1>2 DEF ActionsInv, PlaceInv
  <2>2. Finish(p, answer[p]) /\ UNCHANGED <<requestVars, listenVars>>
    BY <1>2 DEF Told
  <2>3. listener[p] \notin Pending /\ step[p] \notin Restarts \cup {"queued", "authorizing", "handoff", "joined"}
    BY <1>1, <2>1 DEF Pending, Restarts
  <2> QED
    BY <1>0, <1>1, <2>1, <2>2, <2>3, FinishKeeps
<1>3. CASE kind[p] \notin {"restart", "update"}
  <2>1. Answers(p, answer[p])
    BY <1>3 DEF Told
  <2> QED
    BY <1>0, <1>1, <1>3, <2>1, AnswersKeep
<1> QED
  BY <1>2, <1>3

LEMMA UpdatedKeeps ==
  ASSUME ActionsInv, NEW p \in Calls, Updated(p)
  PROVE  ActionsInv'
<1> USE ProcsTyped DEF Updated, restartVars, requestVars, listenVars, CoreAnswers, CoreFails
<1>0. /\ ActionsTypeOK /\ aim \in [Procs -> BOOLEAN] /\ setupQueue \in Seq(Procs) /\ faults \in Nat
      /\ listener \in [Procs -> {"none", "wanted", "queued", "calling", "ok", "failed"}] /\ shown \in BOOLEAN
      /\ core \in [alive : BOOLEAN, privileged : BOOLEAN, tun : BOOLEAN, listening : BOOLEAN]
  BY Typed DEF ActionsInv
<1>1. listener[p] = "none" /\ [listener EXCEPT ![p] = "none"] = listener
  BY <1>0 DEF ActionsInv, PlaceInv, Quietly
<1>2. /\ core' \in [alive : BOOLEAN, privileged : BOOLEAN, tun : BOOLEAN, listening : BOOLEAN]
      /\ core'.listening = core.listening /\ core'.privileged = core.privileged
      /\ faults' \in Nat
  <2>1. aim[p] \in BOOLEAN
    BY <1>0
  <2> QED
    BY <1>0, <2>1
<1>3. aim' \in [Procs -> BOOLEAN]
  BY <1>0
<1>4. listener[p] \notin Pending /\ step[p] \notin Restarts \cup {"queued", "authorizing", "handoff", "joined"}
  BY <1>1 DEF Pending, Restarts
<1> QED
  BY <1>0, <1>1, <1>2, <1>3, <1>4, FinishKeeps

-----------------------------------------------------------------------------
(* The app's actions: the theorems                                          *)

LEMMA ActionsStep == ActionsInv /\ [ActionsNext]_actionVars => ActionsInv'
<1> SUFFICES ASSUME ActionsInv, [ActionsNext]_actionVars PROVE ActionsInv'
  OBVIOUS
<1>1. ASSUME NEW p \in Procs, Await(p) PROVE ActionsInv'
  BY <1>1, AdminKeeps, AskKeeps, GrantedKeeps, RanKeeps, ConfiguredKeeps, SetUpKeeps, ToldKeeps,
     UpdatedKeeps DEF Await
<1>2. CASE Restarting
  BY <1>2, StopKeeps, LaunchKeeps, InitCoreKeeps, LoopKeeps DEF Restarting
<1>3. CASE UNCHANGED actionVars
  <2> USE <1>3 DEF actionVars, restartVars, requestVars, listenVars, setupVars, coreVars
  <2>1. ActionsTypeOK' /\ PlaceInv' /\ LineInv'
    BY DEF ActionsInv, ActionsTypeOK, PlaceInv, LineInv
  <2>2. RequestInv' /\ JoinedInv' /\ CarriedInv' /\ RestartInv' /\ GrantInv'
    BY DEF ActionsInv, RequestInv, JoinedInv, CarriedInv, RestartInv, GrantInv, LookAgain, Wish
  <2> QED
    BY <2>1, <2>2 DEF ActionsInv
<1> QED
  BY <1>1, <1>2, <1>3, CallKeeps, TellCoreKeeps, CoreToldKeeps, WantTunKeeps DEF ActionsNext

\* Requests, restarts, setups and the question for TUN fit together in every state.
THEOREM ActionsInvariance == ActionsSpec => []ActionsInv
  BY ActionsInitially, ActionsStep, PTL DEF ActionsSpec

THEOREM ActionsTypeCorrect == ActionsSpec => []ActionsTypeOK
<1>1. ActionsInv => ActionsTypeOK
  BY DEF ActionsInv
<1> QED
  BY <1>1, ActionsInvariance, PTL

\* Once nothing is under way, the app shows as running exactly a Core that listens
\* (setup.dart, setRunning and _rollbackRunning; core.dart, _runRestartWorker).
THEOREM ShownIsCarriedOut == ActionsSpec => []RunningIsTrue
<1>1. ActionsInv => RunningIsTrue
  <2> SUFFICES ASSUME ActionsInv, Settled, ~spoiled PROVE shown = core.listening
    BY DEF RunningIsTrue
  <2>1. latest \in Procs
    BY DEF ActionsInv, ActionsTypeOK
  <2>2. step[latest] \in Restarts \cup Quietly
    BY <2>1, ProcsTyped DEF Settled, Restarts, Quietly
  <2>3. listener[latest] = "none"
    BY <2>1, <2>2 DEF ActionsInv, PlaceInv
  <2>4. ~LookAgain
    BY DEF Settled, LookAgain
  <2> QED
    BY <2>3, <2>4 DEF ActionsInv, CarriedInv, Pending
<1> QED
  BY <1>1, ActionsInvariance, PTL

\* Authorized TUN has a Core with the rights for it, once nothing is under way, unless the
\* grant's restart joined one past its launch (setup.dart, requestAdmin and
\* _restartCoreAfterAuthorization; core.dart, restartCore).
THEOREM AuthorizationIsGood == ActionsSpec => []AuthorizedCoreIsPrivileged
<1>1. ActionsInv => AuthorizedCoreIsPrivileged
  BY ProcsTyped DEF ActionsInv, GrantInv, Settled, GrantRestartsCore, AuthorizedCoreIsPrivileged
<1> QED
  BY <1>1, ActionsInvariance, PTL

\* A restart that is answered well has set the Core up after it was asked for
\* (core.dart, restartCore).
THEOREM RestartsCoverCallers == ActionsSpec => RestartCoversCaller
<1> DEFINE Covered == \A p \in Procs :
      step[p] = "joined" /\ step'[p] = "told" /\ answer'[p] = "yes" => p \notin unserved
<1>1. ActionsInv /\ [ActionsNext]_actionVars => [Covered]_actionVars
  <2> SUFFICES ASSUME ActionsInv, ActionsNext, NEW p \in Procs,
                      step[p] = "joined", step'[p] = "told", answer'[p] = "yes"
               PROVE  p \notin unserved
    OBVIOUS
  <2> USE ProcsTyped
  <2>0. step \in [Procs -> Places]
    BY Typed DEF ActionsInv
  <2>1. ~(\E q \in Procs : Await(q))
    <3> SUFFICES ASSUME NEW q \in Procs, Await(q) PROVE FALSE
      OBVIOUS
    <3>1. step'[p] = step[p] \/ step'[p] # "told"
      BY <2>0 DEF Await, NoQuestion, Ask, Answered, Granted, HandOff, RestartCore, Continue, Grant, Ran,
            Finish, Configured, SetUp, Answers, Stopped, Told, Updated
    <3> QED
      BY <3>1
  <2>2. ~(\E c \in Calls, k \in Kinds : Call(c, k))
    BY <2>0 DEF Call, RestartCore
  <2>3. ~TellCore /\ ~CoreTold /\ ~WantTun /\ ~Stop
    BY <2>0 DEF TellCore, CoreTold, WantTun, Stop
  <2>4. CASE Launch \/ InitCore
    <3>1. answer'[p] \in {"no", "error"}
      BY <2>0, <2>4 DEF Launch, InitCore, WorkerEnds
    <3> QED
      BY <3>1
  <2>5. CASE Loop
    <3>1. ~asked /\ step[Worker] = "loop"
      BY <2>0, <2>5 DEF Loop, RoundIf
    <3> QED
      BY <3>1 DEF ActionsInv, RestartInv
  <2> QED
    BY <2>1, <2>2, <2>3, <2>4, <2>5 DEF ActionsNext, Restarting
<1> QED
  BY <1>1, ActionsInvariance, PTL DEF ActionsSpec, RestartCoversCaller

-----------------------------------------------------------------------------
(* Hot keys: the inductive invariant                                        *)

\* Each key of `map` has the action that one of `specs` gives it.
NamesOf(map, specs) ==
  \A h \in DOMAIN map : \E i \in DOMAIN specs : h \in ToHotKey(specs[i]) /\ map[h] = specs[i].id

\* A spec has its own action in `map`, or was reported as a failure.
Served(spec, map) ==
  spec \in failures \/ \E h \in ToHotKey(spec) \cap DOMAIN map : map[h] = spec.id

\* One job at a time, for the settings that the chain asks for.
CallInv ==
  /\ call # "idle" => updates # <<>>
  /\ job # "none" => call \in {"post", "answer"} /\ jobs = <<>> /\ (threaded => loop = "drain")
  /\ jobs # <<>> => jobs = <<Head(updates)>> /\ call \in {"post", "answer"}
  /\ loop = "gone" => jobs = <<>>
  /\ ~threaded => loop = "none" /\ call \in {"idle", "answer"}

\* The last settings asked for are those of the app.
WantedInv ==
  /\ updates # <<>> => updates[Len(updates)] = wanted
  /\ updates = <<>> /\ result = "ok" => applied = wanted

\* A job that has begun: the specs it has tried are served, by keys the system has.
JobInv ==
  /\ job = "unregister" =>
       /\ todo = Head(updates) /\ fresh = <<>> /\ failures = {}
       /\ registered \subseteq system /\ system \subseteq registered \cup stuck
  /\ job = "register" =>
       /\ manager /\ NamesOf(fresh, Head(updates))
       /\ DOMAIN fresh \subseteq system /\ system \subseteq DOMAIN fresh \cup stuck
       /\ Len(todo) <= Len(Head(updates))
       /\ \A i \in 1..Len(todo) : todo[i] = Head(updates)[Len(Head(updates)) - Len(todo) + i]
       /\ \A i \in 1..(Len(Head(updates)) - Len(todo)) : Served(Head(updates)[i], fresh)

\* Between two jobs, IDS names what the last one registered.
IdsInv ==
  /\ NamesOf(ids, applied)
  /\ ~manager /\ loop # "gone" => ids = <<>> /\ registered = {} /\ system = {} /\ applied = <<>>
  /\ job = "none" /\ loop # "gone" =>
       /\ DOMAIN ids = registered
       /\ registered \subseteq system /\ system \subseteq registered \cup stuck
       /\ \A i \in DOMAIN applied : Served(applied[i], ids)

HotkeyInv == TypeOK /\ CallInv /\ WantedInv /\ JobInv /\ IdsInv

\* Sequences: the first and the last element, and the rest.
LEMMA Ends ==
  ASSUME NEW S, NEW s \in Seq(S), s # <<>>
  PROVE  /\ Head(s) \in S /\ Tail(s) \in Seq(S) /\ Head(s) = s[1] /\ Len(s) \in Nat \ {0}
         /\ Len(Tail(s)) = Len(s) - 1 /\ \A i \in 1..Len(Tail(s)) : Tail(s)[i] = s[i + 1]
  OBVIOUS

LEMMA Append1 ==
  ASSUME NEW S, NEW s \in Seq(S), NEW e \in S
  PROVE  /\ Append(s, e) \in Seq(S) /\ Append(s, e) # <<>>
         /\ Append(s, e)[Len(Append(s, e))] = e
         /\ s # <<>> => Head(Append(s, e)) = Head(s)
         /\ s = <<>> => Append(s, e) = <<e>>
         /\ Len(Append(s, e)) = Len(s) + 1
<1>1. Append(s, e) \in Seq(S) /\ Len(Append(s, e)) = Len(s) + 1 /\ Len(s) \in Nat
  OBVIOUS
<1>2. Append(s, e)[Len(s) + 1] = e /\ Append(s, e) # <<>>
  BY <1>1
<1>3. s # <<>> => Head(Append(s, e)) = Head(s)
  OBVIOUS
<1>4. s = <<>> => Append(s, e) = <<e>>
  OBVIOUS
<1> QED
  BY <1>1, <1>2, <1>3, <1>4

LEMMA HotkeyInitially == Init => HotkeyInv
<1> SUFFICES ASSUME Init PROVE HotkeyInv
  OBVIOUS
<1>0. /\ \A S : <<>> \in Seq(S)
      /\ DOMAIN fresh = {} /\ DOMAIN ids = {}
  BY DEF Init
<1>1. TypeOK
  <2>1. changes \in 0..MaxChanges /\ presses \in 0..MaxPresses
    BY HotkeyAssumption DEF Init
  <2>2. manager \in BOOLEAN /\ threaded \in BOOLEAN
    BY DEF Init
  <2> QED
    BY <1>0, <2>1, <2>2 DEF Init, TypeOK
<1>2. CallInv /\ WantedInv /\ JobInv
  BY DEF Init, CallInv, WantedInv, JobInv
<1>3. IdsInv
  BY DEF Init, IdsInv, NamesOf, Served
<1> QED
  BY <1>1, <1>2, <1>3 DEF HotkeyInv

\* A list of settings, and its keys.
LEMMA SettingsTyped ==
  /\ \A s \in Settings : s \in Seq(Specs) /\ \A i \in DOMAIN s : s[i] \in Specs
  /\ \A spec \in Specs : ToHotKey(spec) \subseteq HotKeys
<1>1. \A s \in Settings : s \in Seq(Specs) /\ \A i \in DOMAIN s : s[i] \in Specs
  BY SettingsAssumption DEF Specs
<1>2. \A spec \in Specs : ToHotKey(spec) \subseteq HotKeys
  <2> SUFFICES ASSUME NEW spec \in Specs PROVE ToHotKey(spec) \subseteq HotKeys
    OBVIOUS
  <2>1. PICK s \in Settings : \E i \in DOMAIN s : spec = s[i]
    BY DEF Specs
  <2>2. PICK i \in DOMAIN s : spec = s[i]
    BY <2>1
  <2>3. ToHotKey(spec) \in {ToHotKey(s[j]) : j \in DOMAIN s}
    BY <2>2
  <2> QED
    BY <2>3 DEF HotKeys
<1> QED
  BY <1>1, <1>2

\* What registers nothing and asks for no other settings keeps the parts about the jobs.
LEMMA RegistryKept ==
  ASSUME HotkeyInv, UNCHANGED registryVars, loop' = "gone" <=> loop = "gone",
         job # "none" => Head(updates') = Head(updates)
  PROVE  JobInv' /\ IdsInv'
<1>1. JobInv'
  BY DEF HotkeyInv, JobInv, registryVars, NamesOf, Served
<1>2. IdsInv'
  BY DEF HotkeyInv, IdsInv, registryVars, NamesOf, Served
<1> QED
  BY <1>1, <1>2

-----------------------------------------------------------------------------
(* Hot keys: every step keeps it                                            *)

LEMMA ChangeKeeps ==
  ASSUME HotkeyInv, NEW s \in Settings, Change(s)
  PROVE  HotkeyInv'
<1> USE DEF Change, appVars, threadVars, pressVars
<1>0. TypeOK /\ updates \in Seq(Settings)
  BY DEF HotkeyInv, TypeOK
<1>1. /\ updates' \in Seq(Settings) /\ updates' # <<>> /\ updates'[Len(updates')] = wanted'
      /\ updates # <<>> => Head(updates') = Head(updates)
  BY <1>0, Append1
<1>2. TypeOK'
  BY <1>0, <1>1, HotkeyAssumption DEF TypeOK, registryVars
<1>3. CallInv'
  BY <1>1 DEF HotkeyInv, CallInv, registryVars
<1>4. WantedInv'
  BY <1>1 DEF WantedInv
<1>5. job # "none" => Head(updates') = Head(updates)
  BY <1>1 DEF HotkeyInv, CallInv
<1>6. JobInv' /\ IdsInv'
  BY <1>5, RegistryKept
<1> QED
  BY <1>2, <1>3, <1>4, <1>6 DEF HotkeyInv

LEMMA UpdateKeeps ==
  ASSUME HotkeyInv, Update
  PROVE  HotkeyInv'
<1> USE DEF Update, threadVars, pressVars
<1>0. TypeOK /\ updates \in Seq(Settings) /\ updates # <<>> /\ Head(updates) \in Settings
  BY Ends DEF HotkeyInv, TypeOK
<1>1. job = "none" /\ jobs = <<>> /\ (loop # "gone" \/ threaded)
  BY DEF HotkeyInv, CallInv
<1>2. CASE Locked
  <2> USE <1>2 DEF Locked, Begin
  <2>1. TypeOK'
    BY <1>0, SettingsTyped DEF TypeOK
  <2>2. CallInv'
    BY <1>0 DEF HotkeyInv, CallInv
  <2>3. WantedInv'
    BY DEF HotkeyInv, WantedInv
  <2>4. JobInv'
    BY <1>1 DEF HotkeyInv, JobInv, IdsInv
  <2>5. IdsInv'
    BY DEF HotkeyInv, IdsInv, NamesOf
  <2> QED
    BY <2>1, <2>2, <2>3, <2>4, <2>5 DEF HotkeyInv
<1>3. CASE AskOwner
  <2> USE <1>3 DEF AskOwner
  <2>1. TypeOK'
    BY <1>0 DEF TypeOK, registryVars
  <2>2. CallInv' /\ WantedInv'
    BY <1>0 DEF HotkeyInv, CallInv, WantedInv, registryVars
  <2>3. JobInv' /\ IdsInv'
    BY RegistryKept
  <2> QED
    BY <2>1, <2>2, <2>3 DEF HotkeyInv
<1> QED
  BY <1>2, <1>3

\* The call ends with an error: nothing else has changed.
LEMMA ErrorKeeps ==
  ASSUME HotkeyInv, call # "idle", job = "none", jobs = <<>>, Return("error"),
         UNCHANGED <<threaded, threadVars, registryVars, pressVars>>
  PROVE  HotkeyInv'
<1> USE DEF Return, threadVars, pressVars
<1>0. TypeOK /\ updates \in Seq(Settings) /\ updates # <<>>
  BY DEF HotkeyInv, TypeOK, CallInv
<1>1. Tail(updates) \in Seq(Settings) /\ Len(Tail(updates)) = Len(updates) - 1
  BY <1>0, Ends
<1>2. TypeOK'
  BY <1>0, <1>1 DEF TypeOK, registryVars
<1>3. CallInv'
  BY DEF HotkeyInv, CallInv, registryVars
<1>4. WantedInv'
  <2>1. updates' # <<>> => updates'[Len(updates')] = updates[Len(updates)]
    BY <1>0
  <2> QED
    BY <2>1, <1>0 DEF HotkeyInv, WantedInv
<1>5. JobInv' /\ IdsInv'
  BY RegistryKept
<1> QED
  BY <1>2, <1>3, <1>4, <1>5 DEF HotkeyInv

LEMMA CallerKeeps ==
  ASSUME HotkeyInv, Caller
  PROVE  HotkeyInv'
<1> USE DEF threadVars, pressVars
<1>0. TypeOK /\ updates \in Seq(Settings) /\ (call # "idle" => updates # <<>> /\ Head(updates) \in Settings)
  BY Ends DEF HotkeyInv, TypeOK, CallInv
<1>1. CASE GetOwner
  <2>1. TypeOK'
    BY <1>0, <1>1 DEF GetOwner, TypeOK, registryVars
  <2>2. CallInv' /\ WantedInv'
    BY <1>0, <1>1 DEF GetOwner, HotkeyInv, CallInv, WantedInv, registryVars
  <2>3. JobInv' /\ IdsInv'
    BY <1>1, RegistryKept DEF GetOwner
  <2> QED
    BY <2>1, <2>2, <2>3 DEF HotkeyInv
<1>2. CASE NoOwner
  BY <1>2, ErrorKeeps DEF NoOwner, HotkeyInv, CallInv
<1>3. CASE SendJob
  <2>0. jobs = <<>> /\ job = "none"
    BY <1>3 DEF SendJob, HotkeyInv, CallInv
  <2>1. jobs' = <<Head(updates)>> /\ jobs' \in Seq(Settings)
    BY <1>0, <1>3, <2>0, Append1 DEF SendJob, TypeOK
  <2>2. TypeOK'
    BY <1>0, <1>3, <2>1 DEF SendJob, TypeOK, registryVars
  <2>3. CallInv' /\ WantedInv'
    BY <1>0, <1>3, <2>0, <2>1 DEF SendJob, HotkeyInv, CallInv, WantedInv, registryVars
  <2>4. JobInv' /\ IdsInv'
    BY <1>3, RegistryKept DEF SendJob
  <2> QED
    BY <2>2, <2>3, <2>4 DEF HotkeyInv
<1>4. CASE PostMessage
  <2>1. messages' \in Seq(HotKeys \cup {Wake})
    BY <1>0, <1>4, Append1 DEF PostMessage, TypeOK
  <2>2. TypeOK'
    BY <1>0, <1>4, <2>1 DEF PostMessage, TypeOK, registryVars
  <2>3. CallInv' /\ WantedInv'
    BY <1>0, <1>4 DEF PostMessage, HotkeyInv, CallInv, WantedInv, registryVars
  <2>4. JobInv' /\ IdsInv'
    BY <1>4, RegistryKept DEF PostMessage
  <2> QED
    BY <2>2, <2>3, <2>4 DEF HotkeyInv
<1>5. CASE ThreadGone
  BY <1>5, ErrorKeeps DEF ThreadGone, HotkeyInv, CallInv
<1> QED
  BY <1>1, <1>2, <1>3, <1>4, <1>5 DEF Caller

LEMMA ThreadKeeps ==
  ASSUME HotkeyInv, Thread
  PROVE  HotkeyInv'
<1> USE DEF appVars, pressVars
<1>0. TypeOK /\ jobs \in Seq(Settings) /\ messages \in Seq(HotKeys \cup {Wake}) /\ events \in Seq(HotKeys)
  BY DEF HotkeyInv, TypeOK
<1>1. CASE Ready
  <2>1. TypeOK'
    BY <1>0, <1>1 DEF Ready, TypeOK, registryVars
  <2>2. CallInv' /\ WantedInv'
    BY <1>1 DEF Ready, HotkeyInv, CallInv, WantedInv, registryVars
  <2>3. JobInv' /\ IdsInv'
    BY <1>1, RegistryKept DEF Ready
  <2> QED
    BY <2>1, <2>2, <2>3 DEF HotkeyInv
<1>2. CASE Drain /\ jobs # <<>>
  <2> USE <1>2 DEF Drain, Begin
  <2>0. /\ jobs = <<Head(updates)>> /\ Head(jobs) = Head(updates) /\ Tail(jobs) = <<>>
        /\ Head(jobs) \in Settings /\ call \in {"post", "answer"} /\ updates # <<>>
    BY <1>0, Ends DEF HotkeyInv, CallInv
  <2>1. TypeOK'
    BY <1>0, <2>0, SettingsTyped DEF TypeOK
  <2>2. CallInv' /\ WantedInv'
    BY <2>0 DEF HotkeyInv, CallInv, WantedInv
  <2>3. JobInv'
    BY <2>0 DEF HotkeyInv, JobInv, IdsInv
  <2>4. IdsInv'
    BY DEF HotkeyInv, IdsInv, NamesOf
  <2> QED
    BY <2>1, <2>2, <2>3, <2>4 DEF HotkeyInv
<1>3. CASE Drain /\ jobs = <<>>
  <2>1. TypeOK'
    BY <1>0, <1>3 DEF Drain, TypeOK, registryVars
  <2>2. CallInv' /\ WantedInv'
    BY <1>3 DEF Drain, HotkeyInv, CallInv, WantedInv, registryVars
  <2>3. JobInv' /\ IdsInv'
    BY <1>3, RegistryKept DEF Drain
  <2> QED
    BY <2>1, <2>2, <2>3 DEF HotkeyInv
<1>4. CASE Dispatch
  <2>0. /\ Head(messages) \in HotKeys \cup {Wake} /\ Tail(messages) \in Seq(HotKeys \cup {Wake})
    BY <1>0, <1>4, Ends DEF Dispatch
  <2>1. events' \in Seq(HotKeys)
    BY <1>0, <1>4, <2>0, Append1 DEF Dispatch
  <2>2. TypeOK'
    BY <1>0, <1>4, <2>0, <2>1 DEF Dispatch, TypeOK, registryVars
  <2>3. CallInv' /\ WantedInv'
    BY <1>4 DEF Dispatch, HotkeyInv, CallInv, WantedInv, registryVars
  <2>4. JobInv' /\ IdsInv'
    BY <1>4, RegistryKept DEF Dispatch
  <2> QED
    BY <2>2, <2>3, <2>4 DEF HotkeyInv
<1> QED
  BY <1>1, <1>2, <1>3, <1>4 DEF Thread

LEMMA LoopEndsKeeps ==
  ASSUME HotkeyInv, LoopEnds
  PROVE  HotkeyInv'
<1> USE DEF LoopEnds, appVars, pressVars
<1>0. job = "none"
  BY DEF HotkeyInv, CallInv
<1>1. TypeOK'
  <2>1. jobs' \in Seq(Settings) /\ messages' \in Seq(HotKeys \cup {Wake})
    OBVIOUS
  <2>2. manager' \in BOOLEAN
    OBVIOUS
  <2> QED
    BY <2>1, <2>2 DEF HotkeyInv, TypeOK
<1>2. CallInv' /\ WantedInv'
  BY <1>0 DEF HotkeyInv, CallInv, WantedInv
<1>3. JobInv' /\ IdsInv'
  BY <1>0 DEF HotkeyInv, JobInv, IdsInv, NamesOf
<1> QED
  BY <1>1, <1>2, <1>3 DEF HotkeyInv

LEMMA NoManagerKeeps ==
  ASSUME HotkeyInv, NoManager
  PROVE  HotkeyInv'
<1> USE DEF NoManager, Return, threadVars, pressVars
<1>0. /\ TypeOK /\ updates \in Seq(Settings) /\ updates # <<>> /\ loop # "gone" /\ jobs = <<>>
      /\ ids = <<>> /\ registered = {} /\ system = {} /\ applied = <<>>
  BY DEF HotkeyInv, TypeOK, CallInv, IdsInv
<1>1. /\ Tail(updates) \in Seq(Settings)
      /\ updates' # <<>> => updates'[Len(updates')] = updates[Len(updates)]
  BY <1>0
<1>2. TypeOK'
  BY <1>0, <1>1 DEF TypeOK
<1>3. CallInv' /\ WantedInv'
  BY <1>0, <1>1 DEF HotkeyInv, CallInv, WantedInv
<1>4. JobInv'
  BY DEF JobInv
<1>5. IdsInv'
  BY <1>0 DEF IdsInv, NamesOf
<1> QED
  BY <1>2, <1>3, <1>4, <1>5 DEF HotkeyInv

LEMMA UnregisterAllKeeps ==
  ASSUME HotkeyInv, UnregisterAll
  PROVE  HotkeyInv'
<1> USE DEF UnregisterAll, appVars, threadVars, pressVars
<1>0. PICK kept \in SUBSET registered :
        system' = (system \ registered) \cup kept /\ stuck' = stuck \cup kept
  OBVIOUS
<1>1. TypeOK'
  BY <1>0 DEF HotkeyInv, TypeOK
<1>2. CallInv' /\ WantedInv'
  BY DEF HotkeyInv, CallInv, WantedInv
<1>3. JobInv'
  <2>1. todo' = Head(updates') /\ fresh' = <<>> /\ DOMAIN fresh' = {} /\ updates' = updates /\ job' = "register"
    BY DEF HotkeyInv, JobInv
  <2>2. DOMAIN fresh' \subseteq system' /\ system' \subseteq DOMAIN fresh' \cup stuck'
    BY <1>0, <2>1 DEF HotkeyInv, JobInv
  <2>3. NamesOf(fresh', Head(updates'))
    BY <2>1 DEF NamesOf
  <2>4. Len(todo') \in Nat
    BY <1>1 DEF TypeOK
  <2>5. /\ Len(todo') <= Len(Head(updates'))
        /\ \A i \in 1..Len(todo') : todo'[i] = Head(updates')[Len(Head(updates')) - Len(todo') + i]
        /\ \A i \in 1..(Len(Head(updates')) - Len(todo')) : FALSE
    BY <2>1, <2>4
  <2> QED
    BY <2>1, <2>2, <2>3, <2>5 DEF JobInv
<1>4. IdsInv'
  BY DEF HotkeyInv, IdsInv, NamesOf
<1> QED
  BY <1>1, <1>2, <1>3, <1>4 DEF HotkeyInv

LEMMA RegisterNextKeeps ==
  ASSUME HotkeyInv, RegisterNext
  PROVE  HotkeyInv'
<1> USE DEF RegisterNext, appVars, threadVars, pressVars
<1> DEFINE list == Head(updates)
           spec == Head(todo)
           n == Len(list) - Len(todo)
<1>0. /\ TypeOK /\ todo \in Seq(Specs) /\ todo # <<>> /\ updates # <<>> /\ updates \in Seq(Settings)
      /\ updates' = updates /\ todo' = Tail(todo) /\ job' = "register"
  BY DEF HotkeyInv, TypeOK, CallInv
<1>1. /\ spec \in Specs /\ Tail(todo) \in Seq(Specs) /\ spec = todo[1] /\ Len(todo) \in Nat \ {0}
      /\ Len(todo') = Len(todo) - 1 /\ \A i \in 1..Len(todo') : todo'[i] = todo[i + 1]
  BY <1>0, Ends
<1>2. /\ list \in Settings /\ Len(list) \in Nat /\ list \in Seq(Specs)
  BY <1>0, Ends, SettingsTyped
<1>3. /\ n \in Nat /\ n + 1 \in DOMAIN list /\ spec = list[n + 1]
      /\ NamesOf(fresh, list) /\ DOMAIN fresh \subseteq system /\ system \subseteq DOMAIN fresh \cup stuck
      /\ \A i \in 1..Len(todo) : todo[i] = list[n + i]
      /\ \A i \in 1..n : Served(list[i], fresh)
  BY <1>1, <1>2 DEF HotkeyInv, JobInv
<1>4. /\ Len(todo') <= Len(list) /\ Len(list) - Len(todo') = n + 1
      /\ \A i \in 1..Len(todo') : todo'[i] = list[(n + 1) + i]
  BY <1>1, <1>2, <1>3
<1> DEFINE Goal == /\ TypeOK' /\ NamesOf(fresh', list) /\ DOMAIN fresh' \subseteq system'
                   /\ system' \subseteq DOMAIN fresh' \cup stuck'
                   /\ \A i \in 1..(n + 1) : Served(list[i], fresh)'
<1>5. Goal
  <2>1. ASSUME NEW h \in ToHotKey(spec) \ system,
               system' = system \cup {h}, fresh' = WithKey(fresh, h, spec.id), UNCHANGED failures
        PROVE  Goal
    <3>1. /\ DOMAIN fresh' = DOMAIN fresh \cup {h} /\ fresh'[h] = spec.id /\ h \notin DOMAIN fresh
          /\ \A g \in DOMAIN fresh : fresh'[g] = fresh[g]
      BY <2>1, <1>3 DEF WithKey
    <3>2. TypeOK'
      <4>1. ToHotKey(spec) \subseteq HotKeys
        BY <1>1, SettingsTyped
      <4> QED
        BY <2>1, <3>1, <4>1, <1>0, <1>1 DEF TypeOK
    <3>3. NamesOf(fresh', list)
      BY <2>1, <3>1, <1>3 DEF NamesOf
    <3>4. \A i \in 1..(n + 1) : Served(list[i], fresh)'
      <4> SUFFICES ASSUME NEW i \in 1..(n + 1) PROVE Served(list[i], fresh)'
        OBVIOUS
      <4>1. list' = list
        BY <1>0
      <4>2. CASE i = n + 1
        BY <2>1, <3>1, <1>3, <4>1, <4>2 DEF Served
      <4>3. CASE i # n + 1
        <5>0. n \in Nat
          BY <1>3
        <5> HIDE DEF n
        <5>1. i \in 1..n
          BY <4>3, <5>0
        <5>2. Served(list[i], fresh)
          BY <5>1, <1>3
        <5> QED
          BY <5>2, <2>1, <3>1, <4>1 DEF Served
      <4> QED
        BY <4>2, <4>3
    <3>5. DOMAIN fresh' \subseteq system' /\ system' \subseteq DOMAIN fresh' \cup stuck'
      BY <2>1, <3>1, <1>3
    <3> QED
      BY <3>2, <3>3, <3>4, <3>5
  <2>2. ASSUME failures' = failures \cup {spec}, UNCHANGED <<system, fresh>>
        PROVE  Goal
    <3>1. TypeOK'
      BY <2>2, <1>0, <1>1 DEF TypeOK
    <3>2. \A i \in 1..(n + 1) : Served(list[i], fresh)'
      <4> SUFFICES ASSUME NEW i \in 1..(n + 1) PROVE Served(list[i], fresh)'
        OBVIOUS
      <4>1. list' = list
        BY <1>0
      <4>2. CASE i = n + 1
        BY <2>2, <1>3, <4>1, <4>2 DEF Served
      <4>3. CASE i # n + 1
        <5>0. n \in Nat
          BY <1>3
        <5> HIDE DEF n
        <5>1. i \in 1..n
          BY <4>3, <5>0
        <5>2. Served(list[i], fresh)
          BY <5>1, <1>3
        <5> QED
          BY <5>2, <2>2, <4>1 DEF Served
      <4> QED
        BY <4>2, <4>3
    <3> QED
      BY <2>2, <3>1, <3>2, <1>3
  <2> HIDE DEF Goal, list
  <2>3. (\E h \in ToHotKey(spec) \ system :
           system' = system \cup {h} /\ fresh' = WithKey(fresh, h, spec.id) /\ UNCHANGED failures)
        \/ (failures' = failures \cup {spec} /\ UNCHANGED <<system, fresh>>)
    BY DEF RegisterNext
  <2> QED
    BY <2>1, <2>2, <2>3
<1>6. CallInv' /\ WantedInv'
  BY DEF HotkeyInv, CallInv, WantedInv
<1>7. JobInv'
  BY <1>0, <1>3, <1>4, <1>5 DEF HotkeyInv, JobInv
<1>8. IdsInv'
  BY DEF HotkeyInv, JobInv, IdsInv, NamesOf
<1> QED
  BY <1>5, <1>6, <1>7, <1>8 DEF HotkeyInv

LEMMA PublishKeeps ==
  ASSUME HotkeyInv, Publish
  PROVE  HotkeyInv'
<1> USE DEF Publish, Return, threadVars, pressVars
<1>0. /\ TypeOK /\ updates \in Seq(Settings) /\ updates # <<>> /\ jobs = <<>> /\ manager
  BY DEF HotkeyInv, TypeOK, CallInv, JobInv
<1>1. /\ Tail(updates) \in Seq(Settings) /\ Head(updates) \in Settings
      /\ updates' # <<>> => updates'[Len(updates')] = updates[Len(updates)]
      /\ updates' = <<>> => Head(updates) = updates[Len(updates)]
  <2>1. /\ Tail(updates) \in Seq(Settings) /\ Head(updates) \in Settings
        /\ Len(Tail(updates)) = Len(updates) - 1 /\ Len(updates) \in Nat \ {0}
    BY <1>0, Ends
  <2>2. updates' # <<>> => updates'[Len(updates')] = updates[Len(updates)]
    BY <1>0
  <2>3. updates' = <<>> => Len(updates) = 1
    <3>1. Len(<<>>) = 0
      OBVIOUS
    <3>2. updates' = Tail(updates)
      OBVIOUS
    <3>3. updates' = <<>> => Len(Tail(updates)) = 0
      BY <3>1, <3>2
    <3> QED
      BY <2>1, <3>3
  <2> QED
    BY <1>0, <2>1, <2>2, <2>3, Ends
<1>2. Head(updates) \in Seq(Specs)
  BY <1>1, SettingsTyped
<1>3. TypeOK'
  BY <1>0, <1>1 DEF TypeOK
<1>4. CallInv' /\ WantedInv'
  BY <1>0, <1>1 DEF HotkeyInv, CallInv, WantedInv
<1>5. JobInv'
  BY DEF JobInv
<1>6. IdsInv'
  <2>1. NamesOf(ids', applied')
    BY DEF HotkeyInv, JobInv
  <2>2. /\ DOMAIN ids' = registered' /\ registered' \subseteq system'
        /\ system' \subseteq registered' \cup stuck'
    BY DEF HotkeyInv, JobInv
  <2>3. \A i \in DOMAIN Head(updates) : Served(Head(updates)[i], fresh)
    BY <1>2 DEF HotkeyInv, JobInv
  <2>4. \A i \in DOMAIN applied' : Served(applied[i], ids)'
    BY <2>3 DEF Served
  <2> QED
    BY <1>0, <2>1, <2>2, <2>4 DEF IdsInv
<1> QED
  BY <1>3, <1>4, <1>5, <1>6 DEF HotkeyInv

LEMMA PressKeeps ==
  ASSUME HotkeyInv, Press \/ Listen \/ Forward
  PROVE  HotkeyInv'
<1> USE DEF appVars, threadVars
<1>0. /\ TypeOK /\ messages \in Seq(HotKeys \cup {Wake}) /\ events \in Seq(HotKeys)
      /\ system \subseteq HotKeys
  BY DEF HotkeyInv, TypeOK
<1>1. CASE Press
  <2>1. /\ messages' \in Seq(HotKeys \cup {Wake}) /\ events' \in Seq(HotKeys)
        /\ presses' \in 0..MaxPresses
    <3>1. PICK h \in system :
            IF threaded
              THEN messages' = Append(messages, h) /\ UNCHANGED events
              ELSE events' = Append(events, h) /\ UNCHANGED messages
      BY <1>1 DEF Press
    <3>2. h \in HotKeys
      BY <1>0
    <3>3. messages' \in Seq(HotKeys \cup {Wake}) /\ events' \in Seq(HotKeys)
      <4>1. CASE threaded
        BY <1>0, <3>1, <3>2, <4>1, Append1
      <4>2. CASE ~threaded
        BY <1>0, <3>1, <3>2, <4>2, Append1
      <4> QED
        BY <4>1, <4>2
    <3>4. presses' \in 0..MaxPresses
      BY <1>0, <1>1, HotkeyAssumption DEF Press, TypeOK
    <3> QED
      BY <3>3, <3>4
  <2>2. TypeOK'
    BY <1>0, <1>1, <2>1 DEF Press, TypeOK, registryVars
  <2>3. CallInv' /\ WantedInv'
    BY <1>1 DEF Press, HotkeyInv, CallInv, WantedInv, registryVars
  <2>4. JobInv' /\ IdsInv'
    BY <1>1, RegistryKept DEF Press
  <2> QED
    BY <2>2, <2>3, <2>4 DEF HotkeyInv
<1>2. CASE Listen
  <2>2. TypeOK'
    BY <1>0, <1>2 DEF Listen, TypeOK, registryVars
  <2>3. CallInv' /\ WantedInv'
    BY <1>2 DEF Listen, HotkeyInv, CallInv, WantedInv, registryVars
  <2>4. JobInv' /\ IdsInv'
    BY <1>2, RegistryKept DEF Listen
  <2> QED
    BY <2>2, <2>3, <2>4 DEF HotkeyInv
<1>3. CASE LookUp
  <2>1. events' \in Seq(HotKeys) /\ \A press \in found' : press.key \in HotKeys
    BY <1>0, <1>3, Ends DEF LookUp
  <2>2. TypeOK'
    <3>1. overtaken' \in BOOLEAN
      BY <1>3 DEF LookUp
    <3>2. UNCHANGED <<threaded, appVars, threadVars, registryVars, forwarder, presses>>
      BY <1>3 DEF LookUp
    <3> QED
      BY <1>0, <2>1, <3>1, <3>2 DEF TypeOK, registryVars
  <2>3. CallInv' /\ WantedInv'
    BY <1>3 DEF LookUp, HotkeyInv, CallInv, WantedInv, registryVars
  <2>4. JobInv' /\ IdsInv'
    BY <1>3, RegistryKept DEF LookUp
  <2> QED
    BY <2>2, <2>3, <2>4 DEF HotkeyInv
<1>4. CASE Report
  <2>1. TypeOK'
    <3>1. overtaken' \in BOOLEAN /\ \A press \in found' : press.key \in HotKeys
      BY <1>4 DEF Report
    <3>2. UNCHANGED <<threaded, appVars, threadVars, registryVars, forwarder, presses, events>>
      BY <1>4 DEF Report
    <3> QED
      BY <1>0, <3>1, <3>2 DEF TypeOK, registryVars
  <2>2. CallInv' /\ WantedInv'
    BY <1>4 DEF Report, HotkeyInv, CallInv, WantedInv, registryVars
  <2>3. JobInv' /\ IdsInv'
    BY <1>4, RegistryKept DEF Report
  <2> QED
    BY <2>1, <2>2, <2>3 DEF HotkeyInv
<1> QED
  BY <1>1, <1>2, <1>3, <1>4 DEF Forward

LEMMA HotkeyStep == HotkeyInv /\ [Next]_vars => HotkeyInv'
<1> SUFFICES ASSUME HotkeyInv, [Next]_vars PROVE HotkeyInv'
  OBVIOUS
<1>1. CASE App
  BY <1>1, ChangeKeeps, UpdateKeeps, PressKeeps DEF App
<1>2. CASE Replace
  BY <1>2, NoManagerKeeps, UnregisterAllKeeps, RegisterNextKeeps, PublishKeeps DEF Replace
<1>3. CASE UNCHANGED vars
  <2> USE <1>3 DEF vars, appVars, threadVars, registryVars, pressVars
  <2>1. TypeOK' /\ CallInv' /\ WantedInv'
    BY DEF HotkeyInv, TypeOK, CallInv, WantedInv
  <2>2. JobInv' /\ IdsInv'
    BY RegistryKept
  <2> QED
    BY <2>1, <2>2 DEF HotkeyInv
<1> QED
  BY <1>1, <1>2, <1>3, CallerKeeps, ThreadKeeps, LoopEndsKeeps, PressKeeps DEF Next

\* The registrations, IDS and the job at work fit together in every state.
THEOREM HotkeyInvariance == Spec => []HotkeyInv
  BY HotkeyInitially, HotkeyStep, PTL DEF Spec

\* Once an update has been answered, the registry, IDS and the system agree on which
\* keys have an action, and each spec has its own or was reported as a failure
\* (service.rs, replace).
THEOREM RegistrationsAgree == Spec => []RegistriesAgree
<1>1. HotkeyInv => RegistriesAgree
  BY DEF HotkeyInv, IdsInv, RegistriesAgree, Served
<1> QED
  BY <1>1, HotkeyInvariance, PTL

\* What the forwarder has in hand is what IDS says, until other settings are published.
FoundInv ==
  ~overtaken => \A press \in found : press.key \in DOMAIN ids /\ press.id = ids[press.key]

LEMMA FoundStep == FoundInv /\ [Next]_vars => FoundInv'
<1> SUFFICES ASSUME FoundInv, [Next]_vars PROVE FoundInv'
  OBVIOUS
<1>1. CASE Publish
  BY <1>1 DEF Publish, FoundInv
<1>2. CASE LookUp
  BY <1>2 DEF LookUp, FoundInv, registryVars
<1>3. CASE Report
  BY <1>3 DEF Report, FoundInv
<1>4. CASE ~Publish /\ ~LookUp /\ ~Report
  <2>1. UNCHANGED <<ids, found, overtaken>>
    BY <1>4 DEF Next, App, Change, Update, Locked, AskOwner, Begin, Listen, Caller, GetOwner, NoOwner,
       SendJob, PostMessage, ThreadGone, Thread, Ready, Drain, Dispatch, LoopEnds, Replace, NoManager,
       UnregisterAll, RegisterNext, Press, Forward, vars, registryVars, pressVars
  <2> QED
    BY <2>1 DEF FoundInv
<1> QED
  BY <1>1, <1>2, <1>3, <1>4

\* While the last settings are in force, what is about to be reported is an action that
\* they give to the key, unless it was looked up before they were published
\* (service.rs, replace and forward_events).
THEOREM PressesRunWantedActions == Spec => []OnlyTheWantedAction
<1>1. Init => FoundInv
  BY DEF Init, FoundInv
<1>2. HotkeyInv /\ FoundInv => OnlyTheWantedAction
  <2> SUFFICES ASSUME HotkeyInv, FoundInv, Quiet, result = "ok", ~overtaken, NEW press \in found
               PROVE  \E i \in DOMAIN wanted : wanted[i].id = press.id /\ press.key \in ToHotKey(wanted[i])
    BY DEF OnlyTheWantedAction
  <2>1. applied = wanted /\ NamesOf(ids, applied)
    BY DEF Quiet, HotkeyInv, WantedInv, IdsInv
  <2>2. press.key \in DOMAIN ids /\ press.id = ids[press.key]
    BY DEF FoundInv
  <2> QED
    BY <2>1, <2>2 DEF NamesOf
<1> QED
  BY <1>1, <1>2, FoundStep, HotkeyInvariance, PTL DEF Spec
===============================================================================
