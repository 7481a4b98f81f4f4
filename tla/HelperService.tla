---------------------------- MODULE HelperService ----------------------------
(***************************************************************************)
(* The privileged Helper, services/helper/src/service/hub.rs: HTTP          *)
(* requests that each run on a blocking thread and serialise on the mutex  *)
(* MANAGED_CORE, and the at most one Core process the Helper manages.      *)
(*                                                                         *)
(* A request keeps its thread when its client gives up: start_request and  *)
(* stop_request await a spawn_blocking task, which nothing cancels.  The   *)
(* mutex is not fair, so any waiting thread may take it next.              *)
(*                                                                         *)
(* Abstractions: a Core process is named by the attempt that spawned it    *)
(* (Pids, never reused), not by its OS pid; the digest of the executable,  *)
(* the owner of the socket and the syntax of an address are one bit of     *)
(* outcome each; the thread that reads the Core's stderr always starts.    *)
(* How a request comes in and its answer goes out is in HelperFront.       *)
(***************************************************************************)
EXTENDS Naturals, FiniteSets

CONSTANTS
  Requests,    \* request threads, each serving one request
  Main,        \* the service thread, which releases the Core on shutdown
  Sessions,    \* session ids a client may present
  Pids,        \* Core processes that may be spawned
  NoRequest, NoSession, NoPid,
  JobObject,   \* TRUE: Windows (Core bound to a job after spawn, no SIGTERM);
               \* FALSE: Linux (systemd cgroup from birth, SIGTERM first)
  MaxRestarts  \* bound: times the service manager brings a dead Helper back

ASSUME HelperAssumption ==
  /\ Main \notin Requests /\ NoRequest \notin Requests \cup {Main}
  /\ NoSession \notin Sessions
  /\ NoPid \notin Pids
  /\ JobObject \in BOOLEAN
  /\ MaxRestarts \in Nat

VARIABLES
  helper,     \* "up", "draining" (shutdown requested) or "down"
  restarts,   \* times the Helper was restarted
  lock,       \* the thread holding MANAGED_CORE
  managed,    \* the Core in MANAGED_CORE
  child,      \* the Core between Command::spawn and ManagedCore::adopt
  owner,      \* owner[p]: the session p was spawned for, NoSession if unborn
  running,    \* spawned processes that have not exited
  confined,   \* processes the OS kills when the Helper dies
  kind,       \* kind[r]: "start", "stop" or "shutdown"
  session,    \* session[r]: the session id of the request
  pc,         \* pc[r]: where the thread of r is
  reply       \* reply[r]: what r answered, "none" before

procVars == <<managed, child, owner, running, confined>>
reqVars  == <<kind, session, pc, reply>>
vars     == <<helper, restarts, lock, procVars, reqVars>>

Threads == Requests \cup {Main}
Kinds == {"start", "stop", "shutdown"}
Pcs   == {"idle", "waiting", "release", "graceful", "killing", "verify",
          "socket", "spawn", "adopt", "done"}
Replies == {"none", "invalidRequest", "coreStopFailed", "started",
            "coreVerificationFailed", "processLaunchFailed", "internalError",
            "stopped", "notRunning", "sessionMismatch", "released"}

\* The threads that have arrived and not finished.
Active == {r \in Threads : pc[r] \notin {"idle", "done"}}

-----------------------------------------------------------------------------
Init ==
  /\ helper = "up" /\ restarts = 0
  /\ lock = NoRequest
  /\ managed = NoPid /\ child = NoPid
  /\ owner = [p \in Pids |-> NoSession]
  /\ running = {} /\ confined = {}
  /\ kind = [r \in Threads |-> IF r = Main THEN "shutdown" ELSE "start"]
  /\ session = [r \in Threads |-> NoSession]
  /\ pc = [r \in Threads |-> "idle"]
  /\ reply = [r \in Threads |-> "none"]

Goto(r, where) == pc' = [pc EXCEPT ![r] = where]

\* Mutant of Finish: the guard leaks and the mutex stays taken.
FinishKeepingLock(r, answer) ==
  /\ Goto(r, "done")
  /\ reply' = [reply EXCEPT ![r] = answer]
  /\ UNCHANGED lock

\* The handler returns: the MutexGuard is dropped with the frame.
Finish(r, answer) ==
  /\ Goto(r, "done")
  /\ reply' = [reply EXCEPT ![r] = answer]
  /\ lock' = NoRequest

(***************************************************************************)
(* A request is routed to its handler, which a server that is draining     *)
(* still does on a connection it has accepted.  Address and session id are *)
(* checked before the lock: a bad one is answered without touching the     *)
(* Core.                                                                   *)
(***************************************************************************)
Arrive(r, k, s, valid) ==
  /\ helper # "down" /\ pc[r] = "idle"
  /\ kind' = [kind EXCEPT ![r] = k]
  /\ session' = [session EXCEPT ![r] = s]
  /\ IF valid
       THEN Goto(r, "waiting") /\ UNCHANGED reply
       ELSE Goto(r, "done") /\ reply' = [reply EXCEPT ![r] = "invalidRequest"]
  /\ UNCHANGED <<helper, restarts, lock, procVars>>

\* SIGTERM or the SCM stop control: the server begins its graceful shutdown.
BeginShutdown ==
  /\ helper = "up"
  /\ helper' = "draining"
  /\ UNCHANGED <<restarts, lock, procVars, reqVars>>

\* release_managed_core_on_shutdown, run once the server future has ended;
\* threads whose clients hung up may still be waiting for the lock.
ShutdownRelease ==
  /\ helper = "draining" /\ pc[Main] = "idle"
  /\ Goto(Main, "waiting")
  /\ UNCHANGED <<helper, restarts, lock, procVars, kind, session, reply>>

StopDecision(s) ==
  IF managed = NoPid THEN "notRunning"
  ELSE IF owner[managed] = s THEN "stop" ELSE "sessionMismatch"

Acquire(r) ==
  /\ pc[r] = "waiting" /\ lock = NoRequest
  /\ IF kind[r] = "stop" /\ StopDecision(session[r]) # "stop"
       THEN Finish(r, StopDecision(session[r]))
       ELSE lock' = r /\ Goto(r, "release") /\ UNCHANGED reply
  /\ UNCHANGED <<helper, restarts, procVars, kind, session>>

\* What follows a successful release_managed_core.
AfterRelease(r) ==
  CASE kind[r] = "start"    -> Goto(r, "verify") /\ UNCHANGED <<lock, reply>>
    [] kind[r] = "stop"     -> Finish(r, "stopped")
    [] kind[r] = "shutdown" -> Finish(r, "released")

\* terminate() on the managed Core: SIGTERM first on Linux, else straight to
\* child.kill().  The process need not have exited when the call returns.
Release(r) ==
  /\ pc[r] = "release"
  /\ IF managed = NoPid
       THEN AfterRelease(r)
       ELSE /\ Goto(r, IF JobObject THEN "killing" ELSE "graceful")
            /\ UNCHANGED <<lock, reply>>
  /\ UNCHANGED <<helper, restarts, procVars, kind, session>>

\* wait_for_exit saw the exit status: *managed = None.
ExitObserved(r) ==
  /\ pc[r] \in {"graceful", "killing"} /\ managed \notin running
  /\ managed' = NoPid
  /\ AfterRelease(r)
  /\ UNCHANGED <<helper, restarts, child, owner, running, confined, kind, session>>

\* The graceful wait ran out: child.kill() and a second, shorter wait.
GracePeriodOver(r) ==
  /\ pc[r] = "graceful"
  /\ Goto(r, "killing")
  /\ UNCHANGED <<helper, restarts, lock, procVars, kind, session, reply>>

\* Mutant of TerminateFailed: *managed = None although the Core survived.
TerminateFailedForgets(r) ==
  /\ pc[r] \in {"graceful", "killing"}
  /\ managed' = NoPid
  /\ AfterRelease(r)
  /\ UNCHANGED <<helper, restarts, child, owner, running, confined, kind, session>>

\* The second wait ran out, or try_wait failed: the Core stays managed.
TerminateFailed(r) ==
  /\ pc[r] \in {"graceful", "killing"}
  /\ Finish(r, "coreStopFailed")
  /\ UNCHANGED <<helper, restarts, procVars, kind, session>>

\* VerifiedCore::open: the Core next to the Helper is there, readable, and
\* has the digest the Helper was built with.
Verify(r) ==
  /\ pc[r] = "verify"
  /\ \/ Goto(r, IF JobObject THEN "spawn" ELSE "socket") /\ UNCHANGED <<lock, reply>>
     \/ Finish(r, "coreVerificationFailed")
  /\ UNCHANGED <<helper, restarts, procVars, kind, session>>

\* ensure_owner_socket, Linux only: the address is a socket of the owner's.
CheckSocket(r) ==
  /\ pc[r] = "socket"
  /\ \/ Goto(r, "spawn") /\ UNCHANGED <<lock, reply>>
     \/ Finish(r, "invalidRequest")
  /\ UNCHANGED <<helper, restarts, procVars, kind, session>>

Spawn(r) ==
  /\ pc[r] = "spawn"
  /\ \/ /\ \E p \in {q \in Pids : owner[q] = NoSession} :
             /\ child' = p
             /\ owner' = [owner EXCEPT ![p] = session[r]]
             /\ running' = running \cup {p}
             /\ confined' = IF JobObject THEN confined ELSE confined \cup {p}
        /\ Goto(r, "adopt")
        /\ UNCHANGED <<lock, reply>>
     \/ Finish(r, "processLaunchFailed") /\ UNCHANGED <<child, owner, running, confined>>
  /\ UNCHANGED <<helper, restarts, managed, kind, session>>

\* ManagedCore::adopt; CoreJob::bind can fail, and the Child it was given is
\* then dropped, which does not kill the process.
Adopt(r) ==
  /\ pc[r] = "adopt"
  /\ child' = NoPid
  /\ \/ managed' = child /\ confined' = confined \cup {child} /\ Finish(r, "started")
     \/ JobObject /\ Finish(r, "internalError") /\ UNCHANGED <<managed, confined>>
  /\ UNCHANGED <<helper, restarts, owner, running, kind, session>>

-----------------------------------------------------------------------------
\* A Core exits: on a signal, on its own, or because its IPC host went away.
CoreExit(p) ==
  /\ p \in running
  /\ running' = running \ {p}
  /\ UNCHANGED <<helper, restarts, lock, managed, child, owner, confined, reqVars>>

\* The process ends: the cgroup or the job takes the confined Cores with it,
\* and no thread survives to answer.
Die ==
  /\ helper' = "down"
  /\ lock' = NoRequest /\ managed' = NoPid /\ child' = NoPid
  /\ running' = running \ confined
  /\ pc' = [r \in Threads |-> IF r = Main THEN "idle"
                             ELSE IF r \in Active THEN "done" ELSE pc[r]]
  /\ UNCHANGED <<restarts, owner, confined, kind, session, reply>>

Crash == helper # "down" /\ Die

\* The runtime is dropped after the release, which waits for started threads.
Exit ==
  /\ helper = "draining" /\ Active = {} /\ pc[Main] = "done"
  /\ Die

\* Restart=on-failure, or the SCM failure actions.
Restart ==
  /\ helper = "down" /\ restarts < MaxRestarts
  /\ helper' = "up" /\ restarts' = restarts + 1
  /\ UNCHANGED <<lock, procVars, reqVars>>

Thread(r) ==
  \/ Acquire(r) \/ Release(r) \/ ExitObserved(r) \/ GracePeriodOver(r)
  \/ TerminateFailed(r) \/ Verify(r) \/ CheckSocket(r) \/ Spawn(r) \/ Adopt(r)

Next ==
  \/ \E r \in Requests, k \in {"start", "stop"}, s \in Sessions, valid \in BOOLEAN :
       Arrive(r, k, s, valid)
  \/ BeginShutdown \/ ShutdownRelease
  \/ \E r \in Threads : Thread(r)
  \/ \E p \in Pids : CoreExit(p)
  \/ Crash \/ Exit \/ Restart

Spec == Init /\ [][Next]_vars

\* A thread holding or awaiting the lock keeps running; waits are bounded.
Fairness == \A r \in Threads : WF_vars(Thread(r))
FairSpec == Spec /\ Fairness

-----------------------------------------------------------------------------
TypeOK ==
  /\ helper \in {"up", "draining", "down"}
  /\ restarts \in 0..MaxRestarts
  /\ lock \in Threads \cup {NoRequest}
  /\ managed \in Pids \cup {NoPid} /\ child \in Pids \cup {NoPid}
  /\ owner \in [Pids -> Sessions \cup {NoSession}]
  /\ running \subseteq Pids /\ confined \subseteq Pids
  /\ kind \in [Threads -> Kinds]
  /\ session \in [Threads -> Sessions \cup {NoSession}]
  /\ pc \in [Threads -> Pcs]
  /\ reply \in [Threads -> Replies]

\* The Helper never has two Cores running that it can still stop or that die
\* with it, whatever the order in which starts, stops and the shutdown take
\* the lock, and although a Core may outlast its termination.
SingleConfinedCore == \A p, q \in running \cap confined : p = q

\* A stop terminates the Core of its own session only: nothing replaces the
\* managed Core between the session check and the kill.
StopKeepsToItsSession ==
  \A r \in Requests :
    kind[r] = "stop" /\ pc[r] \in {"release", "graceful", "killing"}
      => managed # NoPid /\ owner[managed] = session[r]

\* While the Helper lives it lets go of a managed Core only once that Core
\* has exited: a Core that survived termination stays managed.
ManagedUntilExit ==
  [][managed # NoPid /\ managed' # managed /\ helper' # "down"
       => managed \notin running]_vars

\* What HelperCoreLease.stop relies on: once a start of the session has been
\* answered with its pid, a stop answered `stopped` or `notRunning` leaves no
\* Core of that session that the Helper could still have confined.
Answers(r, answer) == reply[r] # answer /\ reply'[r] = answer
StopConfirmsExit ==
  [][\A r \in Requests :
       /\ Answers(r, "stopped") \/ Answers(r, "notRunning")
       /\ \E q \in Requests : reply[q] = "started" /\ session[q] = session[r]
       => \A p \in running' \cap confined' : owner[p] # session[r]]_vars

\* What FallbackCoreLauncher relies on: when one of the two pre-spawn errors
\* is answered, no Core of the Helper is left for a direct Core to race.
PreSpawnErrorOwnsNothing ==
  [][\A r \in Requests :
       Answers(r, "coreVerificationFailed") \/ Answers(r, "processLaunchFailed")
         => running' \cap confined' = {}]_vars

\* .agents/architecture.md:544: the Core must not outlive the Helper.
CoreDiesWithHelper == helper = "down" => running = {}
=============================================================================
