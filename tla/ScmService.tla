------------------------------ MODULE ScmService ------------------------------
(***************************************************************************)
(* The Helper as a Windows service, services/helper/src/service/windows.rs: *)
(* the install and uninstall commands, each a process of its own that polls *)
(* the Service Control Manager, and the status a service process reports.  *)
(*                                                                         *)
(* Of the manager the model keeps the one registration of the Helper, its  *)
(* mark for deletion, the status last reported, and the restart that its   *)
(* failure actions ask for.  A marked registration goes when the service   *)
(* is stopped and the last handle to it is closed; a handle therefore      *)
(* always means the present registration.                                  *)
(***************************************************************************)
EXTENDS Naturals, FiniteSets

CONSTANTS
  Commands,    \* processes that run `install` or `uninstall`, one after the other
  Procs,       \* service processes
  NoProc,
  MaxCrashes   \* bound: service processes that die on their own

ASSUME ScmAssumption == NoProc \notin Procs /\ MaxCrashes \in Nat

VARIABLES
  record,     \* the registration: "absent", "present" or "marked" for deletion
  state,      \* current_state, as query_status answers it
  attached,   \* the process whose status the manager takes
  restartDue, \* a failure action waits for its delay
  proc,       \* proc[p]: where run_windows_service of p is
  stopAsked,  \* processes whose handler has been sent Stop: the watch channel
  crashes,    \* service processes that have died on their own
  command,    \* command[c]: "install" or "uninstall"
  step,       \* step[c]: the call c is about to make
  answer      \* answer[c]: "none", "ok" or "failed"

scmVars     == <<record, state, attached, restartDue>>
processVars == <<proc, stopAsked, crashes>>
commandVars == <<command, step, answer>>
serviceVars == <<scmVars, processVars, commandVars>>

States == {"stopped", "startPending", "running", "stopPending"}
ProcAt == {"none", "launched", "registered", "running", "draining", "released", "ended"}
Steps  == {"idle", "open", "stop", "delete", "wait", "create", "configure", "start",
           "await", "done"}

\* Between open_service or create_service and the drop of the handle.
HoldsHandle(c) == step[c] \in {"stop", "delete", "configure", "start", "await"}

\* A process that serves requests or may still own a Core.
Owns(p) == proc[p] \in {"running", "draining"}

ScmInit ==
  /\ record = "absent" /\ state = "stopped" /\ attached = NoProc /\ restartDue = FALSE
  /\ proc = [p \in Procs |-> "none"] /\ stopAsked = {} /\ crashes = 0
  /\ command = [c \in Commands |-> "install"]
  /\ step = [c \in Commands |-> "idle"]
  /\ answer = [c \in Commands |-> "none"]

-----------------------------------------------------------------------------
\* The two commands.

At(c, s) == step[c] = s
Continue(c, s) == step' = [step EXCEPT ![c] = s] /\ UNCHANGED <<command, answer>>

CommandReturns(c, result) ==
  /\ step' = [step EXCEPT ![c] = "done"]
  /\ answer' = [answer EXCEPT ![c] = result]
  /\ UNCHANGED command

Begin(c, what) ==
  /\ step[c] \in {"idle", "done"}
  /\ command' = [command EXCEPT ![c] = what]
  /\ step' = [step EXCEPT ![c] = "open"]
  /\ answer' = [answer EXCEPT ![c] = "none"]
  /\ UNCHANGED <<scmVars, processVars>>

\* remove_existing_service has returned Ok.
Removed(c) == IF command[c] = "install" THEN Continue(c, "create") ELSE CommandReturns(c, "ok")

\* Whether a marked registration can still be opened is the manager's choice.
Open(c) ==
  /\ At(c, "open")
  /\ \/ record = "absent" /\ Removed(c)
     \/ record # "absent" /\ Continue(c, "stop")
     \/ record = "marked" /\ Continue(c, "wait")
  /\ UNCHANGED <<scmVars, processVars>>

\* One round of stop_service: query, and Stop unless it is stopping.  Only a
\* running service accepts the control; one that is not active has stopped.
StopRound(c) ==
  /\ At(c, "stop")
  /\ \/ state = "stopped" /\ Continue(c, "delete") /\ UNCHANGED stopAsked
     \/ /\ state = "running" /\ attached \notin stopAsked
        /\ stopAsked' = stopAsked \cup {attached}
        /\ UNCHANGED commandVars
  /\ UNCHANGED <<scmVars, proc, crashes>>

\* A registration that is marked already is as good as deleted.
Delete(c) ==
  /\ At(c, "delete")
  /\ record' = "marked"
  /\ Continue(c, "wait")
  /\ UNCHANGED <<state, attached, restartDue, processVars>>

WaitForDeletion(c) ==
  /\ At(c, "wait") /\ record = "absent"
  /\ Removed(c)
  /\ UNCHANGED <<scmVars, processVars>>

\* A registration that is back is one error of create_service.
Create(c) ==
  /\ At(c, "create")
  /\ IF record = "absent"
       THEN record' = "present" /\ state' = "stopped" /\ Continue(c, "configure")
       ELSE CommandReturns(c, "failed") /\ UNCHANGED <<record, state>>
  /\ UNCHANGED <<attached, restartDue, processVars>>

\* update_failure_actions, which a registration marked meanwhile refuses.
Configure(c) ==
  /\ At(c, "configure")
  /\ IF record = "present" THEN Continue(c, "start") ELSE CommandReturns(c, "failed")
  /\ UNCHANGED <<scmVars, processVars>>

\* The manager starts a process: a status of an older one no longer counts.
Launch ==
  /\ \E p \in {q \in Procs : proc[q] = "none"} :
       /\ proc' = [proc EXCEPT ![p] = "launched"]
       /\ attached' = p
       /\ stopAsked' = stopAsked \ {p}
  /\ state' = "startPending" /\ restartDue' = FALSE
  /\ UNCHANGED <<record, crashes>>

\* A service that is active already is fine; a marked one cannot be started.
Start(c) ==
  /\ At(c, "start")
  /\ IF record = "present" THEN Continue(c, "await") ELSE CommandReturns(c, "failed")
  /\ IF record = "present" /\ state = "stopped" THEN Launch ELSE UNCHANGED <<scmVars, processVars>>

AwaitRunning(c) ==
  /\ At(c, "await")
  /\ \/ state = "running" /\ CommandReturns(c, "ok")
     \/ state = "stopped" /\ CommandReturns(c, "failed")
  /\ UNCHANGED <<scmVars, processVars>>

\* A poll loop that has not seen what it waits for by its deadline.
StillWaiting(c) ==
  \/ At(c, "stop") /\ state # "stopped"
  \/ At(c, "wait") /\ record # "absent"
  \/ At(c, "await") /\ state \notin {"running", "stopped"}

Timeout(c) ==
  /\ StillWaiting(c)
  /\ CommandReturns(c, "failed")
  /\ UNCHANGED <<scmVars, processVars>>

\* Any call to the manager may fail: it ends the command, and what it did
\* until then stays.
CallFails(c) ==
  /\ step[c] \notin {"idle", "done"}
  /\ CommandReturns(c, "failed")
  /\ UNCHANGED <<scmVars, processVars>>

-----------------------------------------------------------------------------
\* The manager.

Vanish ==
  /\ record = "marked" /\ state = "stopped"
  /\ \A c \in Commands : ~HoldsHandle(c)
  /\ record' = "absent" /\ attached' = NoProc /\ restartDue' = FALSE
  /\ UNCHANGED <<state, processVars, commandVars>>

\* The delay of crash_recovery is over.  A registration marked for deletion,
\* and a service somebody has started meanwhile, are left as they are.
FailureRestart ==
  /\ restartDue
  /\ IF record = "present" /\ state = "stopped"
       THEN Launch
       ELSE restartDue' = FALSE /\ UNCHANGED <<record, state, attached, processVars>>
  /\ UNCHANGED commandVars

-----------------------------------------------------------------------------
\* A service process, run_windows_service around run_service_until.

\* set_service_status, which counts while p is the process of the service.
Report(p, s) == state' = IF attached = p THEN s ELSE state

Move(p, from, to) == proc[p] = from /\ proc' = [proc EXCEPT ![p] = to]

\* The control handler is registered and StartPending reported.
Register(p) ==
  /\ Move(p, "launched", "registered")
  /\ Report(p, "startPending")
  /\ UNCHANGED <<record, attached, restartDue, stopAsked, crashes, commandVars>>

\* The port is bound and only then, in on_started, Running reported.
Serve(p) ==
  /\ \A q \in Procs : proc[q] # "running"
  /\ Move(p, "registered", "running")
  /\ Report(p, "running")
  /\ UNCHANGED <<record, attached, restartDue, stopAsked, crashes, commandVars>>

\* No runtime, no digest, no port: Stopped with an exit code, not a crash.
StartupFails(p) ==
  /\ Move(p, "registered", "ended")
  /\ Report(p, "stopped")
  /\ UNCHANGED <<record, attached, restartDue, stopAsked, crashes, commandVars>>

\* Mutant of NoticeStop: the stop is reported done when it begins.
NoticeStopAsStopped(p) ==
  /\ p \in stopAsked
  /\ Move(p, "running", "draining")
  /\ Report(p, "stopped")
  /\ UNCHANGED <<record, attached, restartDue, stopAsked, crashes, commandVars>>

\* The watch channel keeps the last value, so the shutdown future sees a Stop
\* sent before it was first polled.
NoticeStop(p) ==
  /\ p \in stopAsked
  /\ Move(p, "running", "draining")
  /\ Report(p, "stopPending")
  /\ UNCHANGED <<record, attached, restartDue, stopAsked, crashes, commandVars>>

\* server.await has returned, and the managed Core is released.
ReleaseCore(p) ==
  /\ Move(p, "draining", "released")
  /\ UNCHANGED <<scmVars, stopAsked, crashes, commandVars>>

\* Mutant of ReportStopped: the process ends without its last status.
ReportStoppedSilently(p) ==
  /\ Move(p, "released", "ended")
  /\ UNCHANGED <<scmVars, stopAsked, crashes, commandVars>>

ReportStopped(p) ==
  /\ Move(p, "released", "ended")
  /\ Report(p, "stopped")
  /\ UNCHANGED <<record, attached, restartDue, stopAsked, crashes, commandVars>>

\* The process may outlast the status it has reported.
ProcessExit(p) ==
  /\ Move(p, "ended", "none")
  /\ UNCHANGED <<scmVars, stopAsked, crashes, commandVars>>

\* A death the manager was not told of; the job takes the Core with it.
ProcessDies(p) ==
  /\ crashes < MaxCrashes /\ crashes' = crashes + 1
  /\ proc[p] \notin {"none", "ended"}
  /\ proc' = [proc EXCEPT ![p] = "none"]
  /\ IF attached = p
       THEN state' = "stopped" /\ restartDue' = (record = "present")
       ELSE UNCHANGED <<state, restartDue>>
  /\ UNCHANGED <<record, attached, stopAsked, commandVars>>

-----------------------------------------------------------------------------
CommandStep(c) ==
  \/ Open(c) \/ StopRound(c) \/ Delete(c) \/ WaitForDeletion(c) \/ Create(c)
  \/ Configure(c) \/ Start(c) \/ AwaitRunning(c) \/ Timeout(c)

ProcStep(p) ==
  \/ Register(p) \/ Serve(p) \/ StartupFails(p) \/ NoticeStop(p)
  \/ ReleaseCore(p) \/ ReportStopped(p) \/ ProcessExit(p)

ScmNext ==
  \/ \E c \in Commands : CommandStep(c) \/ CallFails(c)
                         \/ \E what \in {"install", "uninstall"} : Begin(c, what)
  \/ Vanish \/ FailureRestart
  \/ \E p \in Procs : ProcStep(p) \/ ProcessDies(p)

ScmSpec == ScmInit /\ [][ScmNext]_serviceVars

(***************************************************************************)
(* A command runs on until it returns, its deadlines being part of it; a   *)
(* process that was asked to stop is scheduled, and its drain is bounded   *)
(* by the requests in flight; a process whose main has returned is gone.   *)
(* No fault is fair.                                                       *)
(***************************************************************************)
ScmFairness ==
  /\ \A c \in Commands : WF_serviceVars(CommandStep(c))
  /\ \A p \in Procs : WF_serviceVars(\/ NoticeStop(p) \/ ReleaseCore(p)
                                     \/ ReportStopped(p) \/ ProcessExit(p))

-----------------------------------------------------------------------------
ScmTypeOK ==
  /\ record \in {"absent", "present", "marked"}
  /\ state \in States /\ attached \in Procs \cup {NoProc} /\ restartDue \in BOOLEAN
  /\ proc \in [Procs -> ProcAt] /\ stopAsked \subseteq Procs
  /\ crashes \in 0..MaxCrashes
  /\ command \in [Commands -> {"install", "uninstall"}]
  /\ step \in [Commands -> Steps]
  /\ answer \in [Commands -> {"none", "ok", "failed"}]

\* One Helper at a time: the status is true, which is all the commands and the
\* app rely on (a service that is Stopped, or whose registration is gone, neither
\* serves nor owns a Core, and one that is Running serves), so that however
\* installers, uninstallers, crashes and restarts interleave, the next service
\* process finds the port free and no Core of the last.
OneHelper ==
  /\ state = "stopped" \/ record = "absent" => \A p \in Procs : ~Owns(p)
  /\ state = "running" => attached \in Procs /\ proc[attached] = "running"
  /\ \A p, q \in Procs :
       /\ Owns(p) /\ Owns(q) => p = q
       /\ p # q /\ proc[p] \in {"launched", "registered"} => ~Owns(q)

\* A Stop control that was accepted ends the service, and the manager learns
\* of it: the uninstaller does not wait for a process that has gone.
StopTakesEffect ==
  \A p \in Procs : p \in stopAsked /\ attached = p ~> state = "stopped"
=============================================================================
