------------------------------ MODULE SystemExit ------------------------------
(***************************************************************************)
(* SystemExitCoordinator (lib/providers/actions/system_exit.dart): the app  *)
(* cleans up, closes its window and the Core and ends itself, and a        *)
(* watchdog ends it when one of these steps does not come back.            *)
(*                                                                         *)
(* A step may end, fail or hang.  What ends the application may fail too,   *)
(* and is tried once.                                                      *)
(***************************************************************************)
EXTENDS Naturals

VARIABLES
  exitStep,   \* what _run awaits: "none", "cleanup", "window", "core", "exit", or "done"
  watchdog,   \* its timer: "off", "set" or "fired"
  ending,     \* _applicationExitOperation: "none", "running" or "over"
  endings     \* history: the times exitApplication was called

exitVars == <<exitStep, watchdog, ending, endings>>

NextStep == [cleanup |-> "window", window |-> "core", core |-> "exit"]

ExitInit == exitStep = "none" /\ watchdog = "off" /\ ending = "none" /\ endings = 0

\* exit, called for the first time; the others share its operation.
RequestExit ==
  /\ exitStep = "none"
  /\ exitStep' = "cleanup" /\ watchdog' = "set" /\ UNCHANGED <<ending, endings>>

ExitApplicationOnce ==
  IF ending = "none" THEN ending' = "running" /\ endings' = endings + 1
  ELSE UNCHANGED <<ending, endings>>

\* Mutant of StepEnds: the watchdog is cancelled before the Core is closed.
StepEndsUnwatched ==
  /\ exitStep \in DOMAIN NextStep /\ exitStep' = NextStep[exitStep]
  /\ watchdog' = IF watchdog = "set" /\ exitStep' # "window" THEN "off" ELSE watchdog
  /\ IF exitStep' = "exit" THEN ExitApplicationOnce ELSE UNCHANGED <<ending, endings>>

\* A step ends, or fails, and the next one begins; the last cancels the watchdog.
StepEnds ==
  /\ exitStep \in DOMAIN NextStep /\ exitStep' = NextStep[exitStep]
  /\ IF exitStep' = "exit"
     THEN /\ watchdog' = IF watchdog = "set" THEN "off" ELSE watchdog
          /\ ExitApplicationOnce
     ELSE UNCHANGED <<watchdog, ending, endings>>

WatchdogFires ==
  /\ watchdog = "set" /\ watchdog' = "fired"
  /\ ExitApplicationOnce /\ UNCHANGED exitStep

\* exitApplication comes back: it has failed, or the process is about to end.
ApplicationExits ==
  /\ ending = "running" /\ ending' = "over" /\ UNCHANGED <<exitStep, watchdog, endings>>

ExitEnds ==
  /\ exitStep = "exit" /\ ending = "over"
  /\ exitStep' = "done" /\ UNCHANGED <<watchdog, ending, endings>>

ExitNext == RequestExit \/ StepEnds \/ WatchdogFires \/ ApplicationExits \/ ExitEnds

\* The timer fires unless it is cancelled; no step need ever end.
ExitFairness == WF_exitVars(WatchdogFires)

-----------------------------------------------------------------------------
(* Property                                                                 *)

\* Who asks for the exit gets it: the application is ended, and once only, whichever
\* step hangs or fails and whenever the watchdog fires (_run, _exitApplicationOnce).
ExitIsCertain == (exitStep # "none") ~> [](endings = 1)
===============================================================================
