----------------------------- MODULE MCHelperLinux -----------------------------
(* The Helper on Linux, for TLC: its server with clients that ask for         *)
(* anything at any time, or with the app as its one client, or the commands   *)
(* that install and remove its unit.  A behaviour takes one of the three.     *)
(* Request threads, sessions and processes are interchangeable, which the     *)
(* run exploits.                                                              *)
EXTENDS HelperLaunch, UnitInstall, TLC

VARIABLE part   \* "any", "app" or "unit": nothing happens in the others

LinuxInit == LaunchInit /\ UnitInit /\ part \in {"any", "app", "unit"}

LinuxNext ==
  /\ UNCHANGED part
  /\ \/ part = "any" /\ FrontNext /\ UNCHANGED <<launchVars, unitVars>>
     \/ part = "app" /\ LaunchNext /\ UNCHANGED unitVars
     \/ part = "unit" /\ UnitNext /\ UNCHANGED <<allVars, launchVars>>

LinuxSpec == LinuxInit /\ [][LinuxNext]_<<part, allVars, launchVars, unitVars>>

Symmetry ==
  Permutations(Requests) \cup Permutations(Sessions) \cup Permutations(Pids)
================================================================================
