---------------------------- MODULE MCHelperWindows ----------------------------
(* The Helper on Windows, for TLC: its server, or the commands that install   *)
(* and remove the service with the manager.  They share nothing, and a        *)
(* behaviour takes one of the two.                                            *)
EXTENDS HelperFront, ScmService

VARIABLE part   \* "server" or "service": nothing happens in the other

WindowsInit == FrontInit /\ ScmInit /\ part \in {"server", "service"}

WindowsNext ==
  /\ UNCHANGED part
  /\ \/ part = "server" /\ FrontNext /\ UNCHANGED serviceVars
     \/ part = "service" /\ ScmNext /\ UNCHANGED allVars

WindowsSpec ==
  /\ WindowsInit /\ [][WindowsNext]_<<part, allVars, serviceVars>>
  /\ FrontFairness /\ ScmFairness
================================================================================
