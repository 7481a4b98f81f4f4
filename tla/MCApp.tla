--------------------------------- MODULE MCApp ---------------------------------
(* The app's actions and its hot keys, for TLC: two parts of the app that     *)
(* share nothing, of which a behaviour takes one.                             *)
EXTENDS MCHotkeys, AppActions

VARIABLE part   \* "actions" or "hotkeys": nothing happens in the other

AppInit ==
  /\ ActionsInit /\ Init
  /\ \/ part = "actions" /\ ~threaded
     \/ part = "hotkeys" /\ ~granted

AppNext ==
  /\ UNCHANGED part
  /\ \/ part = "actions" /\ ActionsNext /\ UNCHANGED vars
     \/ part = "hotkeys" /\ Next /\ UNCHANGED actionVars

AppSpec ==
  /\ AppInit /\ [][AppNext]_<<part, vars, actionVars>>
  /\ ActionsFairness /\ HotkeyFairness
================================================================================
