-------------------------------- MODULE MCCalls --------------------------------
(* Calls to the Core, for TLC: what the app's client makes of the events and  *)
(* answers it gets, how the answers get to it, and the exit that closes both. *)
(* They share nothing here, and a behaviour takes one of the three.  Where it *)
(* takes another, both ends of the socket are gone, so that fairness asks     *)
(* nothing of them.                                                          *)
EXTENDS FrameReader, CoreRpc, SystemExit

VARIABLE part   \* "client", "frames" or "exit": nothing happens in the others

BothGone ==
  /\ process = "exited" /\ conn = FALSE /\ socket = FALSE /\ host = FALSE
  /\ writer = NoSender /\ pc = [s \in Senders |-> "idle"]
  /\ written = [s \in Senders |-> 0] /\ wire = <<>> /\ unread = 0
  /\ polling = FALSE /\ start = 0 /\ header_read = 0 /\ payload_read = 0
  /\ delivered = <<>>

CallsInit ==
  /\ RpcInit /\ ExitInit
  /\ \/ part = "client" /\ BothGone
     \/ part = "frames" /\ ReaderInit /\ ~connection
     \/ part = "exit" /\ BothGone /\ ~connection

CallsNext ==
  /\ UNCHANGED part
  /\ \/ part = "client" /\ RpcNext /\ UNCHANGED <<linkVars, exitVars>>
     \/ part = "frames" /\ ReaderNext /\ UNCHANGED <<rpcVars, exitVars>>
     \/ part = "exit" /\ ExitNext /\ UNCHANGED <<linkVars, rpcVars>>

CallsSpec ==
  /\ CallsInit /\ [][CallsNext]_<<part, linkVars, rpcVars, exitVars>>
  /\ ReaderFairness /\ ExitFairness
================================================================================
