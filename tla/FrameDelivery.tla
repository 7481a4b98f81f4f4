---------------------------- MODULE FrameDelivery ----------------------------
(***************************************************************************)
(* How the Core writes frames to its host, core/server.go: goroutines that  *)
(* answer method calls and the event batcher call send, serialised by      *)
(* writeMu; serve reads the same socket until it fails and then ends the   *)
(* process.  The host may stall, wake up again, or die at any time.        *)
(*                                                                         *)
(* A frame is FrameLen units (length prefix and body alike); the socket    *)
(* buffers BufferLen units the host has not read.  A write deadline may    *)
(* pass at any point of a frame, as the goroutine may itself be suspended. *)
(* Each sender sends one frame, as a goroutine of handleMethodCall does.   *)
(***************************************************************************)
EXTENDS Naturals, Sequences

CONSTANTS
  Senders, NoSender,
  FrameLen,    \* bound: units of a frame
  BufferLen    \* bound: units the socket buffers

ASSUME FrameAssumption ==
  /\ NoSender \notin Senders
  /\ FrameLen \in Nat \ {0}
  /\ BufferLen \in Nat \ {0}

VARIABLES
  process,   \* "serving", "releasing" (serve returned) or "exited"
  conn,      \* the global conn is set
  socket,    \* the connection is open on this side
  host,      \* the host is alive
  writer,    \* the sender that holds writeMu
  pc,        \* pc[s]: "idle", "waiting", "writing", "sent", "dropped" or "torn"
  written,   \* written[s]: units of its frame accepted by the socket
  wire,      \* the senders of the units accepted by the socket, in order
  unread     \* units of wire the host has not read

vars == <<process, conn, socket, host, writer, pc, written, wire, unread>>
connVars == <<process, conn, socket, host>>

Ended == {"sent", "dropped", "torn"}

TypeOK ==
  /\ process \in {"serving", "releasing", "exited"}
  /\ conn \in BOOLEAN /\ socket \in BOOLEAN /\ host \in BOOLEAN
  /\ writer \in Senders \cup {NoSender}
  /\ pc \in [Senders -> {"idle", "waiting", "writing"} \cup Ended]
  /\ written \in [Senders -> 0..FrameLen]
  /\ wire \in Seq(Senders)
  /\ unread \in 0..BufferLen

\* serve begins with the dialed connection.
Init ==
  /\ process = "serving" /\ conn = TRUE /\ socket = TRUE /\ host = TRUE
  /\ writer = NoSender
  /\ pc = [s \in Senders |-> "idle"]
  /\ written = [s \in Senders |-> 0]
  /\ wire = <<>> /\ unread = 0

-----------------------------------------------------------------------------
(* send                                                                     *)

Call(s) ==
  /\ process # "exited" /\ pc[s] = "idle"
  /\ pc' = [pc EXCEPT ![s] = "waiting"]
  /\ UNCHANGED <<connVars, writer, written, wire, unread>>

\* writeMu is taken and the connection read; without one the frame is dropped.
Lock(s) ==
  /\ process # "exited"
  /\ pc[s] = "waiting" /\ writer = NoSender
  /\ pc' = [pc EXCEPT ![s] = IF conn THEN "writing" ELSE "dropped"]
  /\ writer' = IF conn THEN s ELSE NoSender
  /\ UNCHANGED <<connVars, written, wire, unread>>

\* Mutant of Return: writeMu is not released when the frame was not sent.
ReturnLocked(s, outcome) ==
  /\ pc' = [pc EXCEPT ![s] = outcome]
  /\ writer' = IF outcome = "sent" THEN NoSender ELSE writer

\* send returns and releases writeMu.
Return(s, outcome) ==
  /\ pc' = [pc EXCEPT ![s] = outcome]
  /\ writer' = NoSender

Writing(s) == process # "exited" /\ pc[s] = "writing"

\* writeAll: the socket accepts a part; the last one completes the frame.
Write(s) ==
  /\ Writing(s)
  /\ socket /\ host /\ unread < BufferLen
  /\ written' = [written EXCEPT ![s] = @ + 1]
  /\ wire' = Append(wire, s)
  /\ unread' = unread + 1
  /\ IF written[s] + 1 = FrameLen THEN Return(s, "sent") ELSE UNCHANGED <<pc, writer>>
  /\ UNCHANGED connVars

\* The deadline passes: a frame not begun is dropped and the connection kept; a
\* half-written one is resumed (resume renews the deadline, nothing changes).
WriteTimeout(s) ==
  /\ Writing(s) /\ written[s] = 0
  /\ Return(s, "dropped")
  /\ UNCHANGED <<connVars, written, wire, unread>>

\* A hard error: the host is gone or the connection was closed.  A torn frame
\* takes the connection with it.
WriteError(s) ==
  /\ Writing(s)
  /\ ~socket \/ ~host
  /\ Return(s, IF written[s] = 0 THEN "dropped" ELSE "torn")
  /\ conn' = (conn /\ written[s] = 0)
  /\ socket' = (socket /\ written[s] = 0)
  /\ UNCHANGED <<process, host, written, wire, unread>>

-----------------------------------------------------------------------------
(* serve, and the host                                                      *)

\* Reading fails once either side is gone: the connection is forgotten and
\* closed, and the Core releases what outlives the process.
ServeEnds ==
  /\ process = "serving"
  /\ ~host \/ ~socket
  /\ process' = "releasing"
  /\ conn' = FALSE /\ socket' = FALSE
  /\ UNCHANGED <<host, writer, pc, written, wire, unread>>

Exit ==
  /\ process = "releasing"
  /\ process' = "exited"
  /\ UNCHANGED <<conn, socket, host, writer, pc, written, wire, unread>>

\* The Core is killed, or dies of a fault, wherever its goroutines are.
CoreDies ==
  /\ process # "exited"
  /\ process' = "exited" /\ conn' = FALSE /\ socket' = FALSE
  /\ UNCHANGED <<host, writer, pc, written, wire, unread>>

HostReads ==
  /\ host /\ unread > 0
  /\ unread' = unread - 1
  /\ UNCHANGED <<connVars, writer, pc, written, wire>>

HostDies ==
  /\ host
  /\ host' = FALSE
  /\ UNCHANGED <<process, conn, socket, writer, pc, written, wire, unread>>

Send(s) == Lock(s) \/ Write(s) \/ WriteTimeout(s) \/ WriteError(s)

Next ==
  \/ \E s \in Senders : Call(s) \/ Send(s)
  \/ ServeEnds \/ Exit \/ CoreDies \/ HostReads \/ HostDies

Spec == Init /\ [][Next]_vars

-----------------------------------------------------------------------------
(* Properties                                                               *)

\* The host sees whole frames one after the other: a frame that others follow is
\* complete and in one piece, so the length prefixes never lose their place
\* (server.go:73-175).
WholeFrames ==
  \A i, j \in DOMAIN wire : i < j /\ wire[i] # wire[j] =>
    /\ written[wire[i]] = FrameLen
    /\ \A k \in DOMAIN wire : j < k => wire[k] # wire[i]

\* A frame that was dropped left nothing on the wire, and a torn one took the
\* connection with it (server.go:157-174).
TornFrameEndsConnection ==
  \A s \in Senders :
    /\ pc[s] = "dropped" => written[s] = 0
    /\ pc[s] = "torn" => ~conn /\ ~socket

=============================================================================
