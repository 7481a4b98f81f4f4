------------------------------ MODULE FrameWriter ------------------------------
(***************************************************************************)
(* The writer thread behind SendQueue: it takes messages out of the channel *)
(* and writes them as frames into the nonblocking socket of its connection *)
(* (rust_api, ipc/frame.rs write_frame, ipc/server.rs the writer thread),  *)
(* next to the read loop that ends the connection and joins it.            *)
(*                                                                         *)
(* A frame is FrameLen units, length prefix and body alike; the socket     *)
(* takes a part of it, or nothing while it holds BufferLen unread units.   *)
(***************************************************************************)
EXTENDS SendQueue

CONSTANTS
  FrameLen,    \* bound: units of a frame
  BufferLen    \* bound: units the socket buffers

ASSUME WriterAssumption == FrameLen \in Nat \ {0} /\ BufferLen \in Nat \ {0}

VARIABLES
  connection,  \* connection_running
  reading,     \* the read loop: "serving", "withdraw" or "joined"
  peer,        \* the Core has its end of the socket open
  at,          \* the writer: "look", "receive", "count", "check", "write" or "ended"
  frame,       \* the message it writes
  left,        \* the units of its frame not yet written
  error,       \* it returned a write error
  wire,        \* the messages of the units the socket took, in order
  unread       \* units of wire the Core has not read

writerVars == <<at, frame, left, error>>
socketVars == <<connection, reading, peer, wire, unread>>
threadVars == <<vars, writerVars, socketVars>>

WriterInit ==
  /\ Init
  /\ connection = TRUE /\ reading = "serving" /\ peer = TRUE
  /\ at = "look" /\ frame = NoMessage /\ left = 0 /\ error = FALSE
  /\ wire = <<>> /\ unread = 0

-----------------------------------------------------------------------------
(* The writer thread                                                        *)

\* is_running, at which every loop of the thread looks.
IsRunning == connection /\ running

Goto(from, to) == at = from /\ at' = to

\* The thread returns, and drops its end of the channel.
End(failed) ==
  /\ at' = "ended" /\ error' = failed
  /\ WriterEnds
  /\ connection' = FALSE
  /\ UNCHANGED <<frame, left, reading, peer, wire, unread>>

Look ==
  /\ IsRunning
  /\ Goto("look", "receive")
  /\ UNCHANGED <<vars, frame, left, error, socketVars>>

ReceiveMessage ==
  /\ Goto("receive", "count")
  /\ Receive
  /\ UNCHANGED <<frame, left, error, socketVars>>

\* recv_timeout is over without a message.
ReceiveNothing ==
  /\ Goto("receive", "look") /\ queue = <<>>
  /\ UNCHANGED <<vars, frame, left, error, socketVars>>

\* Every sender is gone, and the channel is empty.
Disconnected ==
  /\ at = "receive" /\ queue = <<>>
  /\ ~attached /\ \A m \in Messages : send[m] \notin Waiting
  /\ End(FALSE)

CountMessage ==
  /\ Goto("count", "check")
  /\ CountOff
  /\ frame' = popped /\ left' = FrameLen
  /\ UNCHANGED <<error, socketVars>>

\* Mutant of Check: a frame that has begun is written to its end.
CheckAtStart ==
  /\ IsRunning \/ left < FrameLen
  /\ Goto("check", "write")
  /\ UNCHANGED <<vars, frame, left, error, socketVars>>

\* write_all_interruptible, once per write: a stop ends the frame where it is.
Check ==
  /\ IsRunning
  /\ Goto("check", "write")
  /\ UNCHANGED <<vars, frame, left, error, socketVars>>

Stopped ==
  /\ at \in {"look", "check"} /\ ~IsRunning
  /\ End(FALSE)

\* Mutant of WriteUnits: a write that was cut short counts as whole.
WriteUnitsOnce ==
  /\ at = "write" /\ peer
  /\ \E n \in 1..left :
       /\ unread + n <= BufferLen
       /\ wire' = wire \o [i \in 1..n |-> frame] /\ unread' = unread + n
  /\ left' = 0 /\ at' = "look"
  /\ UNCHANGED <<vars, frame, error, connection, reading, peer>>

\* The socket takes a part of what is left; the last part completes the frame.
WriteUnits ==
  /\ at = "write" /\ peer
  /\ \E n \in 1..left :
       /\ unread + n <= BufferLen
       /\ wire' = wire \o [i \in 1..n |-> frame] /\ unread' = unread + n
       /\ left' = left - n
       /\ at' = IF n = left THEN "look" ELSE "check"
  /\ UNCHANGED <<vars, frame, error, connection, reading, peer>>

\* WouldBlock, and on Windows a write of nothing: the thread sleeps, ever longer.
Backoff ==
  /\ peer /\ unread = BufferLen
  /\ Goto("write", "check")
  /\ UNCHANGED <<vars, frame, left, error, socketVars>>

WriteFails ==
  /\ at = "write" /\ ~peer
  /\ End(TRUE)

WriterStep ==
  \/ Look \/ ReceiveMessage \/ ReceiveNothing \/ Disconnected \/ CountMessage
  \/ Check \/ Stopped \/ WriteUnits \/ Backoff \/ WriteFails

-----------------------------------------------------------------------------
(* The read loop, its server and the Core                                   *)

\* The read loop ends, whatever the reason, and tells the writer.
EndRead ==
  /\ reading = "serving"
  /\ reading' = "withdraw" /\ connection' = FALSE
  /\ UNCHANGED <<vars, writerVars, peer, wire, unread>>

\* It sees that the connection, the server or the Core has ended.
ReadLoop == ~connection \/ ~running \/ ~peer

\* STATE.sender = None, here or in the stop of the server.
WithdrawSender ==
  /\ \/ reading = "withdraw"
     \/ ~running
  /\ Withdraw
  /\ UNCHANGED <<writerVars, socketVars>>

\* writer.join, with the sender withdrawn.
JoinWriter ==
  /\ reading = "withdraw" /\ ~attached /\ at = "ended"
  /\ reading' = "joined" /\ peer' = FALSE
  /\ UNCHANGED <<vars, writerVars, connection, wire, unread>>

Stop == StopServer /\ UNCHANGED <<writerVars, socketVars>>

PeerReads ==
  /\ peer /\ unread > 0
  /\ unread' = unread - 1
  /\ UNCHANGED <<vars, writerVars, connection, reading, peer, wire>>

PeerCloses ==
  /\ peer /\ peer' = FALSE
  /\ UNCHANGED <<vars, writerVars, connection, reading, wire, unread>>

CallStep(m) ==
  /\ SendMessage(m) \/ TryReserve(m) \/ TrySend(m) \/ Retry(m) \/ GiveUp(m)
  /\ UNCHANGED <<writerVars, socketVars>>

WriterNext ==
  \/ WriterStep \/ EndRead \/ WithdrawSender \/ JoinWriter \/ Stop \/ PeerReads \/ PeerCloses
  \/ \E m \in Messages : CallStep(m)

WriterSpec == WriterInit /\ [][WriterNext]_threadVars

\* As in SendQueue; threads run, and the read loop looks at what tells it to end.  The
\* Core need not read.
FairWriterSpec ==
  /\ WriterSpec
  /\ \A m \in Messages :
       WF_vars(TryReserve(m) \/ TrySend(m) \/ Retry(m)) /\ SF_vars(GiveUp(m))
  /\ WF_threadVars(WriterStep) /\ WF_threadVars(ReadLoop /\ EndRead)
  /\ WF_threadVars(WithdrawSender) /\ WF_threadVars(JoinWriter)

-----------------------------------------------------------------------------
(* Properties                                                               *)

\* What the Core reads are whole frames, one after the other, each message once: only
\* the last may lack a part, and then it is being written or the connection is over
\* (frame.rs:48-93; server.rs:204-224).
OutgoingWhole ==
  \A i \in DOMAIN wire :
    LET first == ((i - 1) \div FrameLen) * FrameLen + 1 IN
      /\ wire[i] = wire[first]
      /\ i = first => \A k \in 1..i - 1 : wire[k] # wire[i]
      /\ Len(wire) - first + 1 < FrameLen => frame = wire[i] /\ (left > 0 \/ at = "ended")

Units(m) == Cardinality({i \in DOMAIN wire : wire[i] = m})

\* A stop, or the end of the connection, ends the writer and has it joined, even in the
\* middle of a frame that a wedged Core does not read (frame.rs:55-60; server.rs:252-258).
WriterObeysStop == ~running \/ ~connection ~> reading = "joined"
=============================================================================
