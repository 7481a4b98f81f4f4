------------------------------ MODULE FrameReader ------------------------------
(***************************************************************************)
(* The other end of FrameDelivery: the app's native IPC server, which reads *)
(* what the Core wrote (rust_api, ipc/frame.rs FrameReader::poll, and the  *)
(* read loop of ipc/server.rs) and puts every frame into its sink.         *)
(*                                                                         *)
(* The socket is nonblocking: a poll takes what is there, keeps a part of  *)
(* a frame for the next poll, and returns with a frame or without one.     *)
(* The reader knows only its own counters: which sender a unit is of, and  *)
(* where a frame begins, is the model's knowledge of the wire.  Frames of  *)
(* one connection; the next connection has a reader of its own.            *)
(***************************************************************************)
EXTENDS FrameDelivery

CONSTANT HeaderLen   \* bound: units of the length prefix

ASSUME ReaderAssumption == HeaderLen \in 1..FrameLen

VARIABLES
  polling,      \* FrameReader::poll runs
  start,        \* units of the wire before the frame it is reading
  header_read,  \* units of its header
  payload_read, \* units of its payload
  delivered     \* the payloads put into the sink

readerVars == <<polling, start, header_read, payload_read, delivered>>
linkVars   == <<vars, readerVars>>

Taken == Len(wire) - unread

\* The k-th unit of the wire and those after it are the prefix of a frame.
IsHeader(k) == \A i \in 0..HeaderLen - 1 :
                 /\ k + i \in DOMAIN wire /\ wire[k + i] = wire[k]
                 /\ k = 1 \/ wire[k - 1] # wire[k]

\* The length in the prefix, and some other number where none begins.
PayloadLen == IF IsHeader(start + 1) THEN FrameLen - HeaderLen ELSE FrameLen

ReaderInit ==
  /\ Init
  /\ polling = FALSE /\ start = 0 /\ header_read = 0 /\ payload_read = 0
  /\ delivered = <<>>

-----------------------------------------------------------------------------
\* The read loop polls while the connection and the server run.
Poll ==
  /\ host /\ ~polling
  /\ polling' = TRUE
  /\ UNCHANGED <<vars, start, header_read, payload_read, delivered>>

\* reset, with which the next frame begins at the next unit.
Reset == start' = Len(wire) - unread' /\ header_read' = 0 /\ payload_read' = 0

\* poll returns the payload, and the loop puts it into the sink.
Deliver ==
  /\ delivered' = Append(delivered, SubSeq(wire, start + HeaderLen + 1, Len(wire) - unread'))
  /\ polling' = FALSE
  /\ Reset

ReadHeader ==
  /\ polling /\ header_read < HeaderLen
  /\ HostReads
  /\ IF header_read + 1 = HeaderLen /\ PayloadLen = 0
       THEN Deliver
       ELSE header_read' = header_read + 1 /\ UNCHANGED <<polling, start, payload_read, delivered>>

ReadPayload ==
  /\ polling /\ header_read = HeaderLen
  /\ HostReads
  /\ IF payload_read + 1 = PayloadLen
       THEN Deliver
       ELSE payload_read' = payload_read + 1 /\ UNCHANGED <<polling, start, header_read, delivered>>

\* Mutant of WouldBlock: the next poll begins a frame of its own.
WouldBlockForgets ==
  /\ polling /\ unread = 0 /\ socket
  /\ polling' = FALSE
  /\ header_read' = 0 /\ payload_read' = 0 /\ start' = Taken
  /\ UNCHANGED <<vars, delivered>>

\* Nothing to read: poll returns None and keeps the part it has; the loop sleeps.
WouldBlock ==
  /\ polling /\ unread = 0 /\ socket
  /\ polling' = FALSE
  /\ UNCHANGED <<vars, start, header_read, payload_read, delivered>>

\* UnexpectedEof, in a frame or between two: the loop ends the connection.
EndOfFile ==
  /\ polling /\ unread = 0 /\ ~socket
  /\ HostDies
  /\ polling' = FALSE
  /\ UNCHANGED <<start, header_read, payload_read, delivered>>

\* The server stops, the sink or the writer fails, or the app dies.
Disconnect == HostDies /\ UNCHANGED readerVars

Reader == Poll \/ ReadHeader \/ ReadPayload \/ WouldBlock \/ EndOfFile

CoreStep ==
  \/ \E s \in Senders : Call(s) \/ Send(s)
  \/ ServeEnds \/ Exit \/ CoreDies

ReaderNext == Reader \/ Disconnect \/ (CoreStep /\ UNCHANGED readerVars)

ReaderSpec == ReaderInit /\ [][ReaderNext]_linkVars

\* Goroutines run, Go hands a contended mutex to whoever has waited long, the
\* release of the routes is bounded (exit.go:13), and a suspended host wakes up
\* and its thread reads.  A deadline need not pass and a host need not die.
ReaderFairness ==
  /\ \A s \in Senders : SF_vars(Lock(s)) /\ WF_vars(Write(s) \/ WriteError(s))
  /\ WF_vars(ServeEnds) /\ WF_vars(Exit)
  /\ WF_linkVars(Reader)

FairReaderSpec == ReaderSpec /\ ReaderFairness

-----------------------------------------------------------------------------
(* Properties                                                               *)

Payload(s) == [k \in 1..FrameLen - HeaderLen |-> s]

\* What reaches the app is what the Core completed: whole payloads, each once, in
\* the order of the wire, however the reads split them and whatever tore the last
\* frame; none is skipped (frame.rs:103-147).
FramesArriveWhole ==
  /\ Len(delivered) = Taken \div FrameLen
  /\ \A i \in DOMAIN delivered :
       \E s \in Senders :
         /\ delivered[i] = Payload(s) /\ written[s] = FrameLen
         /\ wire[(i - 1) * FrameLen + 1] = s

\* Every answer that waits for the connection is settled: it reaches the app, even
\* when the Core ends right after it, or the Core knows that it could not send it,
\* or one of the two ends before.  A stalled host blocks every sender, but only
\* until it reads on or goes (server.go:92-101, 142-175; frame.rs:103-147).
AnswerArrives ==
  \A s \in Senders :
    pc[s] = "waiting" ~> \/ \E i \in DOMAIN delivered : delivered[i] = Payload(s)
                         \/ pc[s] \in Ended \ {"sent"} \/ ~host
                         \/ process = "exited" /\ pc[s] # "sent"
=============================================================================
