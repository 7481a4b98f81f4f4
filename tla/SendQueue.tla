------------------------------ MODULE SendQueue ------------------------------
(***************************************************************************)
(* The queue between the callers of send_message and the writer thread of  *)
(* one connection of the app's native IPC server (rust_api, ipc/queue.rs   *)
(* and server.rs): a channel of MaxPending slots, bounded by bytes too.    *)
(*                                                                         *)
(* A caller reserves bytes, tries to send, and waits for its turn; the     *)
(* writer takes a message out and gives its bytes back in a later step.    *)
(* The writer ends, or the server stops, at any time.  Only one more byte  *)
(* than fits makes a message large: Length abstracts its size.             *)
(***************************************************************************)
EXTENDS Naturals, Sequences, FiniteSets

CONSTANTS
  Messages, NoMessage,  \* the messages callers send, each by a call of its own
  Large,                \* those larger than the whole budget
  MaxPending,           \* MAX_PENDING_MESSAGES
  MaxBytes              \* MAX_PENDING_BYTES

ASSUME QueueAssumption ==
  /\ IsFiniteSet(Messages) /\ Large \subseteq Messages /\ NoMessage \notin Messages
  /\ MaxPending \in Nat \ {0} /\ MaxBytes \in Nat \ {0}

VARIABLES
  running,    \* RUNNING
  receiver,   \* the writer's end of the channel is open
  attached,   \* STATE.sender is the sender of this connection
  queue,      \* the channel; with its receiver gone, what was never received
  pending,    \* pending_bytes
  popped,     \* what the writer took out of the channel last, to be counted off
  send        \* send[m]: where the call that sends m is

vars == <<running, receiver, attached, queue, pending, popped, send>>

Outcomes == {"queued", "notConnected", "disconnected", "stopped", "full"}
Waiting == {"reserve", "try", "retry"}

TypeOK ==
  /\ {running, receiver, attached} \subseteq BOOLEAN
  /\ queue \in Seq(Messages) /\ Len(queue) <= MaxPending
  /\ pending \in Nat
  /\ popped \in Messages \cup {NoMessage}
  /\ send \in [Messages -> {"idle"} \cup Waiting \cup Outcomes]

Init ==
  /\ running = TRUE /\ receiver = TRUE /\ attached = TRUE
  /\ queue = <<>> /\ pending = 0 /\ popped = NoMessage
  /\ send = [m \in Messages |-> "idle"]

Length(m) == IF m \in Large THEN MaxBytes + 1 ELSE 1

Goes(m, from, to) == send[m] = from /\ send' = [send EXCEPT ![m] = to]

-----------------------------------------------------------------------------
(* send_message and enqueue_message                                         *)

\* The caller takes a clone of the published sender, if there is one.
SendMessage(m) ==
  /\ Goes(m, "idle", IF attached THEN "reserve" ELSE "notConnected")
  /\ UNCHANGED <<running, receiver, attached, queue, pending, popped>>

\* Mutant of Admits: the budget is checked before the message is added to it.
AdmitsLate(m) == pending <= MaxBytes

\* An empty queue takes any message, for one may be larger than the budget.
Admits(m) == pending = 0 \/ pending + Length(m) <= MaxBytes

TryReserve(m) ==
  /\ Goes(m, "reserve", IF Admits(m) THEN "try" ELSE "retry")
  /\ pending' = IF Admits(m) THEN pending + Length(m) ELSE pending
  /\ UNCHANGED <<running, receiver, attached, queue, popped>>

\* tx.try_send: the message is queued, or its reservation given back.
TrySend(m) ==
  /\ \/ /\ receiver /\ Len(queue) < MaxPending
        /\ Goes(m, "try", "queued")
        /\ queue' = Append(queue, m) /\ UNCHANGED pending
     \/ /\ receiver /\ Len(queue) >= MaxPending
        /\ Goes(m, "try", "retry")
        /\ pending' = pending - Length(m) /\ UNCHANGED queue
     \/ /\ ~receiver
        /\ Goes(m, "try", "disconnected")
        /\ pending' = pending - Length(m) /\ UNCHANGED queue
  /\ UNCHANGED <<running, receiver, attached, popped>>

\* The server is stopped, or the caller sleeps and tries again.
Retry(m) ==
  /\ Goes(m, "retry", IF running THEN "reserve" ELSE "stopped")
  /\ UNCHANGED <<running, receiver, attached, queue, pending, popped>>

\* Mutant of GiveUp: the deadline counts only for a server that is stopped.
GiveUpStopped(m) ==
  /\ ~running
  /\ Goes(m, "retry", "full")
  /\ UNCHANGED <<running, receiver, attached, queue, pending, popped>>

\* The deadline is over.
GiveUp(m) ==
  /\ running
  /\ Goes(m, "retry", "full")
  /\ UNCHANGED <<running, receiver, attached, queue, pending, popped>>

-----------------------------------------------------------------------------
(* The writer and the server                                                *)

\* rx.recv_timeout, of a writer that was not told to stop when it looked.
Receive ==
  /\ receiver /\ popped = NoMessage /\ queue # <<>>
  /\ popped' = Head(queue) /\ queue' = Tail(queue)
  /\ UNCHANGED <<running, receiver, attached, pending, send>>

\* pending_bytes.fetch_sub, before the message is written.
CountOff ==
  /\ popped # NoMessage
  /\ pending' = pending - Length(popped) /\ popped' = NoMessage
  /\ UNCHANGED <<running, receiver, attached, queue, send>>

\* The writer ends, for its server or connection stopped or a write failed, and the
\* channel with it.
WriterEnds ==
  /\ receiver /\ popped = NoMessage
  /\ receiver' = FALSE
  /\ UNCHANGED <<running, attached, queue, pending, popped, send>>

\* The connection is over, or the server stops: no new caller finds the sender.
Withdraw ==
  /\ attached /\ attached' = FALSE
  /\ UNCHANGED <<running, receiver, queue, pending, popped, send>>

StopServer ==
  /\ running /\ running' = FALSE
  /\ UNCHANGED <<receiver, attached, queue, pending, popped, send>>

Next ==
  \/ \E m \in Messages :
       SendMessage(m) \/ TryReserve(m) \/ TrySend(m) \/ Retry(m) \/ GiveUp(m)
  \/ Receive \/ CountOff \/ WriterEnds \/ Withdraw \/ StopServer

Spec == Init /\ [][Next]_vars

\* A call that waits goes on, and its deadline comes; the writer may never read.
FairSpec ==
  /\ Spec
  /\ \A m \in Messages :
       WF_vars(TryReserve(m) \/ TrySend(m) \/ Retry(m)) /\ SF_vars(GiveUp(m))

-----------------------------------------------------------------------------
(* Properties                                                               *)

\* The sum of Length over S: a byte each, and MaxBytes more for a large one.
Total(S) == Cardinality(S) + MaxBytes * Cardinality(S \cap Large)

Queued == {queue[i] : i \in DOMAIN queue}

\* What callers reserved and have not given back, the queue holds, or the writer took
\* out and has not counted off.
Outstanding ==
  {m \in Messages : send[m] = "try"} \cup Queued \cup ({popped} \ {NoMessage})

\* pending_bytes is what is outstanding: nothing leaks whatever way a call ends.
BudgetExact == pending = Total(Outstanding)

\* It never passes the budget, whatever the callers do at once, except for a message
\* larger than the budget that waits alone.
BudgetKept == Cardinality(Outstanding) > 1 => Total(Outstanding) <= MaxBytes

\* The byte budget is exact and kept (queue.rs:8-11, 35-83; server.rs:208-211).
BudgetHolds == BudgetExact /\ BudgetKept

\* A call of send_message returns, whether the writer drains the queue, is wedged or
\* has ended (queue.rs:12-15, 61-82).
SendSettles == \A m \in Messages : send[m] \in Waiting ~> send[m] \in Outcomes
=============================================================================
