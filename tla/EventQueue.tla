----------------------------- MODULE EventQueue -----------------------------
(***************************************************************************)
(* The Core's event delivery, core/message.go: goroutines that call         *)
(* sendMessage, three bounded channels, and the one goroutine that runs    *)
(* runMessageBatcher.  Every select of the code is one step, so producers  *)
(* and the batcher interleave between any two of them.                     *)
(*                                                                         *)
(* A message is a number in order of submission, with its class and the    *)
(* goroutine that sent it.  The channels are package variables nobody      *)
(* closes, so the !ok branches and the final flush, which only the tests   *)
(* reach, are left out.  What send does with a batch is FrameDelivery.     *)
(***************************************************************************)
EXTENDS Naturals, Sequences

CONSTANTS
  Producers,
  NoMessage,
  QueueSize,      \* messageQueueSize
  BatchSize,      \* messageBatchSize
  PriorityBurst,  \* messagePriorityBurst
  EvictAttempts,  \* messageEvictAttempts
  MaxMessages     \* bound: messages ever submitted

Classes  == {"state", "priority", "bulk"}
Messages == [id : 1..MaxMessages, class : Classes, from : Producers]

ASSUME QueueAssumption ==
  /\ QueueSize \in Nat \ {0} /\ BatchSize \in Nat \ {0}
  /\ PriorityBurst \in Nat \ {0} /\ EvictAttempts \in Nat \ {0}
  /\ MaxMessages \in Nat
  /\ NoMessage \notin Messages

VARIABLES
  queue,      \* queue[c]: the channel of class c
  submitted,  \* messages handed to sendMessage so far
  sending,    \* sending[p]: the message p is in enqueueLatest with
  evicting,   \* evicting[p]: p found the channel full and is about to evict
  attempt,    \* attempt[p]: finished rounds of the loop of enqueueLatest
  loc,        \* the select the batcher is at: "state", "bulk", "priority" or "any"
  burst,      \* priorityBurst
  batch,      \* the batch being collected
  deadline,   \* "none", "armed" or "expired"
  delivered,  \* messages handed to send, in order
  lost,       \* messages that were evicted or given up
  rivals,     \* history: rivals[p], messages of the class accepted since p began
  overtaken   \* history: overtaken[c], events that are not state events the
              \* batcher took since class c waits without being served

producerVars == <<submitted, sending, evicting, attempt, rivals>>
batcherVars  == <<loc, burst, batch, deadline, delivered>>
vars == <<queue, producerVars, batcherVars, lost, overtaken>>

TypeOK ==
  /\ queue \in [Classes -> Seq(Messages)]
  /\ \A c \in Classes : Len(queue[c]) <= QueueSize
  /\ submitted \in 0..MaxMessages
  /\ sending \in [Producers -> Messages \cup {NoMessage}]
  /\ evicting \in [Producers -> BOOLEAN]
  /\ attempt \in [Producers -> 0..(EvictAttempts - 1)]
  /\ loc \in {"state", "bulk", "priority", "any"}
  /\ burst \in 0..PriorityBurst
  /\ batch \in Seq(Messages) /\ Len(batch) < BatchSize
  /\ deadline \in {"none", "armed", "expired"}
  /\ delivered \in Seq(Messages)
  /\ lost \subseteq Messages
  /\ rivals \in [Producers -> Nat]
  /\ overtaken \in [Classes -> Nat]

Init ==
  /\ queue = [c \in Classes |-> <<>>]
  /\ submitted = 0
  /\ sending = [p \in Producers |-> NoMessage]
  /\ evicting = [p \in Producers |-> FALSE]
  /\ attempt = [p \in Producers |-> 0]
  /\ loc = "state" /\ burst = 0
  /\ batch = <<>> /\ deadline = "none" /\ delivered = <<>>
  /\ lost = {}
  /\ rivals = [p \in Producers |-> 0]
  /\ overtaken = [c \in Classes |-> 0]

Full(c) == Len(queue[c]) = QueueSize

-----------------------------------------------------------------------------
(* sendMessage                                                              *)

\* enqueueState: the newest event is dropped when the channel is full.
EnqueueState(m) ==
  /\ m.class = "state"
  /\ \/ /\ ~Full("state")
        /\ queue' = [queue EXCEPT !["state"] = Append(@, m)]
        /\ UNCHANGED lost
     \/ /\ Full("state")
        /\ lost' = lost \cup {m}
        /\ UNCHANGED queue
  /\ UNCHANGED <<sending, attempt, rivals>>

\* enqueueLatest begins.
BeginLatest(p, m) ==
  /\ m.class # "state"
  /\ sending' = [sending EXCEPT ![p] = m]
  /\ attempt' = [attempt EXCEPT ![p] = 0]
  /\ rivals'  = [rivals EXCEPT ![p] = 0]
  /\ UNCHANGED <<queue, lost>>

SendMessage(p) ==
  /\ sending[p] = NoMessage
  /\ submitted < MaxMessages
  /\ submitted' = submitted + 1
  /\ \E c \in Classes :
       LET m == [id |-> submitted + 1, class |-> c, from |-> p]
       IN  EnqueueState(m) \/ BeginLatest(p, m)
  /\ UNCHANGED <<evicting, batcherVars, overtaken>>

\* The first select of a round: accepted, or full and about to evict.
Offer(p) ==
  /\ sending[p] # NoMessage /\ ~evicting[p]
  /\ LET m == sending[p]
         Rival(q) == q # p /\ sending[q] # NoMessage /\ sending[q].class = m.class
     IN  \/ /\ ~Full(m.class)
            /\ queue' = [queue EXCEPT ![m.class] = Append(@, m)]
            /\ sending' = [sending EXCEPT ![p] = NoMessage]
            /\ rivals' = [q \in Producers |-> IF Rival(q) THEN rivals[q] + 1
                                                          ELSE rivals[q]]
            /\ UNCHANGED evicting
         \/ /\ Full(m.class)
            /\ evicting' = [evicting EXCEPT ![p] = TRUE]
            /\ UNCHANGED <<queue, sending, rivals>>
  /\ UNCHANGED <<submitted, attempt, batcherVars, lost, overtaken>>

\* Taking the last message out of a channel ends the wait of its class.
Waits(counts, c) == IF queue'[c] = <<>> THEN [counts EXCEPT ![c] = 0] ELSE counts

\* Mutant of Evict: gives up one round early.
EvictEarly(p) ==
  /\ evicting[p]
  /\ LET c == sending[p].class
         last == attempt[p] + 1 >= EvictAttempts - 1
     IN  /\ queue' = [queue EXCEPT ![c] = IF @ = <<>> THEN @ ELSE Tail(@)]
         /\ overtaken' = Waits(overtaken, c)
         /\ lost' = lost \cup {queue[c][i] : i \in DOMAIN queue[c] \cap {1}}
                         \cup {m \in {sending[p]} : last}
         /\ sending' = [sending EXCEPT ![p] = IF last THEN NoMessage ELSE @]
         /\ attempt' = [attempt EXCEPT ![p] = IF last THEN 0 ELSE @ + 1]
  /\ evicting' = [evicting EXCEPT ![p] = FALSE]
  /\ UNCHANGED <<submitted, rivals, batcherVars>>

\* The second select of a round.  The last round gives the message up.
Evict(p) ==
  /\ evicting[p]
  /\ LET c == sending[p].class
         last == attempt[p] + 1 = EvictAttempts
     IN  /\ queue' = [queue EXCEPT ![c] = IF @ = <<>> THEN @ ELSE Tail(@)]
         /\ overtaken' = Waits(overtaken, c)
         /\ lost' = lost \cup {queue[c][i] : i \in DOMAIN queue[c] \cap {1}}
                         \cup {m \in {sending[p]} : last}
         /\ sending' = [sending EXCEPT ![p] = IF last THEN NoMessage ELSE @]
         /\ attempt' = [attempt EXCEPT ![p] = IF last THEN 0 ELSE @ + 1]
  /\ evicting' = [evicting EXCEPT ![p] = FALSE]
  /\ UNCHANGED <<submitted, rivals, batcherVars>>

-----------------------------------------------------------------------------
(* runMessageBatcher                                                        *)

\* Mutant of AppendMessage: the message that fills the batch overtakes it.
AppendMessageFirst(m) ==
  IF Len(batch) + 1 >= BatchSize
  THEN /\ delivered' = Append(delivered, m) \o batch
       /\ batch' = <<>> /\ deadline' = "none"
  ELSE /\ batch' = Append(batch, m)
       /\ deadline' = IF batch = <<>> THEN "armed" ELSE deadline
       /\ UNCHANGED delivered

\* Mutant of AppendMessage: the full batch is sent without the new message.
AppendMessageDropped(m) ==
  IF Len(batch) + 1 >= BatchSize
  THEN /\ delivered' = delivered \o batch
       /\ batch' = <<>> /\ deadline' = "none"
  ELSE /\ batch' = Append(batch, m)
       /\ deadline' = IF batch = <<>> THEN "armed" ELSE deadline
       /\ UNCHANGED delivered

\* Mutant of AppendMessage: the timer is not armed.
AppendMessageUntimed(m) ==
  IF Len(batch) + 1 >= BatchSize
  THEN /\ delivered' = delivered \o Append(batch, m)
       /\ batch' = <<>> /\ deadline' = "none"
  ELSE /\ batch' = Append(batch, m)
       /\ UNCHANGED <<delivered, deadline>>

\* appendMessage: the first message of a batch arms the timer, the last sends it.
AppendMessage(m) ==
  IF Len(batch) + 1 >= BatchSize
  THEN /\ delivered' = delivered \o Append(batch, m)
       /\ batch' = <<>> /\ deadline' = "none"
  ELSE /\ batch' = Append(batch, m)
       /\ deadline' = IF batch = <<>> THEN "armed" ELSE deadline
       /\ UNCHANGED delivered

\* One message received from the channel of c, and the loop begins anew.
Take(c) ==
  /\ queue[c] # <<>>
  /\ AppendMessage(Head(queue[c]))
  /\ queue' = [queue EXCEPT ![c] = Tail(@)]
  /\ overtaken' = [d \in Classes |->
       IF d = c \/ queue[d] = <<>> THEN 0
       ELSE IF c = "state" THEN overtaken[d] ELSE overtaken[d] + 1]
  /\ loc' = "state"

\* The first select: state events before all others.
PollState ==
  /\ loc = "state"
  /\ \/ Take("state")
     \/ /\ queue["state"] = <<>>
        /\ loc' = IF burst >= PriorityBurst THEN "bulk" ELSE "priority"
        /\ UNCHANGED <<queue, batch, deadline, delivered, overtaken>>
  /\ UNCHANGED <<burst, producerVars, lost>>

\* The second select: one chance for bulk events after a burst.
PollBulk ==
  /\ loc = "bulk"
  /\ burst' = 0
  /\ \/ Take("bulk")
     \/ /\ queue["bulk"] = <<>>
        /\ loc' = "priority"
        /\ UNCHANGED <<queue, batch, deadline, delivered, overtaken>>
  /\ UNCHANGED <<producerVars, lost>>

\* Mutant of PollPriority: the burst is not counted.
PollPriorityUncounted ==
  /\ loc = "priority"
  /\ \/ Take("priority")
     \/ /\ queue["priority"] = <<>>
        /\ loc' = "any"
        /\ UNCHANGED <<queue, batch, deadline, delivered, overtaken>>
  /\ UNCHANGED <<burst, producerVars, lost>>

\* The third select: priority events.
PollPriority ==
  /\ loc = "priority"
  /\ \/ Take("priority") /\ burst' = burst + 1
     \/ /\ queue["priority"] = <<>>
        /\ loc' = "any"
        /\ UNCHANGED <<queue, burst, batch, deadline, delivered, overtaken>>
  /\ UNCHANGED <<producerVars, lost>>

\* flush, when the timer fired: sends what there is.
Flush ==
  /\ deadline = "expired"
  /\ delivered' = delivered \o batch
  /\ batch' = <<>> /\ deadline' = "none" /\ loc' = "state"
  /\ UNCHANGED <<queue, burst, overtaken>>

\* The blocking select: any channel that has a message, or the timer.
SelectAny ==
  /\ loc = "any"
  /\ \/ Take("state") /\ UNCHANGED burst
     \/ Take("priority") /\ burst' = burst + 1
     \/ Take("bulk") /\ burst' = 0
     \/ Flush
  /\ UNCHANGED <<producerVars, lost>>

TimerFires ==
  /\ deadline = "armed"
  /\ deadline' = "expired"
  /\ UNCHANGED <<queue, producerVars, loc, burst, batch, delivered, lost, overtaken>>

Produce(p) == SendMessage(p) \/ Offer(p) \/ Evict(p)
Batcher == PollState \/ PollBulk \/ PollPriority \/ SelectAny

Next == (\E p \in Producers : Produce(p)) \/ Batcher \/ TimerFires

Spec == Init /\ [][Next]_vars

\* The Go scheduler runs every goroutine that can run and the timer fires;
\* nobody has to submit a message.
FairSpec ==
  /\ Spec
  /\ \A p \in Producers : WF_vars(Offer(p) \/ Evict(p))
  /\ WF_vars(Batcher) /\ WF_vars(TimerFires)

-----------------------------------------------------------------------------
(* Properties                                                               *)

\* Every message handed to sendMessage is in exactly one place: with its
\* producer, in its channel, in the batch, delivered or lost (message.go:45-117).
Accounted ==
  LET places == delivered \o batch \o queue["state"] \o queue["priority"] \o queue["bulk"]
      inFlight == {sending[p] : p \in Producers} \ {NoMessage}
      kept == {places[i] : i \in DOMAIN places}
  IN  /\ \A i, j \in DOMAIN places : i # j => places[i].id # places[j].id
      /\ kept \cap lost = {} /\ inFlight \cap (kept \cup lost) = {}
      /\ {m.id : m \in kept \cup lost \cup inFlight} = 1..submitted

\* Two events of one class from one goroutine arrive in the order they were
\* sent, through the channel, the batch and the delivery (message.go:45-117).
ProducerOrder ==
  \A c \in Classes :
    LET line == delivered \o batch \o queue[c]
    IN  \A i, j \in DOMAIN line :
          /\ i < j
          /\ line[i].class = line[j].class
          /\ line[i].from = line[j].from
          => line[i].id < line[j].id

\* The batcher serves a waiting state event after at most one other message, and
\* a waiting bulk event, of all that are not state events, after at most a burst
\* of priority events (message.go:120-184; "one bulk opportunity is guaranteed",
\* .agents/architecture.md:163).
OvertakingBounded ==
  /\ overtaken["state"] <= 1
  /\ overtaken["bulk"] <= PriorityBurst

\* A batch that holds messages has a timer that will send it, and an empty batch
\* has none (message.go:90-117).
BatchHasDeadline == batch # <<>> <=> deadline # "none"

\* An accepted event is lost only to an event of its own class that found the
\* channel full, being the oldest there, and an accepted state event never; and
\* enqueueLatest gives its own event up only after other events of the class took
\* the place it freed in every round but the first (message.go:56-76;
\* .agents/rules.md:140-141).
LossIsDue ==
  [][/\ \A c \in Classes : \A i \in DOMAIN queue[c] :
          queue[c][i] \in lost' =>
            /\ i = 1 /\ c # "state"
            /\ \E p \in Producers : evicting[p] /\ sending[p].class = c
     /\ \A p \in Producers :
          sending[p] # NoMessage /\ sending[p] \in lost' \ lost =>
            rivals[p] >= EvictAttempts - 1]_vars

\* An accepted event is delivered or evicted in the end (message.go:78-185).
AcceptedIsDelivered ==
  \A n \in 1..MaxMessages :
    (\E c \in Classes : \E i \in DOMAIN queue[c] : queue[c][i].id = n)
      ~> \E m \in {delivered[i] : i \in DOMAIN delivered} \cup lost : m.id = n
=============================================================================
