-------------------------- MODULE EventQueue_proofs --------------------------
(* Type correctness, the batcher's fairness between classes, and that no       *)
(* message is doubled, forgotten, swapped or lost without need, for any number *)
(* of goroutines and messages and any sizes of queues and batches.             *)
EXTENDS EventQueue, SequenceTheorems, TLAPS

USE QueueAssumption

-----------------------------------------------------------------------------
\* Whoever is in enqueueLatest has an event that is not a state event.
SendInv == \A p \in Producers :
  /\ evicting[p] => sending[p] # NoMessage
  /\ sending[p] # NoMessage => sending[p].class # "state"

\* What the batcher knows at each select: past the first one no state event had
\* been waiting, past the second one the burst is not full.
OvertakeInv ==
  /\ \A c \in Classes : queue[c] = <<>> => overtaken[c] = 0
  /\ overtaken["state"] <= 1
  /\ loc # "state" => overtaken["state"] = 0
  /\ loc \in {"priority", "any"} => burst < PriorityBurst
  /\ overtaken["bulk"] <= burst

QueueInv == TypeOK /\ SendInv /\ OvertakeInv /\ BatchHasDeadline

-----------------------------------------------------------------------------
LEMMA InitQueueInv == Init => QueueInv
<1> SUFFICES ASSUME Init PROVE QueueInv
  OBVIOUS
<1>1. <<>> \in Seq(Messages) /\ Len(<<>>) = 0
  BY EmptySeq
<1>2. TypeOK
  BY <1>1 DEF Init, TypeOK
<1>3. SendInv /\ OvertakeInv /\ BatchHasDeadline
  BY DEF Init, Classes, SendInv, OvertakeInv, BatchHasDeadline
<1>4. QED
  BY <1>2, <1>3 DEF QueueInv

\* A message appended to the batch leaves a batch that is typed, short and timed.
LEMMA AppendMessageKeeps ==
  ASSUME TypeOK, BatchHasDeadline, NEW m \in Messages, AppendMessage(m)
  PROVE  /\ batch' \in Seq(Messages) /\ Len(batch') < BatchSize
         /\ deadline' \in {"none", "armed", "expired"}
         /\ delivered' \in Seq(Messages)
         /\ BatchHasDeadline'
<1>1. /\ batch \in Seq(Messages) /\ delivered \in Seq(Messages)
      /\ Append(batch, m) \in Seq(Messages)
      /\ Len(Append(batch, m)) = Len(batch) + 1
      /\ Append(batch, m) # <<>>
      /\ Len(batch) \in Nat
  <2>1. batch \in Seq(Messages) /\ delivered \in Seq(Messages)
    BY DEF TypeOK
  <2>2. Append(batch, m) \in Seq(Messages) /\ Len(Append(batch, m)) = Len(batch) + 1
    BY <2>1, AppendProperties
  <2>3. Len(batch) \in Nat
    BY <2>1, LenProperties
  <2>4. Append(batch, m) # <<>>
    BY <2>2, <2>3, EmptySeq
  <2>5. QED
    BY <2>1, <2>2, <2>3, <2>4
<1>2. CASE Len(batch) + 1 >= BatchSize
  <2>1. delivered' \in Seq(Messages)
    <3>1. delivered' = delivered \o Append(batch, m)
      BY <1>2 DEF AppendMessage
    <3>2. delivered \o Append(batch, m) \in Seq(Messages)
      BY <1>1
    <3>3. QED
      BY <3>1, <3>2
  <2>2. batch' = <<>> /\ deadline' = "none" /\ batch' \in Seq(Messages) /\ Len(batch') = 0
    BY <1>2, EmptySeq DEF AppendMessage
  <2>3. QED
    BY <2>1, <2>2 DEF BatchHasDeadline
<1>3. CASE ~(Len(batch) + 1 >= BatchSize)
  <2>1. /\ batch' = Append(batch, m) /\ delivered' = delivered
        /\ deadline' = IF batch = <<>> THEN "armed" ELSE deadline
    BY <1>3 DEF AppendMessage
  <2>2. deadline \in {"none", "armed", "expired"} /\ (batch # <<>> => deadline # "none")
    BY DEF TypeOK, BatchHasDeadline
  <2>3. Len(batch') < BatchSize
    BY <1>1, <1>3, <2>1
  <2>4. deadline' \in {"armed", "expired"}
    BY <2>1, <2>2
  <2>5. QED
    BY <1>1, <2>1, <2>3, <2>4 DEF BatchHasDeadline
<1>4. QED
  BY <1>2, <1>3

\* Taking a message keeps the channels and the waiting counts typed, serves its
\* class and counts against the others.
LEMMA TakeKeeps ==
  ASSUME TypeOK, BatchHasDeadline, OvertakeInv, NEW c \in Classes, Take(c)
  PROVE  /\ queue' \in [Classes -> Seq(Messages)]
         /\ \A d \in Classes : Len(queue'[d]) <= QueueSize
         /\ batch' \in Seq(Messages) /\ Len(batch') < BatchSize
         /\ deadline' \in {"none", "armed", "expired"}
         /\ delivered' \in Seq(Messages)
         /\ BatchHasDeadline'
         /\ loc' = "state"
         /\ overtaken' \in [Classes -> Nat]
         /\ \A d \in Classes : queue'[d] = <<>> => overtaken'[d] = 0
         /\ overtaken'[c] = 0
         /\ c = "state" => \A d \in Classes : overtaken'[d] <= overtaken[d]
         /\ \A d \in Classes : overtaken'[d] <= overtaken[d] + 1
<1>1. /\ queue[c] \in Seq(Messages) /\ Len(queue[c]) \in Nat
      /\ Head(queue[c]) \in Messages /\ Tail(queue[c]) \in Seq(Messages)
      /\ Len(Tail(queue[c])) = Len(queue[c]) - 1
  <2>1. queue[c] \in Seq(Messages) /\ queue[c] # <<>>
    BY DEF Take, TypeOK
  <2>2. QED
    BY <2>1, HeadTailProperties, LenProperties
<1>2. /\ batch' \in Seq(Messages) /\ Len(batch') < BatchSize
      /\ deadline' \in {"none", "armed", "expired"}
      /\ delivered' \in Seq(Messages)
      /\ BatchHasDeadline'
  <2>1. AppendMessage(Head(queue[c]))
    BY DEF Take
  <2>2. QED
    BY <1>1, <2>1, AppendMessageKeeps
<1>3. /\ queue' \in [Classes -> Seq(Messages)]
      /\ \A d \in Classes : Len(queue'[d]) <= QueueSize
      /\ \A d \in Classes \ {c} : queue'[d] = queue[d]
  <2>1. queue' = [queue EXCEPT ![c] = Tail(queue[c])]
    BY DEF Take
  <2>2. QED
    BY <1>1, <2>1 DEF TypeOK
<1>4. overtaken' = [d \in Classes |->
        IF d = c \/ queue[d] = <<>> THEN 0
        ELSE IF c = "state" THEN overtaken[d] ELSE overtaken[d] + 1]
  BY DEF Take
<1>5. \A d \in Classes : overtaken[d] \in Nat
  BY DEF TypeOK
<1>6. \A d \in Classes : queue'[d] = <<>> => overtaken'[d] = 0
  BY <1>3, <1>4
<1>7. /\ overtaken' \in [Classes -> Nat]
      /\ overtaken'[c] = 0
      /\ c = "state" => \A d \in Classes : overtaken'[d] <= overtaken[d]
      /\ \A d \in Classes : overtaken'[d] <= overtaken[d] + 1
  BY <1>4, <1>5
<1>8. QED
  BY <1>2, <1>3, <1>6, <1>7 DEF Take

\* A step of the batcher that takes a message keeps the invariant.
LEMMA TakeStep ==
  ASSUME QueueInv, NEW c \in Classes, Take(c),
         UNCHANGED <<producerVars, lost>>,
         burst' \in 0..PriorityBurst,
         c # "state" => loc # "state",
         c = "state" => burst' = burst,
         c = "priority" => burst' = burst + 1
  PROVE  QueueInv'
<1>1. TypeOK /\ BatchHasDeadline /\ OvertakeInv
  BY DEF QueueInv
<1>2. /\ queue' \in [Classes -> Seq(Messages)]
      /\ \A d \in Classes : Len(queue'[d]) <= QueueSize
      /\ batch' \in Seq(Messages) /\ Len(batch') < BatchSize
      /\ deadline' \in {"none", "armed", "expired"}
      /\ delivered' \in Seq(Messages)
      /\ BatchHasDeadline'
      /\ loc' = "state"
      /\ overtaken' \in [Classes -> Nat]
      /\ \A d \in Classes : queue'[d] = <<>> => overtaken'[d] = 0
      /\ overtaken'[c] = 0
      /\ c = "state" => \A d \in Classes : overtaken'[d] <= overtaken[d]
      /\ \A d \in Classes : overtaken'[d] <= overtaken[d] + 1
  BY <1>1, TakeKeeps
<1>3. TypeOK'
  BY <1>1, <1>2 DEF TypeOK, producerVars
<1>4. SendInv'
  BY DEF QueueInv, SendInv, producerVars
<1>5. OvertakeInv'
  <2>1. /\ "state" \in Classes /\ "bulk" \in Classes
        /\ overtaken["state"] \in Nat /\ overtaken["bulk"] \in Nat
        /\ overtaken'["state"] \in Nat /\ overtaken'["bulk"] \in Nat
        /\ burst \in Nat /\ burst' \in Nat
    BY <1>1, <1>2 DEF Classes, TypeOK
  <2>2. /\ overtaken["state"] <= 1 /\ overtaken["bulk"] <= burst
        /\ loc # "state" => overtaken["state"] = 0
    BY <1>1 DEF OvertakeInv
  <2>3. /\ overtaken'[c] = 0
        /\ c = "state" => overtaken'["bulk"] <= overtaken["bulk"]
        /\ overtaken'["state"] <= overtaken["state"] + 1
        /\ overtaken'["bulk"] <= overtaken["bulk"] + 1
    BY <1>2, <2>1
  <2>4. overtaken'["state"] <= 1
    <3>1. CASE c = "state"
      BY <2>3, <3>1
    <3>2. CASE c # "state"
      <4>1. overtaken["state"] = 0
        BY <2>2, <3>2
      <4>2. QED
        BY <2>1, <2>3, <4>1
    <3>3. QED
      BY <3>1, <3>2
  <2>5. overtaken'["bulk"] <= burst'
    <3>1. CASE c = "state"
      <4>1. burst' = burst /\ overtaken'["bulk"] <= overtaken["bulk"]
        BY <2>3, <3>1
      <4>2. QED
        BY <2>1, <2>2, <4>1
    <3>2. CASE c = "priority"
      <4>1. burst' = burst + 1
        BY <3>2
      <4>2. QED
        BY <2>1, <2>2, <2>3, <4>1
    <3>3. CASE c = "bulk"
      <4>1. overtaken'["bulk"] = 0
        BY <2>3, <3>3
      <4>2. QED
        BY <2>1, <4>1
    <3>4. QED
      BY <3>1, <3>2, <3>3 DEF Classes
  <2>6. QED
    BY <1>2, <2>4, <2>5 DEF OvertakeInv
<1>6. QED
  BY <1>2, <1>3, <1>4, <1>5 DEF QueueInv

\* A poll that found its channel empty keeps the invariant.
LEMMA EmptyPoll ==
  ASSUME QueueInv,
         UNCHANGED <<producerVars, lost, queue, batch, deadline, delivered, overtaken>>,
         loc' \in {"bulk", "priority", "any"},
         queue["state"] = <<>> \/ loc # "state",
         burst' \in 0..PriorityBurst, overtaken["bulk"] <= burst',
         loc' \in {"priority", "any"} => burst' < PriorityBurst
  PROVE  QueueInv'
<1>1. TypeOK'
  BY DEF QueueInv, TypeOK, producerVars
<1>2. SendInv' /\ BatchHasDeadline'
  BY DEF QueueInv, SendInv, BatchHasDeadline, producerVars
<1>3. OvertakeInv'
  BY DEF QueueInv, OvertakeInv, Classes
<1>4. QED
  BY <1>1, <1>2, <1>3 DEF QueueInv

-----------------------------------------------------------------------------
LEMMA SendMessageInv ==
  ASSUME QueueInv, NEW p \in Producers, SendMessage(p)
  PROVE  QueueInv'
<1>1. PICK c \in Classes :
        LET m == [id |-> submitted + 1, class |-> c, from |-> p]
        IN  EnqueueState(m) \/ BeginLatest(p, m)
  BY DEF SendMessage
<1> DEFINE m == [id |-> submitted + 1, class |-> c, from |-> p]
<1>2. m \in Messages /\ m.class = c /\ m # NoMessage
  BY DEF SendMessage, QueueInv, TypeOK, Messages
<1>3. EnqueueState(m) \/ BeginLatest(p, m)
  BY <1>1
<1> HIDE DEF m
<1>4. /\ submitted' = submitted + 1 /\ submitted' \in 0..MaxMessages
      /\ sending[p] = NoMessage
      /\ UNCHANGED <<evicting, batcherVars, overtaken>>
  BY DEF SendMessage, QueueInv, TypeOK
<1>5. BatchHasDeadline'
  BY <1>4 DEF batcherVars, QueueInv, BatchHasDeadline
<1>6. CASE EnqueueState(m)
  <2>1. /\ queue' \in [Classes -> Seq(Messages)]
        /\ \A d \in Classes : Len(queue'[d]) <= QueueSize
        /\ \A d \in Classes : queue'[d] = <<>> => queue[d] = <<>>
        /\ lost' \subseteq Messages
    <3>1. CASE Full("state")
      BY <1>2, <1>6, <3>1 DEF EnqueueState, QueueInv, TypeOK
    <3>2. CASE ~Full("state")
      <4>1. /\ "state" \in Classes /\ queue["state"] \in Seq(Messages)
            /\ Append(queue["state"], m) \in Seq(Messages)
            /\ Len(Append(queue["state"], m)) = Len(queue["state"]) + 1
            /\ Len(queue["state"]) \in Nat /\ Append(queue["state"], m) # <<>>
        <5>1. "state" \in Classes /\ queue["state"] \in Seq(Messages)
          BY DEF Classes, QueueInv, TypeOK
        <5>2. QED
          BY <1>2, <5>1, AppendProperties, LenProperties, EmptySeq
      <4>2. queue' = [queue EXCEPT !["state"] = Append(queue["state"], m)] /\ lost' = lost
        BY <1>6, <3>2 DEF EnqueueState
      <4>3. Len(queue["state"]) <= QueueSize /\ Len(queue["state"]) # QueueSize
        BY <3>2, <4>1 DEF Full, QueueInv, TypeOK
      <4>4. QED
        BY <4>1, <4>2, <4>3 DEF QueueInv, TypeOK
    <3>3. QED
      BY <3>1, <3>2
  <2>2. TypeOK'
    BY <1>4, <1>6, <2>1 DEF EnqueueState, batcherVars, QueueInv, TypeOK
  <2>3. SendInv'
    BY <1>4, <1>6 DEF EnqueueState, QueueInv, SendInv
  <2>4. OvertakeInv'
    BY <1>4, <2>1 DEF batcherVars, QueueInv, OvertakeInv
  <2>5. QED
    BY <1>5, <2>2, <2>3, <2>4 DEF QueueInv
<1>7. CASE BeginLatest(p, m)
  <2>1. TypeOK'
    <3>1. sending' \in [Producers -> Messages \cup {NoMessage}]
      BY <1>2, <1>7 DEF BeginLatest, QueueInv, TypeOK
    <3>2. /\ attempt' \in [Producers -> 0..(EvictAttempts - 1)]
          /\ rivals' \in [Producers -> Nat]
          /\ UNCHANGED <<queue, lost>>
      BY <1>7 DEF BeginLatest, QueueInv, TypeOK
    <3>3. QED
      BY <1>4, <3>1, <3>2 DEF batcherVars, QueueInv, TypeOK
  <2>2. SendInv'
    BY <1>2, <1>4, <1>7 DEF BeginLatest, QueueInv, TypeOK, SendInv
  <2>3. OvertakeInv'
    BY <1>4, <1>7 DEF BeginLatest, batcherVars, QueueInv, OvertakeInv
  <2>4. QED
    BY <1>5, <2>1, <2>2, <2>3 DEF QueueInv
<1>8. QED
  BY <1>3, <1>6, <1>7

LEMMA OfferInv ==
  ASSUME QueueInv, NEW p \in Producers, Offer(p)
  PROVE  QueueInv'
<1> DEFINE c == sending[p].class
<1>1. sending[p] \in Messages /\ c \in Classes /\ sending[p] # NoMessage
  BY DEF Offer, QueueInv, TypeOK, Messages
<1>2. BatchHasDeadline' /\ UNCHANGED <<submitted, attempt, batcherVars, lost, overtaken>>
  BY DEF Offer, batcherVars, QueueInv, BatchHasDeadline
<1>3. CASE ~Full(c)
  <2>1. /\ queue' = [queue EXCEPT ![c] = Append(queue[c], sending[p])]
        /\ sending' = [sending EXCEPT ![p] = NoMessage]
        /\ UNCHANGED evicting
        /\ ~evicting[p]
    BY <1>3 DEF Offer
  <2>2. rivals' \in [Producers -> Nat]
    <3>1. \A q \in Producers : rivals'[q] \in {rivals[q], rivals[q] + 1}
      BY <1>3 DEF Offer
    <3>2. DOMAIN rivals' = Producers /\ rivals' = [q \in Producers |-> rivals'[q]]
      BY <1>3 DEF Offer
    <3>3. \A q \in Producers : rivals[q] \in Nat
      BY DEF QueueInv, TypeOK
    <3>4. QED
      BY <3>1, <3>2, <3>3
  <2>3. /\ queue[c] \in Seq(Messages) /\ Len(queue[c]) \in Nat
        /\ Append(queue[c], sending[p]) \in Seq(Messages)
        /\ Len(Append(queue[c], sending[p])) = Len(queue[c]) + 1
        /\ Append(queue[c], sending[p]) # <<>>
    <3>1. queue[c] \in Seq(Messages)
      BY <1>1 DEF QueueInv, TypeOK
    <3>2. QED
      BY <1>1, <3>1, AppendProperties, LenProperties, EmptySeq
  <2>4. Len(queue[c]) <= QueueSize /\ Len(queue[c]) # QueueSize
    BY <1>1, <1>3, <2>3 DEF Full, QueueInv, TypeOK
  <2>5. /\ queue' \in [Classes -> Seq(Messages)]
        /\ \A d \in Classes : Len(queue'[d]) <= QueueSize
        /\ \A d \in Classes : queue'[d] = <<>> => queue[d] = <<>>
    BY <1>1, <2>1, <2>3, <2>4 DEF QueueInv, TypeOK
  <2>6. TypeOK'
    BY <1>2, <2>1, <2>2, <2>5 DEF batcherVars, QueueInv, TypeOK
  <2>7. SendInv'
    BY <2>1 DEF QueueInv, TypeOK, SendInv
  <2>8. OvertakeInv'
    BY <1>2, <2>5 DEF batcherVars, QueueInv, OvertakeInv
  <2>9. QED
    BY <1>2, <2>6, <2>7, <2>8 DEF QueueInv
<1>4. CASE Full(c)
  <2>1. evicting' = [evicting EXCEPT ![p] = TRUE] /\ UNCHANGED <<queue, sending, rivals>>
    BY <1>4 DEF Offer
  <2>2. evicting' \in [Producers -> BOOLEAN]
    BY <2>1, Zenon DEF QueueInv, TypeOK
  <2>3. TypeOK'
    BY <1>2, <2>1, <2>2 DEF batcherVars, QueueInv, TypeOK
  <2>4. SendInv'
    BY <1>1, <2>1 DEF QueueInv, TypeOK, SendInv
  <2>5. OvertakeInv'
    BY <1>2, <2>1 DEF batcherVars, QueueInv, OvertakeInv
  <2>6. QED
    BY <1>2, <2>3, <2>4, <2>5 DEF QueueInv
<1>5. QED
  BY <1>3, <1>4

LEMMA EvictInv ==
  ASSUME QueueInv, NEW p \in Producers, Evict(p)
  PROVE  QueueInv'
<1> DEFINE c == sending[p].class
           last == attempt[p] + 1 = EvictAttempts
<1>1. sending[p] \in Messages /\ c \in Classes /\ sending[p] # NoMessage
  BY DEF Evict, QueueInv, TypeOK, SendInv, Messages
<1>2. /\ queue' = [queue EXCEPT ![c] = IF @ = <<>> THEN @ ELSE Tail(@)]
      /\ overtaken' = Waits(overtaken, c)
      /\ lost' = lost \cup {queue[c][i] : i \in DOMAIN queue[c] \cap {1}}
                      \cup {m \in {sending[p]} : last}
      /\ sending' = [sending EXCEPT ![p] = IF last THEN NoMessage ELSE @]
      /\ attempt' = [attempt EXCEPT ![p] = IF last THEN 0 ELSE @ + 1]
      /\ evicting' = [evicting EXCEPT ![p] = FALSE]
      /\ UNCHANGED <<submitted, rivals, batcherVars>>
  BY DEF Evict
<1>3. queue[c] \in Seq(Messages) /\ Len(queue[c]) \in Nat /\ Len(queue[c]) <= QueueSize
      /\ DOMAIN queue[c] = 1..Len(queue[c])
  BY <1>1, LenProperties DEF QueueInv, TypeOK
<1>4. /\ queue' \in [Classes -> Seq(Messages)]
      /\ \A d \in Classes : Len(queue'[d]) <= QueueSize
      /\ \A d \in Classes \ {c} : queue'[d] = queue[d]
  <2>1. CASE queue[c] = <<>>
    BY <1>1, <1>2, <1>3, <2>1 DEF QueueInv, TypeOK
  <2>2. CASE queue[c] # <<>>
    <3>1. Tail(queue[c]) \in Seq(Messages) /\ Len(Tail(queue[c])) = Len(queue[c]) - 1
      BY <1>3, <2>2, HeadTailProperties
    <3>2. QED
      BY <1>1, <1>2, <1>3, <2>2, <3>1 DEF QueueInv, TypeOK
  <2>3. QED
    BY <2>1, <2>2
<1>5. lost' \subseteq Messages
  <2>1. \A i \in DOMAIN queue[c] : queue[c][i] \in Messages
    BY <1>3, ElementOfSeq
  <2>2. QED
    BY <1>1, <1>2, <2>1 DEF QueueInv, TypeOK
<1>6. /\ overtaken' \in [Classes -> Nat]
      /\ \A d \in Classes : overtaken'[d] <= overtaken[d]
      /\ \A d \in Classes : queue'[d] = <<>> => overtaken'[d] = 0
  <2>1. overtaken \in [Classes -> Nat]
        /\ \A d \in Classes : queue[d] = <<>> => overtaken[d] = 0
    BY DEF QueueInv, TypeOK, OvertakeInv
  <2>2. CASE queue'[c] = <<>>
    <3>1. overtaken' = [overtaken EXCEPT ![c] = 0]
      BY <1>2, <2>2 DEF Waits
    <3> HIDE DEF c
    <3>2. overtaken' \in [Classes -> Nat] /\ \A d \in Classes : overtaken'[d] <= overtaken[d]
      <4>1. overtaken' \in [Classes -> Nat]
        BY <2>1, <3>1
      <4>2. \A d \in Classes : overtaken'[d] = IF d = c THEN 0 ELSE overtaken[d]
        BY <1>1, <2>1, <3>1
      <4>3. \A d \in Classes : overtaken[d] \in Nat
        BY <2>1
      <4>4. QED
        BY <4>1, <4>2, <4>3
    <3>3. overtaken'[c] = 0
      BY <1>1, <2>1, <3>1
    <3>4. \A d \in Classes \ {c} : queue'[d] = <<>> => overtaken'[d] = 0
      BY <1>4, <2>1, <3>1
    <3>5. QED
      BY <3>2, <3>3, <3>4
  <2>3. CASE queue'[c] # <<>>
    <3>1. overtaken' = overtaken
      BY <1>2, <2>3 DEF Waits
    <3>2. overtaken' \in [Classes -> Nat] /\ \A d \in Classes : overtaken'[d] <= overtaken[d]
      BY <2>1, <3>1
    <3>3. \A d \in Classes \ {c} : queue'[d] = <<>> => overtaken'[d] = 0
      BY <1>4, <2>1, <3>1
    <3>4. QED
      BY <2>3, <3>2, <3>3
  <2>4. QED
    BY <2>2, <2>3
<1>7. /\ attempt' \in [Producers -> 0..(EvictAttempts - 1)]
      /\ sending' \in [Producers -> Messages \cup {NoMessage}]
  BY <1>2 DEF QueueInv, TypeOK
<1>8. evicting' \in [Producers -> BOOLEAN]
  BY <1>2, Zenon DEF QueueInv, TypeOK
<1>9. TypeOK'
  BY <1>2, <1>4, <1>5, <1>6, <1>7, <1>8 DEF batcherVars, QueueInv, TypeOK
<1>10. SendInv'
  BY <1>2 DEF QueueInv, TypeOK, SendInv
<1>11. OvertakeInv' /\ BatchHasDeadline'
  <2>1. /\ overtaken'["state"] <= overtaken["state"] /\ overtaken["state"] \in Nat
        /\ overtaken'["bulk"] <= overtaken["bulk"] /\ overtaken["bulk"] \in Nat
        /\ overtaken'["state"] \in Nat /\ overtaken'["bulk"] \in Nat
        /\ burst \in Nat
    BY <1>6 DEF Classes, QueueInv, TypeOK
  <2>2. QED
    BY <1>2, <1>6, <2>1 DEF batcherVars, QueueInv, OvertakeInv, BatchHasDeadline
<1>12. QED
  BY <1>9, <1>10, <1>11 DEF QueueInv

-----------------------------------------------------------------------------
LEMMA PollStateInv ==
  ASSUME QueueInv, PollState
  PROVE  QueueInv'
<1>1. /\ UNCHANGED <<burst, producerVars, lost>> /\ loc = "state"
      /\ burst \in 0..PriorityBurst /\ "state" \in Classes
      /\ overtaken["bulk"] <= burst
  BY DEF PollState, QueueInv, TypeOK, OvertakeInv, Classes
<1>2. CASE Take("state")
  BY <1>1, <1>2, TakeStep
<1>3. CASE /\ queue["state"] = <<>>
           /\ loc' = IF burst >= PriorityBurst THEN "bulk" ELSE "priority"
           /\ UNCHANGED <<queue, batch, deadline, delivered, overtaken>>
  BY <1>1, <1>3, EmptyPoll
<1>4. QED
  BY <1>2, <1>3 DEF PollState

LEMMA PollBulkInv ==
  ASSUME QueueInv, PollBulk
  PROVE  QueueInv'
<1>1. /\ UNCHANGED <<producerVars, lost>> /\ loc = "bulk" /\ burst' = 0
      /\ "bulk" \in Classes
  BY DEF PollBulk, Classes
<1>2. CASE Take("bulk")
  BY <1>1, <1>2, TakeStep
<1>3. CASE /\ queue["bulk"] = <<>>
           /\ loc' = "priority"
           /\ UNCHANGED <<queue, batch, deadline, delivered, overtaken>>
  <2>1. overtaken["bulk"] = 0
    BY <1>1, <1>3 DEF QueueInv, OvertakeInv
  <2>2. QED
    BY <1>1, <1>3, <2>1, EmptyPoll
<1>4. QED
  BY <1>2, <1>3 DEF PollBulk

LEMMA PollPriorityInv ==
  ASSUME QueueInv, PollPriority
  PROVE  QueueInv'
<1>1. /\ UNCHANGED <<producerVars, lost>> /\ loc = "priority"
      /\ "priority" \in Classes
      /\ burst \in 0..PriorityBurst /\ burst < PriorityBurst
      /\ overtaken["bulk"] <= burst
  BY DEF PollPriority, Classes, QueueInv, TypeOK, OvertakeInv
<1>2. CASE Take("priority") /\ burst' = burst + 1
  BY <1>1, <1>2, TakeStep
<1>3. CASE /\ queue["priority"] = <<>>
           /\ loc' = "any"
           /\ UNCHANGED <<queue, burst, batch, deadline, delivered, overtaken>>
  BY <1>1, <1>3, EmptyPoll
<1>4. QED
  BY <1>2, <1>3 DEF PollPriority

LEMMA SelectAnyInv ==
  ASSUME QueueInv, SelectAny
  PROVE  QueueInv'
<1>1. /\ UNCHANGED <<producerVars, lost>> /\ loc = "any"
      /\ "state" \in Classes /\ "priority" \in Classes /\ "bulk" \in Classes
      /\ burst \in 0..PriorityBurst /\ burst < PriorityBurst
  BY DEF SelectAny, Classes, QueueInv, TypeOK, OvertakeInv
<1>2. CASE Take("state") /\ UNCHANGED burst
  BY <1>1, <1>2, TakeStep
<1>3. CASE Take("priority") /\ burst' = burst + 1
  BY <1>1, <1>3, TakeStep
<1>4. CASE Take("bulk") /\ burst' = 0
  BY <1>1, <1>4, TakeStep
<1>5. CASE Flush
  <2>1. delivered' \in Seq(Messages) /\ batch' \in Seq(Messages) /\ Len(batch') = 0
    BY <1>5, ConcatProperties, EmptySeq DEF Flush, QueueInv, TypeOK
  <2>2. TypeOK'
    BY <1>1, <1>5, <2>1 DEF Flush, producerVars, QueueInv, TypeOK
  <2>3. SendInv'
    BY <1>1 DEF producerVars, QueueInv, SendInv
  <2>4. OvertakeInv' /\ BatchHasDeadline'
    BY <1>5 DEF Flush, QueueInv, OvertakeInv, BatchHasDeadline
  <2>5. QED
    BY <2>2, <2>3, <2>4 DEF QueueInv
<1>6. QED
  BY <1>2, <1>3, <1>4, <1>5 DEF SelectAny

LEMMA TimerFiresInv ==
  ASSUME QueueInv, TimerFires
  PROVE  QueueInv'
<1>1. TypeOK'
  BY DEF TimerFires, producerVars, QueueInv, TypeOK
<1>2. SendInv' /\ OvertakeInv' /\ BatchHasDeadline'
  BY DEF TimerFires, producerVars, QueueInv, SendInv, OvertakeInv, BatchHasDeadline
<1>3. QED
  BY <1>1, <1>2 DEF QueueInv

LEMMA NextQueueInv ==
  ASSUME QueueInv, [Next]_vars
  PROVE  QueueInv'
<1>1. CASE Next
  BY <1>1, SendMessageInv, OfferInv, EvictInv, PollStateInv, PollBulkInv,
     PollPriorityInv, SelectAnyInv, TimerFiresInv DEF Next, Produce, Batcher
<1>2. CASE UNCHANGED vars
  <2>1. TypeOK'
    BY <1>2 DEF vars, producerVars, batcherVars, QueueInv, TypeOK
  <2>2. SendInv' /\ OvertakeInv' /\ BatchHasDeadline'
    BY <1>2 DEF vars, producerVars, batcherVars, QueueInv, SendInv, OvertakeInv,
       BatchHasDeadline
  <2>3. QED
    BY <2>1, <2>2 DEF QueueInv
<1>3. QED
  BY <1>1, <1>2

THEOREM Invariance == Spec => []QueueInv
  BY InitQueueInv, NextQueueInv, PTL DEF Spec

\* Type correctness: channels, batch and counters keep their types and bounds,
\* whatever the sizes (message.go:8-20, 78-117).
THEOREM TypeCorrect == Spec => []TypeOK
<1>1. QueueInv => TypeOK
  BY DEF QueueInv
<1>2. QED
  BY <1>1, Invariance, PTL

\* A waiting state event is overtaken at most once, a waiting bulk event by at
\* most a burst of priority events, for every burst (message.go:120-184).
THEOREM BoundedOvertaking == Spec => []OvertakingBounded
<1>1. QueueInv => OvertakingBounded
  BY DEF QueueInv, TypeOK, OvertakeInv, OvertakingBounded, Classes
<1>2. QED
  BY <1>1, Invariance, PTL

\* No batch is left without a timer (message.go:90-117).
THEOREM TimedBatches == Spec => []BatchHasDeadline
<1>1. QueueInv => BatchHasDeadline
  BY DEF QueueInv
<1>2. QED
  BY <1>1, Invariance, PTL

-----------------------------------------------------------------------------
(* Where every message is, and in which order.                              *)

Elements(s) == {s[i] : i \in DOMAIN s}
Apart(S, T) == \A m \in S, n \in T : m.id # n.id
Distinct(s) == \A i, j \in DOMAIN s : i # j => s[i].id # s[j].id
SameSource(m, n) == m.class = n.class /\ m.from = n.from
Before(S, T) == \A m \in S, n \in T : SameSource(m, n) => m.id < n.id
Ordered(s) == \A i, j \in DOMAIN s : i < j /\ SameSource(s[i], s[j]) => s[i].id < s[j].id

LEMMA AppendFacts ==
  ASSUME NEW s \in Seq(Messages), NEW m \in Messages
  PROVE  /\ Append(s, m) \in Seq(Messages)
         /\ Elements(Append(s, m)) = Elements(s) \cup {m}
         /\ Distinct(s) /\ Apart(Elements(s), {m}) => Distinct(Append(s, m))
         /\ Ordered(s) /\ Before(Elements(s), {m}) => Ordered(Append(s, m))
<1> DEFINE t == Append(s, m)
<1>1. /\ t \in Seq(Messages) /\ Len(s) \in Nat /\ Len(t) = Len(s) + 1
      /\ DOMAIN s = 1..Len(s) /\ DOMAIN t = 1..Len(t)
      /\ \A i \in DOMAIN s : t[i] = s[i]
      /\ t[Len(s) + 1] = m
  BY AppendProperties, LenProperties
<1> HIDE DEF t
<1>2. Elements(t) = Elements(s) \cup {m}
  BY <1>1 DEF Elements
<1>3. \A i \in DOMAIN t : i \in DOMAIN s \/ i = Len(s) + 1
  BY <1>1
<1>4. ASSUME Distinct(s), Apart(Elements(s), {m})
      PROVE  Distinct(t)
  <2>1. \A i \in DOMAIN s : s[i].id # m.id
    BY <1>4 DEF Apart, Elements
  <2>2. QED
    BY <1>1, <1>3, <1>4, <2>1 DEF Distinct
<1>5. ASSUME Ordered(s), Before(Elements(s), {m})
      PROVE  Ordered(t)
  <2>1. \A i \in DOMAIN s : SameSource(s[i], m) => s[i].id < m.id
    BY <1>5 DEF Before, Elements
  <2>2. SUFFICES ASSUME NEW i \in DOMAIN t, NEW j \in DOMAIN t, i < j, SameSource(t[i], t[j])
                 PROVE  t[i].id < t[j].id
    BY DEF Ordered
  <2>3. i \in DOMAIN s
    BY <1>1, <2>2
  <2>4. CASE j \in DOMAIN s
    BY <1>1, <1>5, <2>2, <2>3, <2>4 DEF Ordered
  <2>5. CASE j = Len(s) + 1
    BY <1>1, <2>1, <2>2, <2>3, <2>5
  <2>6. QED
    BY <1>3, <2>4, <2>5
<1>6. QED
  BY <1>1, <1>2, <1>4, <1>5 DEF t

LEMMA TailFacts ==
  ASSUME NEW s \in Seq(Messages), s # <<>>
  PROVE  /\ Head(s) \in Messages /\ Head(s) = s[1] /\ Tail(s) \in Seq(Messages)
         /\ Elements(s) = Elements(Tail(s)) \cup {Head(s)}
         /\ Distinct(s) => /\ Distinct(Tail(s))
                           /\ Apart(Elements(Tail(s)), {Head(s)})
                           /\ \A i \in DOMAIN s : s[i].id = Head(s).id => i = 1
         /\ Ordered(s) => Ordered(Tail(s)) /\ Before({Head(s)}, Elements(Tail(s)))
<1> DEFINE t == Tail(s)
           h == Head(s)
<1>1. /\ h \in Messages /\ t \in Seq(Messages) /\ Len(s) \in Nat /\ Len(s) # 0
      /\ Len(t) = Len(s) - 1
      /\ DOMAIN s = 1..Len(s) /\ DOMAIN t = 1..Len(t)
      /\ \A i \in DOMAIN t : t[i] = s[i + 1]
      /\ h = s[1]
  BY HeadTailProperties, LenProperties, EmptySeq
<1> HIDE DEF t, h
<1>2. /\ \A i \in DOMAIN t : i + 1 \in DOMAIN s /\ i + 1 # 1 /\ i \in Nat
      /\ 1 \in DOMAIN s
      /\ \A i \in DOMAIN s : i # 1 => i - 1 \in DOMAIN t /\ t[i - 1] = s[i]
  BY <1>1
<1>3. Elements(s) = Elements(t) \cup {h}
  <2>1. \A m \in Elements(s) : m \in Elements(t) \cup {h}
    BY <1>1, <1>2 DEF Elements
  <2>2. \A m \in Elements(t) \cup {h} : m \in Elements(s)
    BY <1>1, <1>2 DEF Elements
  <2>3. QED
    BY <2>1, <2>2
<1>4. ASSUME Distinct(s)
      PROVE  Distinct(t) /\ Apart(Elements(t), {h}) /\ \A i \in DOMAIN s : s[i].id = h.id => i = 1
  <2>1. Distinct(t)
    BY <1>1, <1>2, <1>4 DEF Distinct
  <2>2. \A i \in DOMAIN s : s[i].id = h.id => i = 1
    BY <1>1, <1>2, <1>4 DEF Distinct
  <2>3. Apart(Elements(t), {h})
    BY <1>1, <1>2, <2>2 DEF Apart, Elements
  <2>4. QED
    BY <2>1, <2>2, <2>3
<1>5. ASSUME Ordered(s)
      PROVE  Ordered(t) /\ Before({h}, Elements(t))
  <2>1. Ordered(t)
    <3>1. SUFFICES ASSUME NEW i \in DOMAIN t, NEW j \in DOMAIN t, i < j, SameSource(t[i], t[j])
                   PROVE  t[i].id < t[j].id
      BY DEF Ordered
    <3>2. i + 1 < j + 1 /\ t[i] = s[i + 1] /\ t[j] = s[j + 1]
      BY <1>1, <1>2, <3>1
    <3>3. QED
      BY <1>2, <1>5, <3>1, <3>2 DEF Ordered
  <2>2. Before({h}, Elements(t))
    <3>1. \A i \in DOMAIN t : 1 < i + 1
      BY <1>1, <1>2
    <3>2. \A i \in DOMAIN t : SameSource(h, t[i]) => h.id < t[i].id
      BY <1>1, <1>2, <1>5, <3>1 DEF Ordered
    <3>3. QED
      BY <3>2 DEF Before, Elements
  <2>3. QED
    BY <2>1, <2>2
<1>6. QED
  BY <1>1, <1>3, <1>4, <1>5 DEF t, h

LEMMA ConcatFacts ==
  ASSUME NEW s \in Seq(Messages), NEW t \in Seq(Messages)
  PROVE  /\ s \o t \in Seq(Messages)
         /\ Elements(s \o t) = Elements(s) \cup Elements(t)
         /\ Distinct(s) /\ Distinct(t) /\ Apart(Elements(s), Elements(t)) => Distinct(s \o t)
         /\ Ordered(s) /\ Ordered(t) /\ Before(Elements(s), Elements(t)) => Ordered(s \o t)
<1> DEFINE u == s \o t
<1>1. /\ u \in Seq(Messages) /\ Len(s) \in Nat /\ Len(t) \in Nat /\ Len(u) = Len(s) + Len(t)
      /\ DOMAIN s = 1..Len(s) /\ DOMAIN t = 1..Len(t) /\ DOMAIN u = 1..Len(u)
      /\ \A i \in 1..(Len(s) + Len(t)) : u[i] = IF i <= Len(s) THEN s[i] ELSE t[i - Len(s)]
  BY ConcatProperties, LenProperties
<1> HIDE DEF u
<1>2. /\ \A i \in DOMAIN u : \/ i \in DOMAIN s /\ u[i] = s[i]
                             \/ i > Len(s) /\ i - Len(s) \in DOMAIN t /\ u[i] = t[i - Len(s)]
      /\ \A i \in DOMAIN s : i \in DOMAIN u /\ u[i] = s[i] /\ i <= Len(s) /\ i \in Nat
      /\ \A i \in DOMAIN t : Len(s) + i \in DOMAIN u /\ u[Len(s) + i] = t[i]
  BY <1>1
<1>3. Elements(u) = Elements(s) \cup Elements(t)
  <2>1. \A m \in Elements(u) : m \in Elements(s) \cup Elements(t)
    BY <1>2 DEF Elements
  <2>2. \A m \in Elements(s) \cup Elements(t) : m \in Elements(u)
    BY <1>2 DEF Elements
  <2>3. QED
    BY <2>1, <2>2
<1>4. ASSUME Distinct(s), Distinct(t), Apart(Elements(s), Elements(t))
      PROVE  Distinct(u)
  <2>1. \A i \in DOMAIN s, j \in DOMAIN t : s[i].id # t[j].id
    BY <1>4 DEF Apart, Elements
  <2>2. SUFFICES ASSUME NEW i \in DOMAIN u, NEW j \in DOMAIN u, i # j
                 PROVE  u[i].id # u[j].id
    BY DEF Distinct
  <2>3. i \in Nat /\ j \in Nat
    BY <1>1
  <2>4. CASE i \in DOMAIN s /\ u[i] = s[i]
    BY <1>2, <1>4, <2>1, <2>2, <2>4 DEF Distinct
  <2>5. CASE i > Len(s) /\ i - Len(s) \in DOMAIN t /\ u[i] = t[i - Len(s)]
    <3>1. CASE j \in DOMAIN s /\ u[j] = s[j]
      BY <2>1, <2>5, <3>1
    <3>2. CASE j > Len(s) /\ j - Len(s) \in DOMAIN t /\ u[j] = t[j - Len(s)]
      <4>1. i - Len(s) # j - Len(s)
        BY <1>1, <2>2, <2>3
      <4>2. QED
        BY <1>4, <2>5, <3>2, <4>1 DEF Distinct
    <3>3. QED
      BY <1>2, <3>1, <3>2
  <2>6. QED
    BY <1>2, <2>4, <2>5
<1>5. ASSUME Ordered(s), Ordered(t), Before(Elements(s), Elements(t))
      PROVE  Ordered(u)
  <2>1. \A i \in DOMAIN s, j \in DOMAIN t : SameSource(s[i], t[j]) => s[i].id < t[j].id
    BY <1>5 DEF Before, Elements
  <2>2. SUFFICES ASSUME NEW i \in DOMAIN u, NEW j \in DOMAIN u, i < j, SameSource(u[i], u[j])
                 PROVE  u[i].id < u[j].id
    BY DEF Ordered
  <2>3. i \in Nat /\ j \in Nat
    BY <1>1
  <2>4. CASE i \in DOMAIN s /\ u[i] = s[i]
    <3>1. CASE j \in DOMAIN s /\ u[j] = s[j]
      BY <1>5, <2>2, <2>4, <3>1 DEF Ordered
    <3>2. CASE j > Len(s) /\ j - Len(s) \in DOMAIN t /\ u[j] = t[j - Len(s)]
      BY <2>1, <2>2, <2>4, <3>2
    <3>3. QED
      BY <1>2, <3>1, <3>2
  <2>5. CASE i > Len(s) /\ i - Len(s) \in DOMAIN t /\ u[i] = t[i - Len(s)]
    <3>1. /\ j > Len(s) /\ j - Len(s) \in DOMAIN t /\ u[j] = t[j - Len(s)]
          /\ i - Len(s) < j - Len(s)
      BY <1>1, <1>2, <2>2, <2>3, <2>5
    <3>2. QED
      BY <1>5, <2>2, <2>5, <3>1 DEF Ordered
  <2>6. QED
    BY <1>2, <2>4, <2>5
<1>6. QED
  BY <1>1, <1>3, <1>4, <1>5 DEF u

-----------------------------------------------------------------------------
Drained    == delivered \o batch
Gone       == Elements(Drained)
Waiting(c) == Elements(queue[c])
Held(p)    == {sending[p]} \ {NoMessage}

\* No message is in two places, and every id handed out is somewhere.
PlacesInv ==
  /\ Distinct(Drained) /\ Apart(Gone, lost)
  /\ \A c \in Classes : Distinct(queue[c]) /\ Apart(Waiting(c), Gone) /\ Apart(Waiting(c), lost)
  /\ \A c, d \in Classes : c # d => Apart(Waiting(c), Waiting(d))
  /\ \A p \in Producers : Apart(Held(p), Gone) /\ Apart(Held(p), lost)
  /\ \A p \in Producers, c \in Classes : Apart(Held(p), Waiting(c))
  /\ \A p, q \in Producers : p # q => Apart(Held(p), Held(q))

\* The ids handed out so far are those of the messages there are.
CountInv ==
  /\ \A m \in Gone \cup lost : m.id <= submitted
  /\ \A c \in Classes : \A m \in Waiting(c) : m.id <= submitted
  /\ \A p \in Producers : \A m \in Held(p) : m.id <= submitted
  /\ \A n \in 1..submitted :
       \/ \E m \in Gone \cup lost : m.id = n
       \/ \E c \in Classes : \E m \in Waiting(c) : m.id = n
       \/ \E p \in Producers : \E m \in Held(p) : m.id = n

\* Along the way of a class the ids of one goroutine only grow, and the message it
\* still tries to enqueue is its newest.
LineInv ==
  /\ \A p \in Producers : \A m \in Held(p) : m.from = p
  /\ \A c \in Classes : \A m \in Waiting(c) : m.class = c
  /\ Ordered(Drained)
  /\ \A c \in Classes : Ordered(queue[c]) /\ Before(Gone, Waiting(c))
  /\ \A p \in Producers : Before(Gone, Held(p)) /\ \A c \in Classes : Before(Waiting(c), Held(p))

WayInv == PlacesInv /\ CountInv /\ LineInv

LEMMA WayTypes ==
  ASSUME TypeOK
  PROVE  /\ Drained \in Seq(Messages) /\ Gone \subseteq Messages /\ lost \subseteq Messages
         /\ \A c \in Classes : queue[c] \in Seq(Messages) /\ Waiting(c) \subseteq Messages
         /\ \A p \in Producers : Held(p) \subseteq Messages
         /\ submitted \in Nat
<1>1. Drained \in Seq(Messages)
  BY ConcatFacts DEF TypeOK, Drained
<1>2. \A s \in Seq(Messages) : Elements(s) \subseteq Messages
  BY LenProperties, ElementOfSeq DEF Elements
<1>3. QED
  BY <1>1, <1>2 DEF TypeOK, Gone, Waiting, Held

\* Messages that were handed out before have other ids than the next one.
LEMMA Fresh ==
  ASSUME TypeOK, CountInv, NEW m \in Messages, m.id = submitted + 1
  PROVE  /\ Apart({m}, Gone) /\ Apart(Gone, {m}) /\ Apart({m}, lost) /\ Apart(lost, {m})
         /\ \A c \in Classes : Apart({m}, Waiting(c)) /\ Apart(Waiting(c), {m})
         /\ \A p \in Producers : Apart({m}, Held(p)) /\ Apart(Held(p), {m})
         /\ Before(Gone, {m})
         /\ \A c \in Classes : Before(Waiting(c), {m})
<1>1. \A n \in Messages : n.id \in Nat
  BY QueueAssumption DEF Messages
<1>2. QED
  BY <1>1, WayTypes DEF CountInv, Apart, Before

\* What Take does to the places: one message goes from its channel to the batch.
LEMMA TakeMoves ==
  ASSUME TypeOK, NEW c \in Classes, Take(c)
  PROVE  /\ queue[c] # <<>> /\ queue[c] \in Seq(Messages) /\ Head(queue[c]) \in Messages
         /\ Drained' = Append(Drained, Head(queue[c]))
         /\ Gone' = Gone \cup {Head(queue[c])}
         /\ queue'[c] = Tail(queue[c])
         /\ \A d \in Classes \ {c} : queue'[d] = queue[d]
<1> DEFINE h == Head(queue[c])
<1>1. /\ queue[c] # <<>> /\ queue[c] \in Seq(Messages) /\ h \in Messages
      /\ delivered \in Seq(Messages) /\ batch \in Seq(Messages)
      /\ AppendMessage(h)
  BY TailFacts DEF Take, TypeOK
<1>2. queue'[c] = Tail(queue[c]) /\ \A d \in Classes \ {c} : queue'[d] = queue[d]
  BY DEF Take, TypeOK
<1> HIDE DEF h
<1>3. Drained' = Append(Drained, h)
  <2>1. delivered \o Append(batch, h) = Append(delivered \o batch, h)
    <3>1. <<h>> \in Seq(Messages) /\ delivered \o batch \in Seq(Messages)
      BY <1>1
    <3>2. Append(batch, h) = batch \o <<h>> /\ Append(delivered \o batch, h) = (delivered \o batch) \o <<h>>
      BY <1>1, <3>1, AppendIsConcat
    <3>3. QED
      BY <1>1, <3>1, <3>2, ConcatAssociative
  <2>2. CASE Len(batch) + 1 >= BatchSize
    <3>1. delivered' = delivered \o Append(batch, h) /\ batch' = <<>>
      BY <1>1, <2>2 DEF AppendMessage
    <3>2. delivered' \in Seq(Messages)
      BY <1>1, <3>1, AppendProperties, ConcatProperties
    <3>3. QED
      BY <2>1, <3>1, <3>2, ConcatEmptySeq DEF Drained
  <2>3. CASE ~(Len(batch) + 1 >= BatchSize)
    BY <1>1, <2>1, <2>3 DEF AppendMessage, Drained
  <2>4. QED
    BY <2>2, <2>3
<1>4. Gone' = Gone \cup {h}
  BY <1>1, <1>3, WayTypes, AppendFacts DEF Gone
<1>5. QED
  BY <1>1, <1>2, <1>3, <1>4 DEF h

LEMMA TakeWay ==
  ASSUME TypeOK, WayInv, NEW c \in Classes, Take(c), UNCHANGED <<producerVars, lost>>
  PROVE  WayInv'
<1> DEFINE h == Head(queue[c])
<1>1. /\ queue[c] # <<>> /\ queue[c] \in Seq(Messages) /\ h \in Messages
      /\ Drained' = Append(Drained, h)
      /\ Gone' = Gone \cup {h}
      /\ queue'[c] = Tail(queue[c])
      /\ \A d \in Classes \ {c} : queue'[d] = queue[d]
  BY TakeMoves
<1>2. /\ h \in Waiting(c) /\ Waiting(c) = Waiting(c)' \cup {h}
      /\ Distinct(queue'[c]) /\ Apart(Waiting(c)', {h})
      /\ Ordered(queue'[c]) /\ Before({h}, Waiting(c)')
  <2>1. Distinct(queue[c]) /\ Ordered(queue[c])
    BY DEF WayInv, PlacesInv, LineInv
  <2>2. QED
    BY <1>1, <2>1, TailFacts DEF Waiting
<1>3. \A d \in Classes \ {c} : Waiting(d)' = Waiting(d)
  BY <1>1 DEF Waiting
<1>4. \A p \in Producers : Held(p)' = Held(p)
  BY DEF Held, producerVars
<1>5. submitted' = submitted /\ lost' = lost
  BY DEF producerVars
<1>6. Drained \in Seq(Messages)
  BY WayTypes
<1>7. \A d \in Classes : \A m \in Waiting(d)' : m \in Waiting(d)
  BY <1>2, <1>3
<1> HIDE DEF h
<1>8. PlacesInv'
  <2>1. Distinct(Drained') /\ Apart(Gone', lost')
    <3>1. Apart(Gone, {h}) /\ Apart({h}, lost)
      BY <1>2 DEF WayInv, PlacesInv, Apart
    <3>2. QED
      BY <1>1, <1>5, <1>6, <3>1, AppendFacts DEF WayInv, PlacesInv, Gone, Apart
  <2>2. \A d \in Classes : Distinct(queue'[d]) /\ Apart(Waiting(d)', Gone') /\ Apart(Waiting(d)', lost')
    <3>1. \A d \in Classes : Apart(Waiting(d)', lost') /\ Apart(Waiting(d)', Gone)
      BY <1>5, <1>7 DEF WayInv, PlacesInv, Apart
    <3>2. \A d \in Classes : Apart(Waiting(d)', {h})
      BY <1>2, <1>3 DEF WayInv, PlacesInv, Apart
    <3>3. \A d \in Classes : Distinct(queue'[d])
      BY <1>1, <1>2 DEF WayInv, PlacesInv
    <3>4. QED
      BY <1>1, <3>1, <3>2, <3>3 DEF Apart
  <2>3. \A d, e \in Classes : d # e => Apart(Waiting(d)', Waiting(e)')
    BY <1>7 DEF WayInv, PlacesInv, Apart
  <2>4. \A p \in Producers : Apart(Held(p)', Gone') /\ Apart(Held(p)', lost')
    BY <1>1, <1>2, <1>4, <1>5 DEF WayInv, PlacesInv, Apart
  <2>5. \A p \in Producers, d \in Classes : Apart(Held(p)', Waiting(d)')
    BY <1>4, <1>7 DEF WayInv, PlacesInv, Apart
  <2>6. \A p, q \in Producers : p # q => Apart(Held(p)', Held(q)')
    BY <1>4 DEF WayInv, PlacesInv
  <2>7. QED
    BY <2>1, <2>2, <2>3, <2>4, <2>5, <2>6 DEF PlacesInv
<1>9. CountInv'
  <2>1. \A n \in 1..submitted' :
          \/ \E m \in Gone' \cup lost' : m.id = n
          \/ \E d \in Classes : \E m \in Waiting(d)' : m.id = n
          \/ \E p \in Producers : \E m \in Held(p)' : m.id = n
    <3>1. SUFFICES ASSUME NEW n \in 1..submitted,
                          NEW d \in Classes, NEW m \in Waiting(d), m.id = n
                   PROVE  m \in Gone' \/ m \in Waiting(d)'
      BY <1>1, <1>4, <1>5 DEF WayInv, CountInv
    <3>2. QED
      BY <1>1, <1>2, <1>3
  <2>2. QED
    BY <1>1, <1>2, <1>4, <1>5, <1>7, <2>1 DEF WayInv, CountInv
<1>10. LineInv'
  <2>1. Ordered(Drained')
    <3>1. Before(Gone, {h})
      BY <1>2 DEF WayInv, LineInv, Before
    <3>2. QED
      BY <1>1, <1>6, <3>1, AppendFacts DEF WayInv, LineInv, Gone
  <2>2. \A d \in Classes : Ordered(queue'[d]) /\ Before(Gone', Waiting(d)')
    <3>1. \A d \in Classes : Ordered(queue'[d])
      BY <1>1, <1>2 DEF WayInv, LineInv
    <3>2. \A d \in Classes : Before({h}, Waiting(d)')
      <4>1. \A d \in Classes \ {c} : \A n \in Waiting(d)' : ~SameSource(h, n)
        BY <1>2, <1>7 DEF WayInv, LineInv, SameSource
      <4>2. QED
        BY <1>2, <4>1 DEF Before
    <3>3. \A d \in Classes : Before(Gone, Waiting(d)')
      BY <1>7 DEF WayInv, LineInv, Before
    <3>4. QED
      BY <1>1, <3>1, <3>2, <3>3 DEF Before
  <2>3. \A p \in Producers : Before(Gone', Held(p)') /\ \A d \in Classes : Before(Waiting(d)', Held(p)')
    BY <1>1, <1>2, <1>4, <1>7 DEF WayInv, LineInv, Before
  <2>4. QED
    BY <1>4, <1>7, <2>1, <2>2, <2>3 DEF WayInv, LineInv
<1>11. QED
  BY <1>8, <1>9, <1>10 DEF WayInv

\* A step that leaves every message where it is.
LEMMA SameWay ==
  ASSUME WayInv, Drained' = Drained, queue' = queue, UNCHANGED <<sending, lost, submitted>>
  PROVE  WayInv'
<1>1. /\ Gone' = Gone /\ \A c \in Classes : Waiting(c)' = Waiting(c)
      /\ \A p \in Producers : Held(p)' = Held(p)
  BY DEF Gone, Waiting, Held
<1>2. PlacesInv' /\ CountInv' /\ LineInv'
  BY <1>1 DEF WayInv, PlacesInv, CountInv, LineInv
<1>3. QED
  BY <1>2 DEF WayInv

LEMMA BatcherWay ==
  ASSUME TypeOK, WayInv, Batcher \/ TimerFires
  PROVE  WayInv'
<1>1. CASE \E c \in Classes : Take(c) /\ UNCHANGED <<producerVars, lost>>
  BY <1>1, TakeWay
<1>2. CASE UNCHANGED <<queue, batch, delivered, producerVars, lost>>
  BY <1>2, SameWay DEF Drained, producerVars
<1>3. CASE Flush /\ UNCHANGED <<producerVars, lost>>
  <2>1. delivered \o batch \in Seq(Messages)
    BY WayTypes DEF Drained
  <2>2. Drained' = Drained
    BY <1>3, <2>1, ConcatEmptySeq DEF Flush, Drained
  <2>3. QED
    BY <1>3, <2>2, SameWay DEF Flush, producerVars
<1>4. QED
  BY <1>1, <1>2, <1>3
  DEF Batcher, PollState, PollBulk, PollPriority, SelectAny, TimerFires, Classes

\* A new message goes to the channel of state events, is lost, or stays with its producer.
LEMMA SendMessageWay ==
  ASSUME TypeOK, SendInv, WayInv, NEW p \in Producers, SendMessage(p)
  PROVE  WayInv'
<1>1. PICK c \in Classes :
        LET m == [id |-> submitted + 1, class |-> c, from |-> p]
        IN  EnqueueState(m) \/ BeginLatest(p, m)
  BY DEF SendMessage
<1> DEFINE m == [id |-> submitted + 1, class |-> c, from |-> p]
<1>2. /\ m \in Messages /\ m # NoMessage
      /\ m.id = submitted + 1 /\ m.class = c /\ m.from = p
  <2>1. submitted + 1 \in 1..MaxMessages
    BY DEF SendMessage, TypeOK
  <2>2. m \in Messages
    BY <2>1 DEF Messages
  <2>3. QED
    BY <2>2
<1>3. EnqueueState(m) \/ BeginLatest(p, m)
  BY <1>1
<1> HIDE DEF m
<1>4. /\ sending[p] = NoMessage /\ submitted' = submitted + 1 /\ submitted \in Nat
      /\ Drained' = Drained /\ Gone' = Gone
  BY DEF SendMessage, TypeOK, batcherVars, Drained, Gone
<1>5. /\ Apart({m}, Gone) /\ Apart(Gone, {m}) /\ Apart({m}, lost) /\ Apart(lost, {m})
      /\ \A d \in Classes : Apart({m}, Waiting(d)) /\ Apart(Waiting(d), {m})
      /\ \A q \in Producers : Apart({m}, Held(q)) /\ Apart(Held(q), {m})
      /\ Before(Gone, {m})
      /\ \A d \in Classes : Before(Waiting(d), {m})
  BY <1>2, Fresh DEF WayInv
<1>6. CASE ~Full("state") /\ EnqueueState(m)
  <2>1. /\ c = "state" /\ queue["state"] \in Seq(Messages)
        /\ queue'["state"] = Append(queue["state"], m)
        /\ \A d \in Classes \ {"state"} : queue'[d] = queue[d]
        /\ UNCHANGED <<lost, sending>>
    BY <1>2, <1>6 DEF EnqueueState, TypeOK, Classes
  <2>2. /\ Waiting("state")' = Waiting("state") \cup {m}
        /\ \A d \in Classes \ {"state"} : Waiting(d)' = Waiting(d)
        /\ \A q \in Producers : Held(q)' = Held(q)
        /\ Distinct(queue'["state"]) /\ Ordered(queue'["state"])
    <3>1. Distinct(queue["state"]) /\ Ordered(queue["state"])
      BY DEF WayInv, PlacesInv, LineInv, Classes
    <3>2. Apart(Waiting("state"), {m}) /\ Before(Waiting("state"), {m})
      BY <1>5 DEF Classes
    <3>3. QED
      BY <1>2, <2>1, <3>1, <3>2, AppendFacts DEF Waiting, Held
  <2>3. \A q \in Producers : \A n \in Held(q) : ~SameSource(m, n)
    BY <1>2, <2>1 DEF SendInv, Held, SameSource
  <2>4. PlacesInv'
    <3>1. \A d \in Classes : Distinct(queue'[d])
      BY <2>1, <2>2 DEF WayInv, PlacesInv
    <3>2. \A d \in Classes : Apart(Waiting(d)', Gone') /\ Apart(Waiting(d)', lost')
      BY <1>4, <1>5, <2>1, <2>2 DEF WayInv, PlacesInv, Apart
    <3>3. \A d, e \in Classes : d # e => Apart(Waiting(d)', Waiting(e)')
      BY <1>5, <2>2 DEF WayInv, PlacesInv, Apart
    <3>4. \A q \in Producers, d \in Classes : Apart(Held(q)', Waiting(d)')
      BY <1>5, <2>2 DEF WayInv, PlacesInv, Apart
    <3>5. QED
      BY <1>4, <2>1, <2>2, <3>1, <3>2, <3>3, <3>4 DEF WayInv, PlacesInv
  <2>5. CountInv'
    <3>1. "state" \in Classes /\ m \in Waiting("state")'
      BY <2>2 DEF Classes
    <3>2. \A n \in 1..submitted' : n \in 1..submitted \/ n = m.id
      BY <1>2, <1>4
    <3>3. \A d \in Classes : \A n \in Waiting(d) : n \in Waiting(d)'
      BY <2>2
    <3>4. \A n \in 1..submitted' :
            \/ \E k \in Gone' \cup lost' : k.id = n
            \/ \E d \in Classes : \E k \in Waiting(d)' : k.id = n
            \/ \E q \in Producers : \E k \in Held(q)' : k.id = n
      BY <1>4, <2>1, <2>2, <3>1, <3>2, <3>3 DEF WayInv, CountInv
    <3>5. \A n \in Messages : n.id \in Nat
      BY DEF Messages
    <3>6. \A n \in Messages : n.id <= submitted => n.id <= submitted'
      BY <1>4, <3>5
    <3>7. /\ \A n \in Gone' \cup lost' : n.id <= submitted'
          /\ \A q \in Producers : \A n \in Held(q)' : n.id <= submitted'
          /\ \A d \in Classes : \A n \in Waiting(d) : n.id <= submitted'
      BY <1>4, <2>1, <2>2, <3>6, WayTypes DEF WayInv, CountInv
    <3>8. m.id <= submitted'
      BY <1>2, <1>4
    <3>9. QED
      BY <2>2, <3>4, <3>7, <3>8 DEF CountInv
  <2>6. LineInv'
    <3>1. \A d \in Classes : \A n \in Waiting(d)' : n.class = d
      BY <1>2, <2>1, <2>2 DEF WayInv, LineInv
    <3>2. \A d \in Classes : Ordered(queue'[d]) /\ Before(Gone', Waiting(d)')
      BY <1>4, <1>5, <2>1, <2>2 DEF WayInv, LineInv, Before
    <3>3. \A q \in Producers : Before(Gone', Held(q)') /\ \A d \in Classes : Before(Waiting(d)', Held(q)')
      BY <1>4, <2>2, <2>3 DEF WayInv, LineInv, Before
    <3>4. QED
      BY <1>4, <2>2, <3>1, <3>2, <3>3 DEF WayInv, LineInv
  <2>7. QED
    BY <2>4, <2>5, <2>6 DEF WayInv
<1>7. CASE Full("state") /\ EnqueueState(m)
  <2>1. /\ UNCHANGED <<queue, sending>> /\ lost' = lost \cup {m}
        /\ \A d \in Classes : Waiting(d)' = Waiting(d)
        /\ \A q \in Producers : Held(q)' = Held(q)
    BY <1>7 DEF EnqueueState, Waiting, Held
  <2>2. PlacesInv'
    BY <1>4, <1>5, <2>1 DEF WayInv, PlacesInv, Apart
  <2>3. CountInv'
    <3>1. \A n \in 1..submitted' : n \in 1..submitted \/ n = m.id
      BY <1>2, <1>4
    <3>2. \A n \in Messages : n.id \in Nat
      BY DEF Messages
    <3>3. \A n \in Messages : n.id <= submitted => n.id <= submitted'
      BY <1>4, <3>2
    <3>4. m.id <= submitted'
      BY <1>2, <1>4
    <3>5. QED
      BY <1>4, <2>1, <3>1, <3>3, <3>4, WayTypes DEF WayInv, CountInv
  <2>4. LineInv'
    BY <1>4, <2>1 DEF WayInv, LineInv
  <2>5. QED
    BY <2>2, <2>3, <2>4 DEF WayInv
<1>8. CASE BeginLatest(p, m)
  <2>1. /\ UNCHANGED <<queue, lost>>
        /\ \A d \in Classes : Waiting(d)' = Waiting(d)
        /\ \A q \in Producers \ {p} : Held(q)' = Held(q)
        /\ Held(p)' = {m} /\ Held(p) = {}
    BY <1>2, <1>4, <1>8 DEF BeginLatest, Waiting, Held, TypeOK
  <2>2. PlacesInv'
    <3>1. \A q, r \in Producers : q # r => Apart(Held(q)', Held(r)')
      BY <1>5, <2>1 DEF WayInv, PlacesInv, Apart
    <3>2. /\ \A q \in Producers : Apart(Held(q)', Gone') /\ Apart(Held(q)', lost')
          /\ \A q \in Producers, d \in Classes : Apart(Held(q)', Waiting(d)')
      BY <1>4, <1>5, <2>1 DEF WayInv, PlacesInv
    <3>3. QED
      BY <1>4, <2>1, <3>1, <3>2 DEF WayInv, PlacesInv
  <2>3. CountInv'
    <3>1. \A n \in 1..submitted' : n \in 1..submitted \/ n = m.id
      BY <1>2, <1>4
    <3>2. \A n \in Messages : n.id \in Nat
      BY DEF Messages
    <3>3. \A n \in Messages : n.id <= submitted => n.id <= submitted'
      BY <1>4, <3>2
    <3>4. m.id <= submitted'
      BY <1>2, <1>4
    <3>5. \A q \in Producers : \A n \in Held(q) : n \in Held(q)'
      BY <2>1
    <3>6. \A n \in 1..submitted' :
            \/ \E k \in Gone' \cup lost' : k.id = n
            \/ \E d \in Classes : \E k \in Waiting(d)' : k.id = n
            \/ \E q \in Producers : \E k \in Held(q)' : k.id = n
      BY <1>4, <2>1, <3>1, <3>5 DEF WayInv, CountInv
    <3>7. /\ \A n \in Gone' \cup lost' : n.id <= submitted'
          /\ \A d \in Classes : \A n \in Waiting(d)' : n.id <= submitted'
          /\ \A q \in Producers : \A n \in Held(q) : n.id <= submitted'
      BY <1>4, <2>1, <3>3, WayTypes DEF WayInv, CountInv
    <3>8. QED
      BY <2>1, <3>4, <3>6, <3>7 DEF CountInv
  <2>4. LineInv'
    <3>1. \A q \in Producers : \A n \in Held(q)' : n.from = q
      BY <1>2, <2>1 DEF WayInv, LineInv
    <3>2. \A q \in Producers : Before(Gone', Held(q)') /\ \A d \in Classes : Before(Waiting(d)', Held(q)')
      BY <1>4, <1>5, <2>1 DEF WayInv, LineInv
    <3>3. QED
      BY <1>4, <2>1, <3>1, <3>2 DEF WayInv, LineInv
  <2>5. QED
    BY <2>2, <2>3, <2>4 DEF WayInv
<1>9. QED
  BY <1>3, <1>6, <1>7, <1>8

LEMMA OfferWay ==
  ASSUME TypeOK, SendInv, WayInv, NEW p \in Producers, Offer(p)
  PROVE  WayInv'
<1>0. PICK m \in Messages, c \in Classes : m = sending[p] /\ c = m.class /\ m # NoMessage
  BY DEF Offer, TypeOK, Messages
<1>1. Drained' = Drained /\ Gone' = Gone /\ submitted' = submitted /\ lost' = lost
  BY DEF Offer, batcherVars, Drained, Gone
<1>2. CASE ~Full(c)
  <2>1. /\ queue[c] \in Seq(Messages)
        /\ queue'[c] = Append(queue[c], m)
        /\ \A d \in Classes \ {c} : queue'[d] = queue[d]
        /\ sending'[p] = NoMessage
        /\ \A q \in Producers \ {p} : sending'[q] = sending[q]
    BY <1>0, <1>2 DEF Offer, TypeOK
  <2>2. Held(p) = {m} /\ Held(p)' = {} /\ \A q \in Producers \ {p} : Held(q)' = Held(q)
    BY <1>0, <2>1 DEF Held
  <2>3. /\ Waiting(c)' = Waiting(c) \cup {m}
        /\ \A d \in Classes \ {c} : Waiting(d)' = Waiting(d)
        /\ Distinct(queue'[c]) /\ Ordered(queue'[c])
    <3>1. Distinct(queue[c]) /\ Ordered(queue[c])
      BY DEF WayInv, PlacesInv, LineInv
    <3>2. Apart(Held(p), Waiting(c)) /\ Before(Waiting(c), Held(p))
      BY DEF WayInv, PlacesInv, LineInv
    <3>3. Apart(Waiting(c), {m}) /\ Before(Waiting(c), {m})
      BY <2>2, <3>2 DEF Apart
    <3>4. QED
      BY <2>1, <3>1, <3>3, AppendFacts DEF Waiting
  <2>4. /\ Apart({m}, Gone) /\ Apart({m}, lost) /\ Before(Gone, {m}) /\ m.from = p
        /\ \A d \in Classes : Apart({m}, Waiting(d))
        /\ \A q \in Producers \ {p} : Apart(Held(q), {m})
    <3>1. /\ Apart(Held(p), Gone) /\ Apart(Held(p), lost) /\ Before(Gone, Held(p))
          /\ \A n \in Held(p) : n.from = p
          /\ \A d \in Classes : Apart(Held(p), Waiting(d))
          /\ \A q \in Producers \ {p} : Apart(Held(q), Held(p))
      BY DEF WayInv, PlacesInv, LineInv
    <3>2. QED
      BY <2>2, <3>1
  <2>5. \A q \in Producers \ {p} : \A n \in Held(q) : ~SameSource(m, n)
    BY <2>4 DEF WayInv, LineInv, SameSource
  <2>6. PlacesInv'
    <3>1. \A d \in Classes : Distinct(queue'[d])
      BY <2>1, <2>3 DEF WayInv, PlacesInv
    <3>2. \A d \in Classes : Apart(Waiting(d)', Gone') /\ Apart(Waiting(d)', lost')
      BY <1>1, <2>3, <2>4 DEF WayInv, PlacesInv, Apart
    <3>3. \A d, e \in Classes : d # e => Apart(Waiting(d)', Waiting(e)')
      BY <2>3, <2>4 DEF WayInv, PlacesInv, Apart
    <3>4. \A q \in Producers, d \in Classes : Apart(Held(q)', Waiting(d)')
      BY <2>2, <2>3, <2>4 DEF WayInv, PlacesInv, Apart
    <3>5. \A q \in Producers : Apart(Held(q)', Gone') /\ Apart(Held(q)', lost')
      BY <1>1, <2>2 DEF WayInv, PlacesInv, Apart
    <3>6. \A q, r \in Producers : q # r => Apart(Held(q)', Held(r)')
      BY <2>2 DEF WayInv, PlacesInv, Apart
    <3>7. QED
      BY <1>1, <3>1, <3>2, <3>3, <3>4, <3>5, <3>6 DEF WayInv, PlacesInv
  <2>7. CountInv'
    <3>1. \A d \in Classes : \A n \in Waiting(d) : n \in Waiting(d)'
      BY <2>3
    <3>2. \A q \in Producers : \A n \in Held(q) : n \in Held(q)' \/ n \in Waiting(c)'
      BY <2>2, <2>3
    <3>3. \A n \in 1..submitted' :
            \/ \E k \in Gone' \cup lost' : k.id = n
            \/ \E d \in Classes : \E k \in Waiting(d)' : k.id = n
            \/ \E q \in Producers : \E k \in Held(q)' : k.id = n
      BY <1>1, <3>1, <3>2 DEF WayInv, CountInv
    <3>4. m.id <= submitted
      BY <2>2 DEF WayInv, CountInv
    <3>5. QED
      BY <1>1, <2>2, <2>3, <3>3, <3>4 DEF WayInv, CountInv
  <2>8. LineInv'
    <3>1. \A d \in Classes : \A n \in Waiting(d)' : n.class = d
      BY <1>0, <2>3 DEF WayInv, LineInv
    <3>2. \A d \in Classes : Ordered(queue'[d]) /\ Before(Gone', Waiting(d)')
      <4>1. \A d \in Classes : Ordered(queue'[d])
        BY <2>1, <2>3 DEF WayInv, LineInv
      <4>2. \A d \in Classes : Before(Gone, Waiting(d)')
        BY <2>3, <2>4 DEF WayInv, LineInv, Before
      <4>3. QED
        BY <1>1, <4>1, <4>2
    <3>3. \A q \in Producers : Before(Gone', Held(q)')
      BY <1>1, <2>2 DEF WayInv, LineInv, Before
    <3>4. \A q \in Producers : \A d \in Classes : Before(Waiting(d)', Held(q)')
      BY <2>2, <2>3, <2>5 DEF WayInv, LineInv, Before
    <3>5. \A q \in Producers : \A n \in Held(q)' : n.from = q
      BY <2>2 DEF WayInv, LineInv
    <3>6. QED
      BY <1>1, <3>1, <3>2, <3>3, <3>4, <3>5 DEF WayInv, LineInv
  <2>9. QED
    BY <2>6, <2>7, <2>8 DEF WayInv
<1>3. CASE Full(c)
  <2>1. UNCHANGED <<queue, sending>>
    BY <1>0, <1>3 DEF Offer
  <2>2. QED
    BY <1>1, <2>1, SameWay
<1>4. QED
  BY <1>2, <1>3

LEMMA EvictWay ==
  ASSUME TypeOK, SendInv, WayInv, NEW p \in Producers, Evict(p)
  PROVE  WayInv'
<1>0. PICK m \in Messages, c \in Classes : m = sending[p] /\ c = m.class /\ m # NoMessage
  BY DEF Evict, TypeOK, SendInv, Messages
<1> DEFINE last == attempt[p] + 1 = EvictAttempts
           oldest == {queue[c][i] : i \in DOMAIN queue[c] \cap {1}}
           given  == {n \in {m} : last}
<1>1. /\ Drained' = Drained /\ Gone' = Gone /\ submitted' = submitted
      /\ lost' = lost \cup oldest \cup given
      /\ queue' = [queue EXCEPT ![c] = IF queue[c] = <<>> THEN queue[c] ELSE Tail(queue[c])]
      /\ sending' = [sending EXCEPT ![p] = IF last THEN NoMessage ELSE sending[p]]
  BY <1>0 DEF Evict, batcherVars, Drained, Gone
<1>2. Held(p) = {m} /\ Held(p)' = {m} \ given /\ \A q \in Producers \ {p} : Held(q)' = Held(q)
  BY <1>0, <1>1 DEF Held, TypeOK
<1>3. /\ Waiting(c) = Waiting(c)' \cup oldest /\ Apart(Waiting(c)', oldest)
      /\ \A d \in Classes \ {c} : Waiting(d)' = Waiting(d)
      /\ \A d \in Classes : Distinct(queue'[d]) /\ Ordered(queue'[d])
      /\ oldest \subseteq Waiting(c)
  <2>1. /\ queue[c] \in Seq(Messages) /\ Distinct(queue[c]) /\ Ordered(queue[c])
        /\ queue'[c] = IF queue[c] = <<>> THEN queue[c] ELSE Tail(queue[c])
        /\ \A d \in Classes \ {c} : queue'[d] = queue[d]
    BY <1>1 DEF TypeOK, WayInv, PlacesInv, LineInv
  <2>2. \A d \in Classes \ {c} : Waiting(d)' = Waiting(d) /\ Distinct(queue'[d]) /\ Ordered(queue'[d])
    BY <2>1 DEF Waiting, WayInv, PlacesInv, LineInv
  <2>3. oldest = IF queue[c] = <<>> THEN {} ELSE {Head(queue[c])}
    <3>1. Len(queue[c]) \in Nat /\ DOMAIN queue[c] = 1..Len(queue[c])
          /\ (queue[c] # <<>> => Len(queue[c]) # 0 /\ Head(queue[c]) = queue[c][1])
          /\ (queue[c] = <<>> => Len(queue[c]) = 0)
      BY <2>1, LenProperties, EmptySeq, TailFacts
    <3>2. CASE queue[c] = <<>>
      BY <3>1, <3>2
    <3>3. CASE queue[c] # <<>>
      <4>1. DOMAIN queue[c] \cap {1} = {1}
        BY <3>1, <3>3
      <4>2. QED
        BY <3>1, <3>3, <4>1
    <3>4. QED
      BY <3>2, <3>3
  <2> HIDE DEF oldest
  <2>4. CASE queue[c] = <<>>
    BY <2>1, <2>2, <2>3, <2>4 DEF Waiting, Apart
  <2>5. CASE queue[c] # <<>>
    <3>1. Waiting(c)' = Elements(Tail(queue[c])) /\ oldest = {Head(queue[c])}
      BY <2>1, <2>3, <2>5 DEF Waiting
    <3>2. /\ Waiting(c) = Elements(Tail(queue[c])) \cup {Head(queue[c])}
          /\ Distinct(Tail(queue[c])) /\ Ordered(Tail(queue[c]))
          /\ Apart(Elements(Tail(queue[c])), {Head(queue[c])})
      BY <2>1, <2>5, TailFacts DEF Waiting
    <3>3. QED
      BY <2>1, <2>2, <2>5, <3>1, <3>2
  <2>6. QED
    BY <2>4, <2>5
<1>4. given \subseteq {m}
  OBVIOUS
<1> HIDE DEF oldest, given
<1>5. \A d \in Classes : \A n \in Waiting(d)' : n \in Waiting(d)
  BY <1>3
<1>6. \A q \in Producers : \A n \in Held(q)' : n \in Held(q)
  BY <1>2
<1>7. PlacesInv'
  <2>1. /\ Apart(Held(p), Gone) /\ Apart(Held(p), lost)
        /\ \A d \in Classes : Apart(Held(p), Waiting(d))
        /\ \A q \in Producers \ {p} : Apart(Held(q), Held(p))
        /\ Apart(Waiting(c), Gone)
    BY DEF WayInv, PlacesInv
  <2>2. Apart(Gone', lost')
    BY <1>1, <1>2, <1>3, <1>4, <2>1 DEF WayInv, PlacesInv, Apart
  <2>3. \A d \in Classes : Apart(Waiting(d)', Gone') /\ Apart(Waiting(d)', lost')
    <3>1. \A d \in Classes : Apart(Waiting(d)', oldest)
      BY <1>3 DEF WayInv, PlacesInv, Apart
    <3>2. \A d \in Classes : Apart(Waiting(d)', given)
      BY <1>2, <1>4, <1>5, <2>1 DEF Apart
    <3>3. \A d \in Classes : Apart(Waiting(d)', Gone) /\ Apart(Waiting(d)', lost)
      BY <1>5 DEF WayInv, PlacesInv, Apart
    <3>4. QED
      BY <1>1, <3>1, <3>2, <3>3 DEF Apart
  <2>4. \A d, e \in Classes : d # e => Apart(Waiting(d)', Waiting(e)')
    BY <1>5 DEF WayInv, PlacesInv, Apart
  <2>5. \A q \in Producers : Apart(Held(q)', Gone') /\ Apart(Held(q)', lost')
    <3>1. \A q \in Producers : Apart(Held(q)', oldest)
      BY <1>3, <1>6 DEF WayInv, PlacesInv, Apart
    <3>2. \A q \in Producers : Apart(Held(q)', given)
      BY <1>2, <1>4, <2>1 DEF Apart
    <3>3. \A q \in Producers : Apart(Held(q)', Gone) /\ Apart(Held(q)', lost)
      BY <1>6 DEF WayInv, PlacesInv, Apart
    <3>4. QED
      BY <1>1, <3>1, <3>2, <3>3 DEF Apart
  <2>6. \A q \in Producers, d \in Classes : Apart(Held(q)', Waiting(d)')
    BY <1>5, <1>6 DEF WayInv, PlacesInv, Apart
  <2>7. \A q, r \in Producers : q # r => Apart(Held(q)', Held(r)')
    BY <1>6 DEF WayInv, PlacesInv, Apart
  <2>8. QED
    BY <1>1, <1>3, <2>2, <2>3, <2>4, <2>5, <2>6, <2>7 DEF WayInv, PlacesInv
<1>8. CountInv'
  <2>1. \A d \in Classes : \A n \in Waiting(d) : n \in Waiting(d)' \/ n \in lost'
    BY <1>1, <1>3
  <2>2. \A q \in Producers : \A n \in Held(q) : n \in Held(q)' \/ n \in lost'
    BY <1>1, <1>2
  <2>3. \A n \in lost' : n \in lost \/ n \in Waiting(c) \/ n \in Held(p)
    BY <1>1, <1>2, <1>3, <1>4
  <2>4. \A n \in 1..submitted' :
          \/ \E k \in Gone' \cup lost' : k.id = n
          \/ \E d \in Classes : \E k \in Waiting(d)' : k.id = n
          \/ \E q \in Producers : \E k \in Held(q)' : k.id = n
    BY <1>1, <2>1, <2>2 DEF WayInv, CountInv
  <2>5. QED
    BY <1>1, <1>5, <1>6, <2>3, <2>4 DEF WayInv, CountInv
<1>9. LineInv'
  BY <1>1, <1>3, <1>5, <1>6 DEF WayInv, LineInv, Before
<1>10. QED
  BY <1>7, <1>8, <1>9 DEF WayInv

-----------------------------------------------------------------------------
LEMMA InitWayInv == Init => WayInv
<1> SUFFICES ASSUME Init PROVE WayInv
  OBVIOUS
<1>1. <<>> \in Seq(Messages) /\ Len(<<>>) = 0 /\ DOMAIN <<>> = {}
  BY EmptySeq, LenProperties
<1>2. Drained = <<>> /\ \A c \in Classes : queue[c] = <<>>
  BY <1>1, ConcatEmptySeq DEF Init, Drained
<1>3. Gone = {} /\ lost = {} /\ submitted = 0
  BY <1>1, <1>2 DEF Init, Gone, Elements
<1>4. \A c \in Classes : Waiting(c) = {}
  BY <1>1, <1>2 DEF Waiting, Elements
<1>5. \A p \in Producers : Held(p) = {}
  BY DEF Init, Held
<1>6. /\ Distinct(Drained) /\ Ordered(Drained)
      /\ \A c \in Classes : Distinct(queue[c]) /\ Ordered(queue[c])
  BY <1>1, <1>2 DEF Distinct, Ordered
<1>7. PlacesInv /\ LineInv
  BY <1>3, <1>4, <1>5, <1>6 DEF PlacesInv, LineInv, Apart, Before
<1>8. CountInv
  BY <1>3, <1>4, <1>5 DEF CountInv
<1>9. QED
  BY <1>7, <1>8 DEF WayInv

LEMMA NextWayInv ==
  ASSUME QueueInv, WayInv, [Next]_vars
  PROVE  WayInv'
<1>1. TypeOK /\ SendInv
  BY DEF QueueInv
<1>2. CASE Next
  BY <1>1, <1>2, SendMessageWay, OfferWay, EvictWay, BatcherWay DEF Next, Produce
<1>3. CASE UNCHANGED vars
  BY <1>3, SameWay DEF vars, producerVars, batcherVars, Drained
<1>4. QED
  BY <1>2, <1>3

THEOREM WayInvariance == Spec => []WayInv
  BY InitWayInv, NextWayInv, Invariance, PTL DEF Spec

\* Of the messages handed to sendMessage none is ever in two places and none is
\* forgotten, for any number of goroutines and any sizes (message.go:45-117).
THEOREM EveryMessageAccounted == Spec => []Accounted
<1>1. QueueInv /\ WayInv => Accounted
  <2> SUFFICES ASSUME QueueInv, WayInv PROVE Accounted
    OBVIOUS
  <2> DEFINE toPriority == Drained \o queue["state"]
             toBulk     == toPriority \o queue["priority"]
             places     == delivered \o batch \o queue["state"] \o queue["priority"] \o queue["bulk"]
             inFlight   == {sending[p] : p \in Producers} \ {NoMessage}
             kept       == {places[i] : i \in DOMAIN places}
  <2>1. /\ "state" \in Classes /\ "priority" \in Classes /\ "bulk" \in Classes
        /\ TypeOK /\ Drained \in Seq(Messages)
        /\ queue["state"] \in Seq(Messages) /\ queue["priority"] \in Seq(Messages)
        /\ queue["bulk"] \in Seq(Messages)
    BY WayTypes DEF Classes, QueueInv
  <2>2. /\ toPriority \in Seq(Messages) /\ Distinct(toPriority)
        /\ Elements(toPriority) = Gone \cup Waiting("state")
    <3>1. Apart(Gone, Waiting("state"))
      BY <2>1 DEF WayInv, PlacesInv, Apart
    <3>2. QED
      BY <2>1, <3>1, ConcatFacts DEF WayInv, PlacesInv, Gone, Waiting
  <2>3. /\ toBulk \in Seq(Messages) /\ Distinct(toBulk)
        /\ Elements(toBulk) = Gone \cup Waiting("state") \cup Waiting("priority")
    <3>1. Apart(Gone \cup Waiting("state"), Waiting("priority"))
      BY <2>1 DEF WayInv, PlacesInv, Apart
    <3>2. QED
      BY <2>1, <2>2, <3>1, ConcatFacts DEF WayInv, PlacesInv, Waiting
  <2>4. /\ Distinct(places)
        /\ Elements(places) = Gone \cup Waiting("state") \cup Waiting("priority") \cup Waiting("bulk")
    <3>1. Apart(Gone \cup Waiting("state") \cup Waiting("priority"), Waiting("bulk"))
      BY <2>1 DEF WayInv, PlacesInv, Apart
    <3>2. places = toBulk \o queue["bulk"]
      BY DEF Drained
    <3> HIDE DEF places
    <3>3. QED
      BY <2>1, <2>3, <3>1, <3>2, ConcatFacts DEF WayInv, PlacesInv, Waiting
  <2>5. kept = Elements(places)
    BY DEF Elements
  <2>6. /\ \A m \in kept : m \in Gone \/ \E c \in Classes : m \in Waiting(c)
        /\ \A m \in Gone : m \in kept
        /\ \A c \in Classes : \A m \in Waiting(c) : m \in kept
    BY <2>1, <2>4, <2>5 DEF Classes
  <2>7. /\ \A m \in inFlight : \E p \in Producers : m \in Held(p)
        /\ \A p \in Producers : \A m \in Held(p) : m \in inFlight
    BY DEF Held
  <2> HIDE DEF kept, inFlight
  <2>8. kept \cap lost = {} /\ inFlight \cap (kept \cup lost) = {}
    BY <2>6, <2>7 DEF WayInv, PlacesInv, Apart
  <2>9. {m.id : m \in kept \cup lost \cup inFlight} = 1..submitted
    <3>1. \A m \in kept \cup lost \cup inFlight : m \in Messages /\ m.id <= submitted
      BY <2>1, <2>6, <2>7, WayTypes DEF WayInv, CountInv
    <3>2. \A m \in Messages : m.id \in Nat /\ m.id >= 1
      BY DEF Messages
    <3>3. \A n \in 1..submitted : \E m \in kept \cup lost \cup inFlight : m.id = n
      BY <2>6, <2>7 DEF WayInv, CountInv
    <3>4. submitted \in Nat
      BY <2>1, WayTypes
    <3>5. \A m \in kept \cup lost \cup inFlight : m.id \in 1..submitted
      BY <3>1, <3>2, <3>4
    <3>6. QED
      BY <3>3, <3>5
  <2>10. \A i, j \in DOMAIN places : i # j => places[i].id # places[j].id
    BY <2>4 DEF Distinct
  <2>11. QED
    BY <2>8, <2>9, <2>10 DEF Accounted, kept, inFlight
<1>2. QED
  BY <1>1, Invariance, WayInvariance, PTL

\* Two events of one class from one goroutine are never swapped, on the whole way
\* from sendMessage to send (message.go:45-117).
THEOREM OrderOfProducers == Spec => []ProducerOrder
<1>1. QueueInv /\ WayInv => ProducerOrder
  <2> SUFFICES ASSUME QueueInv, WayInv, NEW c \in Classes
               PROVE  Ordered(delivered \o batch \o queue[c])
    BY DEF ProducerOrder, Ordered, SameSource
  <2>1. TypeOK /\ Drained \in Seq(Messages) /\ queue[c] \in Seq(Messages)
    BY WayTypes DEF QueueInv
  <2>2. Ordered(Drained \o queue[c])
    BY <2>1, ConcatFacts DEF WayInv, LineInv, Gone, Waiting
  <2>3. QED
    BY <2>2 DEF Drained
<1>2. QED
  BY <1>1, Invariance, WayInvariance, PTL

-----------------------------------------------------------------------------
\* In every round but the first a producer found the channel full again, so an event
\* of another producer took the place it had freed.
RivalInv == \A p \in Producers : sending[p] # NoMessage =>
  /\ attempt[p] <= rivals[p] + 1
  /\ evicting[p] \/ Full(sending[p].class) => attempt[p] <= rivals[p]

\* No channel becomes full by a step that appends to none that is waited for.
LEMMA QuietRivals ==
  ASSUME RivalInv, UNCHANGED <<sending, attempt, rivals, evicting>>,
         \A d \in Classes \ {"state"} : Full(d)' => Full(d),
         TypeOK, SendInv
  PROVE  RivalInv'
<1> SUFFICES ASSUME NEW p \in Producers, sending'[p] # NoMessage
             PROVE  /\ attempt'[p] <= rivals'[p] + 1
                    /\ evicting'[p] \/ Full(sending[p].class)' => attempt'[p] <= rivals'[p]
  BY DEF RivalInv
<1>1. sending[p].class \in Classes \ {"state"}
  BY DEF SendInv, TypeOK, Messages
<1>2. Full(sending[p].class)' => Full(sending[p].class)
  BY <1>1 DEF Full
<1>3. QED
  BY <1>2 DEF RivalInv

LEMMA SendMessageRivals ==
  ASSUME TypeOK, SendInv, RivalInv, NEW p \in Producers, SendMessage(p)
  PROVE  RivalInv'
<1>1. PICK m : m.class \in Classes /\ (EnqueueState(m) \/ BeginLatest(p, m))
  BY DEF SendMessage
<1>2. UNCHANGED evicting
  BY DEF SendMessage
<1>3. CASE EnqueueState(m)
  <2>1. \A d \in Classes \ {"state"} : queue'[d] = queue[d]
    BY <1>3 DEF EnqueueState, TypeOK, Classes
  <2>2. QED
    BY <1>2, <1>3, <2>1, QuietRivals DEF EnqueueState, Full
<1>4. CASE BeginLatest(p, m)
  <2>1. /\ UNCHANGED queue /\ attempt'[p] = 0 /\ rivals'[p] = 0
        /\ \A q \in Producers \ {p} :
             sending'[q] = sending[q] /\ attempt'[q] = attempt[q] /\ rivals'[q] = rivals[q]
    BY <1>4 DEF BeginLatest, TypeOK
  <2>2. QED
    BY <1>2, <2>1 DEF RivalInv, Full
<1>5. QED
  BY <1>1, <1>3, <1>4

LEMMA OfferRivals ==
  ASSUME TypeOK, SendInv, RivalInv, NEW p \in Producers, Offer(p)
  PROVE  RivalInv'
<1>0. PICK c \in Classes : c = sending[p].class
  BY DEF Offer, TypeOK, Messages
<1>1. sending[p] # NoMessage /\ UNCHANGED attempt
  BY DEF Offer
<1>2. \A q \in Producers : rivals[q] \in Nat /\ attempt[q] \in Nat
  BY DEF TypeOK
<1>3. CASE ~Full(c)
  <2>1. /\ \A d \in Classes \ {c} : queue'[d] = queue[d]
        /\ sending'[p] = NoMessage
        /\ \A q \in Producers \ {p} : sending'[q] = sending[q] /\ evicting'[q] = evicting[q]
        /\ \A q \in Producers \ {p} :
             rivals'[q] = IF sending[q] # NoMessage /\ sending[q].class = c
                          THEN rivals[q] + 1 ELSE rivals[q]
    BY <1>0, <1>3 DEF Offer, TypeOK
  <2>2. SUFFICES ASSUME NEW q \in Producers \ {p}, sending[q] # NoMessage
                 PROVE  /\ attempt[q] <= rivals'[q] + 1
                        /\ evicting[q] \/ Len(queue'[sending[q].class]) = QueueSize
                             => attempt[q] <= rivals'[q]
    BY <1>1, <2>1 DEF RivalInv, Full
  <2>3. sending[q].class \in Classes
    BY <2>2 DEF TypeOK, Messages
  <2>4. /\ attempt[q] <= rivals[q] + 1
        /\ evicting[q] \/ Len(queue[sending[q].class]) = QueueSize => attempt[q] <= rivals[q]
    BY <2>2 DEF RivalInv, Full
  <2>5. CASE sending[q].class = c
    BY <1>2, <2>1, <2>2, <2>4, <2>5
  <2>6. CASE sending[q].class # c
    BY <2>1, <2>2, <2>3, <2>4, <2>6
  <2>7. QED
    BY <2>5, <2>6
<1>4. CASE Full(c)
  <2>1. /\ UNCHANGED <<queue, sending, rivals>>
        /\ \A q \in Producers \ {p} : evicting'[q] = evicting[q]
    BY <1>0, <1>4 DEF Offer, TypeOK
  <2>2. QED
    BY <1>0, <1>1, <1>4, <2>1 DEF RivalInv, Full
<1>5. QED
  BY <1>3, <1>4

LEMMA EvictRivals ==
  ASSUME TypeOK, SendInv, RivalInv, NEW p \in Producers, Evict(p)
  PROVE  RivalInv'
<1>0. PICK c \in Classes : c = sending[p].class /\ sending[p] # NoMessage
  BY DEF Evict, TypeOK, SendInv, Messages
<1> DEFINE last == attempt[p] + 1 = EvictAttempts
<1>1. /\ queue'[c] = IF queue[c] = <<>> THEN queue[c] ELSE Tail(queue[c])
      /\ \A d \in Classes \ {c} : queue'[d] = queue[d]
      /\ sending'[p] = IF last THEN NoMessage ELSE sending[p]
      /\ attempt'[p] = IF last THEN 0 ELSE attempt[p] + 1
      /\ \A q \in Producers \ {p} :
           sending'[q] = sending[q] /\ attempt'[q] = attempt[q] /\ evicting'[q] = evicting[q]
      /\ evicting[p] /\ ~evicting'[p]
      /\ rivals' = rivals
  BY <1>0 DEF Evict, TypeOK
<1>2. Len(queue'[c]) # QueueSize
  <2>1. queue[c] \in Seq(Messages) /\ Len(queue[c]) <= QueueSize /\ Len(queue[c]) \in Nat
    BY LenProperties DEF TypeOK
  <2>2. CASE queue[c] = <<>>
    BY <1>1, <2>2, EmptySeq
  <2>3. CASE queue[c] # <<>>
    <3>1. Len(Tail(queue[c])) = Len(queue[c]) - 1
      BY <2>1, <2>3, HeadTailProperties
    <3>2. QED
      BY <1>1, <2>1, <2>3, <3>1
  <2>4. QED
    BY <2>2, <2>3
<1>3. attempt[p] <= rivals[p] /\ attempt[p] \in Nat /\ rivals[p] \in Nat
  BY <1>0, <1>1 DEF RivalInv, TypeOK
<1>4. SUFFICES ASSUME NEW q \in Producers, sending'[q] # NoMessage
               PROVE  /\ attempt'[q] <= rivals[q] + 1
                      /\ evicting'[q] \/ Len(queue'[sending'[q].class]) = QueueSize
                           => attempt'[q] <= rivals[q]
  BY <1>1 DEF RivalInv, Full
<1>5. CASE q = p
  <2>1. sending'[p] = sending[p] /\ attempt'[p] = attempt[p] + 1
    BY <1>1, <1>4, <1>5
  <2>2. ~(evicting'[q] \/ Len(queue'[sending'[q].class]) = QueueSize)
    BY <1>0, <1>1, <1>2, <1>5, <2>1
  <2>3. QED
    BY <1>3, <1>5, <2>1, <2>2
<1>6. CASE q # p
  <2>1. sending[q] # NoMessage /\ sending[q].class \in Classes
    BY <1>1, <1>4, <1>6 DEF TypeOK, Messages
  <2>2. /\ attempt[q] <= rivals[q] + 1
        /\ evicting[q] \/ Len(queue[sending[q].class]) = QueueSize => attempt[q] <= rivals[q]
    BY <2>1 DEF RivalInv, Full
  <2>3. QED
    BY <1>1, <1>2, <1>6, <2>1, <2>2
<1>7. QED
  BY <1>5, <1>6

LEMMA BatcherRivals ==
  ASSUME TypeOK, SendInv, RivalInv, Batcher \/ TimerFires
  PROVE  RivalInv'
<1>1. UNCHANGED <<sending, attempt, rivals, evicting>>
  BY DEF Batcher, PollState, PollBulk, PollPriority, SelectAny, TimerFires, producerVars
<1>2. CASE \E c \in Classes : Take(c)
  <2>1. PICK c \in Classes : Take(c)
    BY <1>2
  <2>2. /\ queue[c] \in Seq(Messages) /\ queue[c] # <<>> /\ Len(queue[c]) <= QueueSize
        /\ queue'[c] = Tail(queue[c])
        /\ \A d \in Classes \ {c} : queue'[d] = queue[d]
    BY <2>1 DEF Take, TypeOK
  <2>3. Len(queue'[c]) = Len(queue[c]) - 1 /\ Len(queue[c]) \in Nat
    BY <2>2, HeadTailProperties, LenProperties
  <2>4. \A d \in Classes : Full(d)' => Full(d)
    <3>1. Len(queue'[c]) # QueueSize
      BY <2>2, <2>3
    <3>2. QED
      BY <2>2, <3>1 DEF Full
  <2>5. QED
    BY <1>1, <2>4, QuietRivals
<1>3. CASE UNCHANGED queue
  BY <1>1, <1>3, QuietRivals DEF Full
<1>4. QED
  BY <1>2, <1>3
  DEF Batcher, PollState, PollBulk, PollPriority, SelectAny, TimerFires, Flush, Classes

LEMMA InitRivalInv == Init => RivalInv
  BY DEF Init, RivalInv

LEMMA NextRivalInv ==
  ASSUME QueueInv, RivalInv, [Next]_vars
  PROVE  RivalInv'
<1>1. TypeOK /\ SendInv
  BY DEF QueueInv
<1>2. CASE Next
  BY <1>1, <1>2, SendMessageRivals, OfferRivals, EvictRivals, BatcherRivals DEF Next, Produce
<1>3. CASE UNCHANGED vars
  BY <1>1, <1>3, QuietRivals DEF vars, producerVars, Full
<1>4. QED
  BY <1>2, <1>3

THEOREM RivalInvariance == Spec => []RivalInv
  BY InitRivalInv, NextRivalInv, Invariance, PTL DEF Spec

\* An accepted event is lost only as the oldest of a full channel that is no state
\* channel, and nobody gives up an event before others of its class were accepted in
\* every round but the first, whatever the number of rounds (message.go:56-76).
THEOREM LossesAreDue == Spec => LossIsDue
<1> DEFINE due ==
      /\ \A c \in Classes : \A i \in DOMAIN queue[c] :
           queue[c][i] \in lost' =>
             /\ i = 1 /\ c # "state"
             /\ \E p \in Producers : evicting[p] /\ sending[p].class = c
      /\ \A p \in Producers :
           sending[p] # NoMessage /\ sending[p] \in lost' \ lost =>
             rivals[p] >= EvictAttempts - 1
<1>1. QueueInv /\ WayInv /\ RivalInv /\ [Next]_vars => [due]_vars
  <2> SUFFICES ASSUME QueueInv, WayInv, RivalInv, Next
               PROVE  due
    OBVIOUS
  <2>1. TypeOK /\ SendInv
    BY DEF QueueInv
  <2>2. /\ \A c \in Classes : \A i \in DOMAIN queue[c] : queue[c][i] \in Waiting(c)
        /\ \A p \in Producers : sending[p] # NoMessage => sending[p] \in Held(p)
    BY DEF Waiting, Elements, Held
  <2>3. \A c \in Classes : \A i \in DOMAIN queue[c] : queue[c][i] \notin lost
    BY <2>2 DEF WayInv, PlacesInv, Apart
  <2>4. CASE lost' = lost
    BY <2>3, <2>4
  <2>5. CASE \E m \in Messages : m.id = submitted + 1 /\ lost' = lost \cup {m}
    <3>1. PICK m \in Messages : m.id = submitted + 1 /\ lost' = lost \cup {m}
      BY <2>5
    <3>2. /\ \A c \in Classes : m \notin Waiting(c)
          /\ \A p \in Producers : m \notin Held(p)
      BY <2>1, <3>1, Fresh DEF WayInv, Apart
    <3>3. QED
      BY <2>2, <2>3, <3>1, <3>2
  <2>6. CASE \E p \in Producers : Evict(p)
    <3>1. PICK p \in Producers : Evict(p)
      BY <2>6
    <3>2. PICK m \in Messages, c \in Classes : m = sending[p] /\ c = m.class /\ m # NoMessage
      BY <2>1, <3>1 DEF Evict, TypeOK, SendInv, Messages
    <3> DEFINE last == attempt[p] + 1 = EvictAttempts
    <3>3. /\ evicting[p] /\ c # "state" /\ m \in Held(p)
          /\ lost' = lost \cup {queue[c][i] : i \in DOMAIN queue[c] \cap {1}} \cup {n \in {m} : last}
      BY <2>1, <2>2, <3>1, <3>2 DEF Evict, SendInv
    <3>4. ASSUME NEW d \in Classes, NEW i \in DOMAIN queue[d], queue[d][i] \in lost'
          PROVE  i = 1 /\ d = c
      <4>1. queue[d][i] # m
        BY <2>2, <3>3 DEF WayInv, PlacesInv, Apart
      <4>2. 1 \in DOMAIN queue[c] /\ queue[d][i] = queue[c][1]
        BY <2>3, <3>3, <3>4, <4>1
      <4>3. queue[d][i] \in Waiting(d) /\ queue[c][1] \in Waiting(c)
        BY <2>2, <4>2
      <4>4. d = c
        BY <4>2, <4>3 DEF WayInv, PlacesInv, Apart
      <4>5. Distinct(queue[c])
        BY DEF WayInv, PlacesInv
      <4>6. QED
        BY <4>2, <4>4, <4>5 DEF Distinct
    <3>5. ASSUME NEW q \in Producers, sending[q] # NoMessage, sending[q] \in lost' \ lost
          PROVE  rivals[q] >= EvictAttempts - 1
      <4>1. sending[q] \in Held(q)
        BY <2>2, <3>5
      <4>2. \A i \in DOMAIN queue[c] : sending[q] # queue[c][i]
        BY <2>2, <4>1 DEF WayInv, PlacesInv, Apart
      <4>3. sending[q] = m /\ last
        BY <3>3, <3>5, <4>2
      <4>4. q = p
        BY <3>3, <4>1, <4>3 DEF WayInv, PlacesInv, Apart
      <4>5. attempt[p] <= rivals[p] /\ attempt[p] \in Nat /\ rivals[p] \in Nat
        BY <3>2, <3>3 DEF RivalInv, QueueInv, TypeOK
      <4>6. QED
        BY <4>3, <4>4, <4>5
    <3>6. QED
      BY <3>2, <3>3, <3>4, <3>5
  <2>7. Next => \/ lost' = lost
                \/ \E m \in Messages : m.id = submitted + 1 /\ lost' = lost \cup {m}
                \/ \E p \in Producers : Evict(p)
    <3>1. ASSUME NEW p \in Producers, SendMessage(p)
          PROVE  \/ lost' = lost
                 \/ \E m \in Messages : m.id = submitted + 1 /\ lost' = lost \cup {m}
      <4>1. PICK c \in Classes :
              LET m == [id |-> submitted + 1, class |-> c, from |-> p]
              IN  EnqueueState(m) \/ BeginLatest(p, m)
        BY <3>1 DEF SendMessage
      <4> DEFINE m == [id |-> submitted + 1, class |-> c, from |-> p]
      <4>2. submitted + 1 \in 1..MaxMessages
        BY <2>1, <3>1 DEF SendMessage, TypeOK
      <4>3. m \in Messages /\ m.id = submitted + 1
        BY <4>2 DEF Messages
      <4>4. EnqueueState(m) \/ BeginLatest(p, m)
        BY <4>1
      <4> HIDE DEF m
      <4>5. lost' = lost \/ lost' = lost \cup {m}
        BY <4>4 DEF EnqueueState, BeginLatest
      <4>6. QED
        BY <4>3, <4>5
    <3>2. QED
      BY <3>1 DEF Next, Produce, Offer, Batcher, PollState, PollBulk, PollPriority,
                  SelectAny, TimerFires
  <2>8. QED
    BY <2>4, <2>5, <2>6, <2>7
<1>2. QED
  BY <1>1, Invariance, WayInvariance, RivalInvariance, PTL DEF Spec, LossIsDue
=============================================================================
