--------------------------- MODULE FrameWriter_proofs ---------------------------
(***************************************************************************)
(* Proofs about SendQueue and FrameWriter, the queue of outgoing messages  *)
(* and the thread that writes them: the byte budget is exact and kept, and *)
(* the socket takes whole frames, each message once.                       *)
(***************************************************************************)
EXTENDS FrameWriter, FiniteSetTheorems, SequenceTheorems, TLAPS

-----------------------------------------------------------------------------
(* Bytes                                                                    *)

LEMMA LengthFacts == \A m \in Messages : Length(m) \in Nat \ {0}
  BY QueueAssumption DEF Length

\* The bytes of a set of messages, with one more and with one less.
LEMMA TotalFacts ==
  ASSUME NEW S \in SUBSET Messages
  PROVE  /\ IsFiniteSet(S) /\ Cardinality(S) \in Nat /\ Total(S) \in Nat
         /\ Total(S) = 0 => S = {}
         /\ \A m \in Messages \ S : /\ Total(S \cup {m}) = Total(S) + Length(m)
                                    /\ Cardinality(S \cup {m}) = Cardinality(S) + 1
<1>1. /\ IsFiniteSet(S) /\ Cardinality(S) \in Nat
      /\ IsFiniteSet(S \cap Large) /\ Cardinality(S \cap Large) \in Nat
  <2>1. IsFiniteSet(Messages)
    BY QueueAssumption
  <2>2. IsFiniteSet(S)
    BY <2>1, FS_Subset
  <2>3. S \cap Large \in SUBSET S
    OBVIOUS
  <2>4. IsFiniteSet(S \cap Large)
    BY <2>2, <2>3, FS_Subset
  <2>5. QED
    BY <2>2, <2>4, FS_CardinalityType
<1>2. PICK c \in Nat, g \in Nat, b \in Nat :
        c = Cardinality(S) /\ g = Cardinality(S \cap Large) /\ b = MaxBytes
  BY <1>1, QueueAssumption
<1>3. b * g \in Nat /\ b * (g + 1) = b * g + b
  BY <1>2
<1>4. Total(S) = c + b * g
  BY <1>2 DEF Total
<1>5. Total(S) = 0 => S = {}
  <2>1. c + b * g = 0 => c = 0
    BY <1>2, <1>3
  <2>2. QED
    BY <1>1, <1>2, <1>4, <2>1, FS_EmptySet
<1>6. ASSUME NEW m \in Messages \ S
      PROVE  /\ Total(S \cup {m}) = Total(S) + Length(m)
             /\ Cardinality(S \cup {m}) = Cardinality(S) + 1
  <2>1. Cardinality(S \cup {m}) = c + 1
    BY <1>1, <1>2, <1>6, FS_AddElement
  <2>2. CASE m \in Large
    <3>1. (S \cup {m}) \cap Large = (S \cap Large) \cup {m} /\ m \notin S \cap Large
      BY <1>6, <2>2
    <3>2. Cardinality((S \cup {m}) \cap Large) = g + 1
      BY <1>1, <1>2, <3>1, FS_AddElement
    <3>3. Total(S \cup {m}) = (c + 1) + b * (g + 1) /\ Length(m) = b + 1
      BY <1>2, <2>1, <2>2, <3>2 DEF Total, Length
    <3>4. (c + 1) + b * (g + 1) = (c + b * g) + (b + 1)
      BY <1>2, <1>3
    <3>5. QED
      BY <1>2, <1>4, <2>1, <3>3, <3>4
  <2>3. CASE m \notin Large
    <3>1. (S \cup {m}) \cap Large = S \cap Large
      BY <2>3
    <3>2. Total(S \cup {m}) = (c + 1) + b * g /\ Length(m) = 1
      BY <1>2, <2>1, <2>3, <3>1 DEF Total, Length
    <3>3. (c + 1) + b * g = (c + b * g) + 1
      BY <1>2, <1>3
    <3>4. QED
      BY <1>2, <1>4, <2>1, <3>2, <3>3
  <2>4. QED
    BY <2>2, <2>3
<1>7. Total(S) \in Nat
  <2>1. c + b * g \in Nat
    BY <1>2, <1>3
  <2>2. QED
    BY <1>4, <2>1
<1>8. QED
  BY <1>1, <1>5, <1>6, <1>7

LEMMA TotalOfRest ==
  ASSUME NEW S \in SUBSET Messages, NEW m \in S
  PROVE  /\ Total(S \ {m}) \in Nat /\ Total(S) = Total(S \ {m}) + Length(m)
         /\ Cardinality(S \ {m}) \in Nat /\ Cardinality(S) = Cardinality(S \ {m}) + 1
<1>1. S \ {m} \in SUBSET Messages /\ m \in Messages \ (S \ {m}) /\ (S \ {m}) \cup {m} = S
  OBVIOUS
<1>2. QED
  BY <1>1, TotalFacts

-----------------------------------------------------------------------------
(* The channel                                                              *)

Elements(s) == {s[i] : i \in DOMAIN s}

Distinct(s) == \A i, j \in DOMAIN s : s[i] = s[j] => i = j

LEMMA AppendFacts ==
  ASSUME NEW s \in Seq(Messages), NEW m \in Messages
  PROVE  /\ Append(s, m) \in Seq(Messages) /\ Len(s) \in Nat /\ Len(Append(s, m)) = Len(s) + 1
         /\ Elements(Append(s, m)) = Elements(s) \cup {m}
         /\ Distinct(s) /\ m \notin Elements(s) => Distinct(Append(s, m))
<1> DEFINE t == Append(s, m)
<1>1. /\ t \in Seq(Messages) /\ Len(s) \in Nat /\ Len(t) = Len(s) + 1
      /\ DOMAIN s = 1..Len(s) /\ DOMAIN t = 1..Len(t)
      /\ \A i \in DOMAIN s : t[i] = s[i]
      /\ t[Len(s) + 1] = m
  BY AppendProperties, LenProperties
<1> HIDE DEF t
<1>2. /\ \A i \in DOMAIN t : i \in DOMAIN s \/ i = Len(s) + 1
      /\ \A i \in DOMAIN s : i \in DOMAIN t
      /\ Len(s) + 1 \in DOMAIN t
  BY <1>1
<1>3. Elements(t) = Elements(s) \cup {m}
  <2>1. \A x \in Elements(t) : x \in Elements(s) \cup {m}
    BY <1>1, <1>2 DEF Elements
  <2>2. \A x \in Elements(s) \cup {m} : x \in Elements(t)
    BY <1>1, <1>2 DEF Elements
  <2>3. QED
    BY <2>1, <2>2
<1>4. ASSUME Distinct(s), m \notin Elements(s) PROVE Distinct(t)
  <2>1. \A i \in DOMAIN s : s[i] # m
    BY <1>4 DEF Elements
  <2>2. QED
    BY <1>1, <1>2, <1>4, <2>1 DEF Distinct
<1>5. QED
  BY <1>1, <1>3, <1>4 DEF t

LEMMA TailFacts ==
  ASSUME NEW s \in Seq(Messages), s # <<>>
  PROVE  /\ Head(s) \in Messages /\ Tail(s) \in Seq(Messages)
         /\ Len(s) \in Nat /\ Len(Tail(s)) = Len(s) - 1 /\ Len(s) # 0
         /\ Elements(s) = Elements(Tail(s)) \cup {Head(s)}
         /\ Distinct(s) => Distinct(Tail(s)) /\ Head(s) \notin Elements(Tail(s))
<1> DEFINE t == Tail(s)
           h == Head(s)
<1>1. /\ h \in Messages /\ t \in Seq(Messages) /\ Len(s) \in Nat /\ Len(s) # 0
      /\ Len(t) = Len(s) - 1
      /\ DOMAIN s = 1..Len(s) /\ DOMAIN t = 1..Len(t)
      /\ \A i \in DOMAIN t : t[i] = s[i + 1]
      /\ h = s[1]
  BY HeadTailProperties, LenProperties, EmptySeq
<1> HIDE DEF t, h
<1>2. /\ \A i \in DOMAIN t : i + 1 \in DOMAIN s /\ i + 1 # 1 /\ i \in Nat
      /\ 1 \in DOMAIN s
      /\ \A i \in DOMAIN s : i # 1 => i - 1 \in DOMAIN t /\ t[i - 1] = s[i]
  BY <1>1
<1>3. Elements(s) = Elements(t) \cup {h}
  <2>1. \A x \in Elements(s) : x \in Elements(t) \cup {h}
    BY <1>1, <1>2 DEF Elements
  <2>2. \A x \in Elements(t) \cup {h} : x \in Elements(s)
    BY <1>1, <1>2 DEF Elements
  <2>3. QED
    BY <2>1, <2>2
<1>4. ASSUME Distinct(s) PROVE Distinct(t) /\ h \notin Elements(t)
  <2>1. Distinct(t)
    BY <1>1, <1>2, <1>4 DEF Distinct
  <2>2. \A i \in DOMAIN s : s[i] = h => i = 1
    BY <1>1, <1>2, <1>4 DEF Distinct
  <2>3. h \notin Elements(t)
    BY <1>1, <1>2, <2>2 DEF Elements
  <2>4. QED
    BY <2>1, <2>3
<1>5. QED
  BY <1>1, <1>3, <1>4 DEF t, h

-----------------------------------------------------------------------------
(* Where the messages are                                                   *)

\* A message is sent once, and is in one place: nothing is in the channel twice, or
\* still there when the writer has taken it out.
PlacesInv ==
  /\ TypeOK
  /\ Distinct(queue)
  /\ \A m \in Elements(queue) : send[m] = "queued" /\ m # popped
  /\ popped # NoMessage => send[popped] = "queued"

\* What is outstanding stays, grows or shrinks by a message.
SameOutstanding == Outstanding' = Outstanding /\ pending' = pending

OneMore(m) == /\ m \in Messages \ Outstanding /\ Outstanding' = Outstanding \cup {m}
              /\ Admits(m) /\ pending' = pending + Length(m)

OneLess(m) == /\ m \in Outstanding /\ Outstanding' = Outstanding \ {m}
              /\ pending' = pending - Length(m)

Budget == PlacesInv /\ BudgetHolds

LEMMA InitBudget == Init => Budget
<1> SUFFICES ASSUME Init PROVE Budget
  OBVIOUS
<1>1. /\ queue = <<>> /\ queue \in Seq(Messages) /\ Len(queue) = 0 /\ DOMAIN queue = {}
  BY EmptySeq DEF Init
<1>2. PlacesInv
  <2>1. TypeOK
    BY <1>1, QueueAssumption DEF Init, TypeOK, Waiting
  <2>2. QED
    BY <1>1, <2>1 DEF Init, PlacesInv, Distinct, Elements
<1>3. Outstanding = {} /\ pending = 0
  BY <1>1 DEF Init, Outstanding, Queued
<1>4. Total({}) = 0 /\ Cardinality({}) = 0
  <2>1. {} \cap Large = {} /\ Cardinality({}) = 0
    BY FS_EmptySet
  <2>2. QED
    BY <2>1, QueueAssumption DEF Total
<1>5. QED
  BY <1>2, <1>3, <1>4 DEF Budget, BudgetHolds, BudgetExact, BudgetKept

LEMMA OutstandingIs ==
  /\ Outstanding = {m \in Messages : send[m] = "try"} \cup Elements(queue)
                     \cup ({popped} \ {NoMessage})
  /\ Outstanding' = {m \in Messages : send'[m] = "try"} \cup Elements(queue')
                      \cup ({popped'} \ {NoMessage})
  BY DEF Outstanding, Queued, Elements

\* A step keeps every message in one place, and what is outstanding is what it was, or
\* has a message more that the budget admitted, or one less.
PlacesStep ==
  PlacesInv' /\ (SameOutstanding \/ \E m \in Messages : OneMore(m) \/ OneLess(m))

LEMMA OutstandingInMessages == PlacesInv => Outstanding \in SUBSET Messages
<1> SUFFICES ASSUME PlacesInv PROVE Outstanding \in SUBSET Messages
  OBVIOUS
<1>1. queue \in Seq(Messages) /\ popped \in Messages \cup {NoMessage}
  BY DEF PlacesInv, TypeOK
<1>2. \A i \in DOMAIN queue : queue[i] \in Messages
  BY <1>1, ElementOfSeq, LenProperties
<1>3. Elements(queue) \subseteq Messages
  BY <1>2 DEF Elements
<1>4. QED
  BY <1>1, <1>3, OutstandingIs

LEMMA PlacesFacts ==
  ASSUME PlacesInv
  PROVE  /\ queue \in Seq(Messages) /\ Len(queue) \in Nat /\ Len(queue) <= MaxPending
         /\ pending \in Nat /\ popped \in Messages \cup {NoMessage}
         /\ {running, receiver, attached} \subseteq BOOLEAN
         /\ send \in [Messages -> {"idle"} \cup Waiting \cup Outcomes]
         /\ Distinct(queue) /\ Elements(queue) \subseteq Messages
         /\ \A m \in Elements(queue) : send[m] = "queued" /\ m # popped
         /\ popped # NoMessage => send[popped] = "queued"
<1>1. queue \in Seq(Messages)
  BY DEF PlacesInv, TypeOK
<1>2. \A i \in DOMAIN queue : queue[i] \in Messages
  BY <1>1, ElementOfSeq, LenProperties
<1>3. Elements(queue) \subseteq Messages
  BY <1>2 DEF Elements
<1>4. Len(queue) \in Nat
  BY <1>1, LenProperties
<1>5. QED
  BY <1>1, <1>3, <1>4 DEF PlacesInv, TypeOK

\* A call moves on without its message being reserved or given back.
LEMMA MovesOn ==
  ASSUME PlacesInv, NEW m \in Messages, NEW from \in {"idle", "reserve", "retry"},
         NEW to \in {"reserve", "retry", "notConnected", "stopped", "full"},
         Goes(m, from, to), UNCHANGED <<running, receiver, attached, queue, pending, popped>>
  PROVE  PlacesStep
<1>1. send \in [Messages -> {"idle"} \cup Waiting \cup Outcomes] /\ send[m] = from
      /\ send' = [send EXCEPT ![m] = to]
  BY PlacesFacts DEF Goes
<1>2. send' \in [Messages -> {"idle"} \cup Waiting \cup Outcomes]
      /\ send'[m] = to /\ \A x \in Messages \ {m} : send'[x] = send[x]
  BY <1>1 DEF Waiting, Outcomes
<1>3. m \notin Elements(queue) /\ m # popped
  BY <1>1, PlacesFacts, QueueAssumption
<1>4. PlacesInv'
  <2>1. TypeOK'
    BY <1>2 DEF PlacesInv, TypeOK
  <2>2. \A x \in Elements(queue) : send'[x] = "queued"
    BY <1>2, <1>3, PlacesFacts
  <2>3. popped # NoMessage => send'[popped] = "queued"
    BY <1>2, <1>3, PlacesFacts
  <2>4. QED
    BY <2>1, <2>2, <2>3, PlacesFacts DEF PlacesInv
<1>5. {x \in Messages : send'[x] = "try"} = {x \in Messages : send[x] = "try"}
  BY <1>1, <1>2
<1>6. Outstanding' = Outstanding
  BY <1>5, OutstandingIs
<1>7. QED
  BY <1>4, <1>6 DEF PlacesStep, SameOutstanding

LEMMA ReserveStep ==
  ASSUME PlacesInv, NEW m \in Messages, TryReserve(m)
  PROVE  PlacesStep
<1>1. CASE ~Admits(m)
  BY <1>1, MovesOn DEF TryReserve
<1>2. CASE Admits(m)
  <2>1. /\ Goes(m, "reserve", "try") /\ pending' = pending + Length(m)
        /\ UNCHANGED <<running, receiver, attached, queue, popped>>
    BY <1>2 DEF TryReserve
  <2>2. /\ send[m] = "reserve" /\ send'[m] = "try"
        /\ \A x \in Messages \ {m} : send'[x] = send[x]
        /\ send' \in [Messages -> {"idle"} \cup Waiting \cup Outcomes]
    BY <2>1, PlacesFacts DEF Goes, Waiting
  <2>3. m \notin Elements(queue) /\ m # popped
    BY <2>2, PlacesFacts, QueueAssumption
  <2>4. PlacesInv'
    <3>1. Length(m) \in Nat /\ pending \in Nat
      BY LengthFacts, PlacesFacts
    <3>2. pending' \in Nat
      BY <2>1, <3>1
    <3>3. TypeOK'
      BY <2>1, <2>2, <3>2 DEF PlacesInv, TypeOK
    <3>4. \A x \in Elements(queue) : send'[x] = "queued"
      BY <2>2, <2>3, PlacesFacts
    <3>5. popped # NoMessage => send'[popped] = "queued"
      BY <2>2, <2>3, PlacesFacts
    <3>6. QED
      BY <2>1, <3>3, <3>4, <3>5, PlacesFacts DEF PlacesInv
  <2>5. {x \in Messages : send'[x] = "try"} = {x \in Messages : send[x] = "try"} \cup {m}
    BY <2>2
  <2>6. Outstanding' = Outstanding \cup {m}
    BY <2>1, <2>5, OutstandingIs
  <2>7. m \notin Outstanding
    BY <2>2, <2>3, OutstandingIs
  <2>8. QED
    BY <1>2, <2>1, <2>4, <2>6, <2>7 DEF PlacesStep, OneMore
<1>3. QED
  BY <1>1, <1>2

LEMMA SendStep ==
  ASSUME PlacesInv, Total(Outstanding) = pending, NEW m \in Messages, TrySend(m)
  PROVE  PlacesStep
<1>1. /\ send[m] = "try" /\ UNCHANGED <<running, receiver, attached, popped>>
      /\ m \notin Elements(queue) /\ m # popped
  <2>1. send[m] = "try" /\ UNCHANGED <<running, receiver, attached, popped>>
    BY DEF TrySend, Goes
  <2>2. QED
    BY <2>1, PlacesFacts, QueueAssumption
<1>2. CASE Goes(m, "try", "queued") /\ Len(queue) < MaxPending /\ queue' = Append(queue, m)
           /\ UNCHANGED pending
  <2>1. /\ send'[m] = "queued" /\ \A x \in Messages \ {m} : send'[x] = send[x]
        /\ send' \in [Messages -> {"idle"} \cup Waiting \cup Outcomes]
    BY <1>2, PlacesFacts DEF Goes, Outcomes
  <2>2. /\ queue' \in Seq(Messages) /\ Len(queue') = Len(queue) + 1 /\ Len(queue) \in Nat
        /\ Elements(queue') = Elements(queue) \cup {m} /\ Distinct(queue')
    BY <1>1, <1>2, PlacesFacts, AppendFacts
  <2>3. Len(queue') <= MaxPending
    BY <1>2, <2>2, QueueAssumption
  <2>4. PlacesInv'
    <3>1. TypeOK'
      BY <1>1, <1>2, <2>1, <2>2, <2>3 DEF PlacesInv, TypeOK
    <3>2. \A x \in Elements(queue') : send'[x] = "queued" /\ x # popped
      BY <1>1, <2>1, <2>2, PlacesFacts
    <3>3. popped # NoMessage => send'[popped] = "queued"
      BY <1>1, <2>1, PlacesFacts
    <3>4. QED
      BY <1>1, <2>2, <3>1, <3>2, <3>3 DEF PlacesInv
  <2>5. Outstanding' = Outstanding
    <3>1. {x \in Messages : send'[x] = "try"} \cup {m} = {x \in Messages : send[x] = "try"}
      BY <1>1, <2>1
    <3>2. QED
      BY <1>1, <2>2, <3>1, OutstandingIs
  <2>6. QED
    BY <1>2, <2>4, <2>5 DEF PlacesStep, SameOutstanding
<1>3. CASE \E to \in {"retry", "disconnected"} :
             Goes(m, "try", to) /\ pending' = pending - Length(m) /\ UNCHANGED queue
  <2>1. PICK to \in {"retry", "disconnected"} :
          Goes(m, "try", to) /\ pending' = pending - Length(m) /\ UNCHANGED queue
    BY <1>3
  <2>2. /\ send'[m] = to /\ \A x \in Messages \ {m} : send'[x] = send[x]
        /\ send' \in [Messages -> {"idle"} \cup Waiting \cup Outcomes]
    BY <2>1, PlacesFacts DEF Goes, Outcomes, Waiting
  <2>3. m \in Outstanding
    BY <1>1, OutstandingIs
  <2>4. pending' \in Nat
    <3>1. PICK r \in Nat : r = Total(Outstanding \ {m})
      BY <2>3, TotalOfRest, OutstandingInMessages
    <3>2. pending = r + Length(m) /\ Length(m) \in Nat
      BY <2>3, <3>1, TotalOfRest, OutstandingInMessages, LengthFacts
    <3>3. pending' = r
      BY <2>1, <3>2
    <3>4. QED
      BY <3>3
  <2>5. PlacesInv'
    <3>1. TypeOK'
      BY <1>1, <2>1, <2>2, <2>4 DEF PlacesInv, TypeOK
    <3>2. \A x \in Elements(queue) : send'[x] = "queued"
      BY <1>1, <2>2, PlacesFacts
    <3>3. popped # NoMessage => send'[popped] = "queued"
      BY <1>1, <2>2, PlacesFacts
    <3>4. QED
      BY <1>1, <2>1, <3>1, <3>2, <3>3, PlacesFacts DEF PlacesInv
  <2>6. Outstanding' = Outstanding \ {m}
    <3>1. {x \in Messages : send'[x] = "try"} = {x \in Messages : send[x] = "try"} \ {m}
      BY <2>2
    <3>2. QED
      BY <1>1, <2>1, <3>1, OutstandingIs
  <2>7. QED
    BY <2>1, <2>3, <2>5, <2>6 DEF PlacesStep, OneLess
<1>4. QED
  BY <1>2, <1>3 DEF TrySend

LEMMA ReceiveStep ==
  ASSUME PlacesInv, Receive
  PROVE  PlacesStep
<1>1. /\ queue # <<>> /\ popped = NoMessage /\ popped' = Head(queue) /\ queue' = Tail(queue)
      /\ UNCHANGED <<running, receiver, attached, pending, send>>
  BY DEF Receive
<1>2. /\ Head(queue) \in Messages /\ queue' \in Seq(Messages)
      /\ Len(queue) \in Nat /\ Len(queue') = Len(queue) - 1 /\ Len(queue) # 0
      /\ Elements(queue) = Elements(queue') \cup {Head(queue)}
      /\ Distinct(queue') /\ Head(queue) \notin Elements(queue')
  BY <1>1, PlacesFacts, TailFacts
<1>3. Len(queue') <= MaxPending
  BY <1>2, PlacesFacts, QueueAssumption
<1>4. PlacesInv'
  <2>1. TypeOK'
    BY <1>1, <1>2, <1>3 DEF PlacesInv, TypeOK
  <2>2. QED
    BY <1>1, <1>2, <2>1, PlacesFacts DEF PlacesInv
<1>5. Outstanding' = Outstanding
  <2>1. Head(queue) # NoMessage
    BY <1>2, QueueAssumption
  <2>2. QED
    BY <1>1, <1>2, <2>1, OutstandingIs
<1>6. QED
  BY <1>1, <1>4, <1>5 DEF PlacesStep, SameOutstanding

LEMMA CountStep ==
  ASSUME PlacesInv, Total(Outstanding) = pending, CountOff
  PROVE  PlacesStep
<1>1. /\ popped # NoMessage /\ pending' = pending - Length(popped) /\ popped' = NoMessage
      /\ UNCHANGED <<running, receiver, attached, queue, send>>
  BY DEF CountOff
<1>2. popped \in Outstanding /\ popped \in Messages
  BY <1>1, PlacesFacts, OutstandingIs
<1>3. pending' \in Nat
  <2>1. PICK r \in Nat : r = Total(Outstanding \ {popped})
    BY <1>2, TotalOfRest, OutstandingInMessages
  <2>2. pending = r + Length(popped) /\ Length(popped) \in Nat
    BY <1>2, <2>1, TotalOfRest, OutstandingInMessages, LengthFacts
  <2>3. pending' = r
    BY <1>1, <2>2
  <2>4. QED
    BY <2>3
<1>4. PlacesInv'
  <2>1. TypeOK'
    BY <1>1, <1>3 DEF PlacesInv, TypeOK
  <2>2. \A m \in Elements(queue) : m # NoMessage
    BY PlacesFacts, QueueAssumption
  <2>3. QED
    BY <1>1, <2>1, <2>2, PlacesFacts DEF PlacesInv
<1>5. Outstanding' = Outstanding \ {popped}
  <2>1. popped \notin Elements(queue) /\ send[popped] # "try"
    BY <1>1, PlacesFacts
  <2>2. QED
    BY <1>1, <2>1, OutstandingIs
<1>6. QED
  BY <1>1, <1>2, <1>4, <1>5 DEF PlacesStep, OneLess

LEMMA QueueStep ==
  ASSUME Budget, [Next]_vars
  PROVE  PlacesStep
<1>1. PlacesInv /\ Total(Outstanding) = pending
  BY DEF Budget, BudgetHolds, BudgetExact
<1>2. ASSUME NEW m \in Messages, SendMessage(m) \/ Retry(m) \/ GiveUp(m)
      PROVE  PlacesStep
  BY <1>1, <1>2, MovesOn DEF SendMessage, Retry, GiveUp
<1>3. CASE WriterEnds \/ Withdraw \/ StopServer \/ UNCHANGED vars
  <2>1. UNCHANGED <<queue, pending, popped, send>> /\ {running', receiver', attached'} \subseteq BOOLEAN
    BY <1>1, <1>3, PlacesFacts DEF WriterEnds, Withdraw, StopServer, vars
  <2>2. PlacesInv'
    BY <1>1, <2>1 DEF PlacesInv, TypeOK
  <2>3. Outstanding' = Outstanding
    BY <2>1, OutstandingIs
  <2>4. QED
    BY <2>1, <2>2, <2>3 DEF PlacesStep, SameOutstanding
<1>4. QED
  BY <1>1, <1>2, <1>3, ReserveStep, SendStep, ReceiveStep, CountStep DEF Next

LEMMA NextBudget ==
  ASSUME Budget, [Next]_vars
  PROVE  Budget'
<1>1. PlacesInv' /\ PlacesStep
  BY QueueStep DEF PlacesStep
<1>2. PICK S \in SUBSET Messages : S = Outstanding
  BY OutstandingInMessages DEF Budget
<1>3. /\ pending = Total(S) /\ (Cardinality(S) > 1 => Total(S) <= MaxBytes)
      /\ Total(S) \in Nat /\ Cardinality(S) \in Nat
  BY <1>2, TotalFacts DEF Budget, BudgetHolds, BudgetExact, BudgetKept
<1>4. SUFFICES ASSUME NEW T, T = Outstanding'
               PROVE  pending' = Total(T) /\ (Cardinality(T) > 1 => Total(T) <= MaxBytes)
  BY <1>1 DEF Budget, BudgetHolds, BudgetExact, BudgetKept
<1>5. CASE SameOutstanding
  BY <1>2, <1>3, <1>4, <1>5 DEF SameOutstanding
<1>6. ASSUME NEW m \in Messages, OneMore(m)
      PROVE  pending' = Total(T) /\ (Cardinality(T) > 1 => Total(T) <= MaxBytes)
  <2>1. /\ m \in Messages \ S /\ T = S \cup {m}
        /\ pending = 0 \/ pending + Length(m) <= MaxBytes
        /\ pending' = pending + Length(m)
    BY <1>2, <1>4, <1>6 DEF OneMore, Admits
  <2>2. Total(T) = Total(S) + Length(m) /\ Cardinality(T) = Cardinality(S) + 1
    BY <2>1, TotalFacts
  <2>3. Total(S) = 0 => Cardinality(S) = 0
    BY TotalFacts, FS_EmptySet
  <2>4. QED
    BY <1>3, <2>1, <2>2, <2>3
<1>7. ASSUME NEW m \in Messages, OneLess(m)
      PROVE  pending' = Total(T) /\ (Cardinality(T) > 1 => Total(T) <= MaxBytes)
  <2>1. m \in S /\ T = S \ {m} /\ pending' = pending - Length(m)
    BY <1>2, <1>4, <1>7 DEF OneLess
  <2>2. /\ Total(T) \in Nat /\ Total(S) = Total(T) + Length(m)
        /\ Cardinality(T) \in Nat /\ Cardinality(S) = Cardinality(T) + 1
    BY <2>1, TotalOfRest
  <2>3. Length(m) \in Nat /\ MaxBytes \in Nat
    BY LengthFacts, QueueAssumption
  <2>4. pending' = Total(T)
    BY <1>3, <2>1, <2>2, <2>3
  <2>5. Cardinality(T) > 1 => Total(T) <= MaxBytes
    BY <1>3, <2>2, <2>3
  <2>6. QED
    BY <2>4, <2>5
<1>8. QED
  BY <1>1, <1>5, <1>6, <1>7 DEF PlacesStep

\* Every step of the writer and of what is around it is a step of the queue, or leaves
\* the queue alone.
LEMMA WriterStepsQueue ==
  ASSUME [WriterNext]_threadVars
  PROVE  [Next]_vars
<1>1. CASE WriterStep
  <2>1. CASE Look \/ ReceiveNothing \/ Check \/ WriteUnits \/ Backoff
    BY <2>1 DEF Look, ReceiveNothing, Check, WriteUnits, Backoff
  <2>2. CASE ReceiveMessage \/ CountMessage
    BY <2>2 DEF ReceiveMessage, CountMessage, Next
  <2>3. CASE Disconnected \/ Stopped \/ WriteFails
    BY <2>3 DEF Disconnected, Stopped, WriteFails, End, Next
  <2>4. QED
    BY <1>1, <2>1, <2>2, <2>3 DEF WriterStep
<1>2. CASE EndRead \/ JoinWriter \/ PeerReads \/ PeerCloses \/ UNCHANGED threadVars
  BY <1>2 DEF EndRead, JoinWriter, PeerReads, PeerCloses, threadVars
<1>3. CASE WithdrawSender \/ Stop
  BY <1>3 DEF WithdrawSender, Stop, Next
<1>4. CASE \E m \in Messages : CallStep(m)
  BY <1>4 DEF CallStep, Next
<1>5. QED
  BY <1>1, <1>2, <1>3, <1>4 DEF WriterNext

\* The byte budget of the queue is exact and kept, whatever callers do at once and
\* whenever the writer ends (queue.rs:8-11, 35-83; server.rs:208-211): a message is in
\* one place at a time, so that its bytes are counted once and given back once.
THEOREM BudgetInvariance == Spec => []Budget
<1>1. Init => Budget
  BY InitBudget
<1>2. Budget /\ [Next]_vars => Budget'
  BY NextBudget
<1>3. QED
  BY <1>1, <1>2, PTL DEF Spec

\* The same, of the queue that the writer thread empties (server.rs:204-224).
THEOREM WriterKeepsBudget == WriterSpec => []BudgetHolds
<1>1. WriterInit => Budget
  BY InitBudget DEF WriterInit
<1>2. Budget /\ [WriterNext]_threadVars => Budget'
  BY NextBudget, WriterStepsQueue
<1>3. Budget => BudgetHolds
  BY DEF Budget
<1>4. QED
  BY <1>1, <1>2, <1>3, PTL DEF WriterSpec

\* The writer thread is one way of using the queue: the specification of the queue,
\* whose writer may end or receive at any time, allows all that it does.
THEOREM WriterImplementsQueue == WriterSpec => Spec
<1>1. WriterInit => Init
  BY DEF WriterInit
<1>2. [WriterNext]_threadVars => [Next]_vars
  BY WriterStepsQueue
<1>3. QED
  BY <1>1, <1>2, PTL DEF WriterSpec, Spec

-----------------------------------------------------------------------------
(* Outgoing frames                                                          *)

\* The units before the frame of number n, counted from 0.
Begin(n) == n * FrameLen

WriterTypeOK ==
  /\ at \in {"look", "receive", "count", "check", "write", "ended"}
  /\ frame \in Messages \cup {NoMessage}
  /\ left \in 0..FrameLen
  /\ wire \in Seq(Messages)

\* The writer is in the middle of a frame exactly between counting a message off and
\* the last of its units, unless it ended there.
FrameInv ==
  /\ at \in {"look", "receive", "count"} => left = 0
  /\ at \in {"check", "write"} => left > 0
  /\ left > 0 => frame \in Messages

\* The message was sent, received and counted off.
Gone(m) == send[m] = "queued" /\ m # popped /\ m \notin Elements(queue)

\* What is on the wire, or is being written, is nowhere else.
TakenInv ==
  /\ \A m \in Elements(wire) : Gone(m)
  /\ left > 0 => Gone(frame)

\* The wire holds n whole frames of one message each and the units of frame written so
\* far; no message has units in two frames.
Grid(n) ==
  /\ Len(wire) = Begin(n) + (IF left = 0 THEN 0 ELSE FrameLen - left)
  /\ left > 0 => /\ \A i \in Begin(n) + 1..Len(wire) : wire[i] = frame
                 /\ \A i \in 1..Begin(n) : wire[i] # frame
  /\ \A k \in 0..n - 1 :
       \E m \in Messages : \A i \in Begin(k) + 1..Begin(k) + FrameLen : wire[i] = m
  /\ \A k \in 0..n : \A i \in 1..Begin(k), j \in Begin(k) + 1..Len(wire) : wire[i] # wire[j]

GridInv == \E n \in Nat : Grid(n)

WriterInv == Budget /\ WriterTypeOK /\ FrameInv /\ TakenInv /\ GridInv

LEMMA BeginFacts ==
  /\ Begin(0) = 0
  /\ \A n \in Nat : Begin(n) \in Nat /\ Begin(n + 1) = Begin(n) + FrameLen
  /\ \A k, n \in Nat : k < n => Begin(k) + FrameLen <= Begin(n)
<1>1. FrameLen \in Nat
  BY WriterAssumption
<1>2. Begin(0) = 0
  BY <1>1 DEF Begin
<1>3. \A n \in Nat : Begin(n) \in Nat /\ Begin(n + 1) = Begin(n) + FrameLen
  BY <1>1 DEF Begin
<1>4. ASSUME NEW k \in Nat, NEW n \in Nat, k < n
      PROVE  Begin(k) + FrameLen <= Begin(n)
  <2>1. PICK d \in Nat : n = k + 1 + d
    <3>1. n - (k + 1) \in Nat /\ n = k + 1 + (n - (k + 1))
      BY <1>4
    <3>2. QED
      BY <3>1
  <2>2. d * FrameLen \in Nat
    BY <1>1
  <2>3. Begin(n) = Begin(k) + FrameLen + d * FrameLen
    BY <1>1, <2>1 DEF Begin
  <2>4. Begin(k) \in Nat /\ Begin(n) \in Nat
    BY <1>3
  <2>5. QED
    BY <1>1, <2>2, <2>3, <2>4
<1>5. QED
  BY <1>2, <1>3, <1>4

\* The bounds of the frames up to number n.
LEMMA BeginOrder ==
  ASSUME NEW n \in Nat
  PROVE  /\ \A k \in 0..n : Begin(k) \in Nat /\ Begin(k) <= Begin(n)
         /\ \A k \in 0..n - 1 : Begin(k) \in Nat /\ Begin(k) + FrameLen <= Begin(n)
<1>1. \A k \in 0..n - 1 : k \in Nat /\ k < n
  OBVIOUS
<1>2. \A k \in 0..n - 1 : Begin(k) \in Nat /\ Begin(k) + FrameLen <= Begin(n)
  BY <1>1, BeginFacts
<1>3. \A k \in 0..n : k = n \/ k \in 0..n - 1
  OBVIOUS
<1>4. Begin(n) \in Nat /\ FrameLen \in Nat
  BY BeginFacts, WriterAssumption
<1>5. QED
  BY <1>2, <1>3, <1>4

\* A unit in the frame after n others is the quotient n.
LEMMA FrameOf ==
  ASSUME NEW n \in Nat, NEW t \in Nat, Begin(n) <= t, t < Begin(n) + FrameLen
  PROVE  t \div FrameLen = n
<1> DEFINE q == t \div FrameLen
<1>1. FrameLen \in Nat \ {0}
  BY WriterAssumption
<1>2. q \in Nat /\ q * FrameLen <= t /\ t < q * FrameLen + FrameLen
  BY <1>1
<1> HIDE DEF q
<1>3. Begin(q) <= t /\ t < Begin(q) + FrameLen /\ Begin(q) \in Nat /\ Begin(n) \in Nat
  BY <1>2, BeginFacts DEF Begin
<1>4. /\ q < n => Begin(q) + FrameLen <= Begin(n)
      /\ n < q => Begin(n) + FrameLen <= Begin(q)
  BY <1>2, BeginFacts
<1>5. QED
  BY <1>1, <1>2, <1>3, <1>4 DEF q

\* A message that has left the queue never comes back: its only call is over.
LEMMA GoneStays ==
  ASSUME Budget, [Next]_vars, NEW m \in Messages, Gone(m)
  PROVE  Gone(m)'
<1>1. PlacesInv
  BY DEF Budget
<1>2. send[m] = "queued" /\ m # popped /\ m \notin Elements(queue) /\ m # NoMessage
  BY QueueAssumption DEF Gone
<1>3. send'[m] = "queued"
  <2>1. ASSUME NEW x \in Messages, NEW from \in {"idle", "reserve", "try", "retry"},
               NEW to, Goes(x, from, to)
        PROVE  send'[m] = "queued"
    BY <1>1, <1>2, <2>1, PlacesFacts DEF Goes
  <2>2. ASSUME NEW x \in Messages,
               SendMessage(x) \/ TryReserve(x) \/ TrySend(x) \/ Retry(x) \/ GiveUp(x)
        PROVE  send'[m] = "queued"
    BY <2>1, <2>2 DEF SendMessage, TryReserve, TrySend, Retry, GiveUp
  <2>3. CASE UNCHANGED send
    BY <1>2, <2>3
  <2>4. QED
    BY <2>2, <2>3 DEF Next, Receive, CountOff, WriterEnds, Withdraw, StopServer, vars
<1>4. m # popped' /\ m \notin Elements(queue')
  <2>1. CASE Receive
    <3>1. queue # <<>> /\ popped' = Head(queue) /\ queue' = Tail(queue)
      BY <2>1 DEF Receive
    <3>2. Elements(queue) = Elements(queue') \cup {popped'}
      BY <1>1, <3>1, PlacesFacts, TailFacts
    <3>3. QED
      BY <1>2, <3>2
  <2>2. ASSUME NEW x \in Messages, TrySend(x) PROVE m # popped' /\ m \notin Elements(queue')
    <3>1. popped' = popped /\ (queue' = queue \/ queue' = Append(queue, x)) /\ send[x] = "try"
      BY <2>2 DEF TrySend, Goes
    <3>2. Elements(queue') = Elements(queue) \/ Elements(queue') = Elements(queue) \cup {x}
      BY <1>1, <3>1, PlacesFacts, AppendFacts
    <3>3. QED
      BY <1>2, <3>1, <3>2
  <2>3. CASE queue' = queue /\ (popped' = popped \/ popped' = NoMessage)
    BY <1>2, <2>3
  <2>4. QED
    BY <2>1, <2>2, <2>3 DEF Next, SendMessage, TryReserve, Retry, GiveUp, CountOff, WriterEnds,
                            Withdraw, StopServer, vars
<1>5. QED
  BY <1>3, <1>4 DEF Gone

\* The socket takes q more units of the frame.
LEMMA ExtendWire ==
  ASSUME wire \in Seq(Messages), frame \in Messages, NEW q \in Nat,
         wire' = wire \o [i \in 1..q |-> frame]
  PROVE  \E len \in Nat :
           /\ Len(wire) = len /\ Len(wire') = len + q /\ wire' \in Seq(Messages)
           /\ DOMAIN wire = 1..len /\ DOMAIN wire' = 1..len + q
           /\ \A i \in 1..len : wire'[i] = wire[i]
           /\ \A i \in len + 1..len + q : wire'[i] = frame
<1> DEFINE u == [i \in 1..q |-> frame]
<1>1. u \in Seq(Messages) /\ Len(u) = q /\ \A i \in 1..q : u[i] = frame
  <2>1. u \in [1..q -> Messages]
    OBVIOUS
  <2>2. QED
    BY <2>1
<1> HIDE DEF u
<1>2. PICK len \in Nat : len = Len(wire)
  BY LenProperties
<1>3. wire' = wire \o u
  BY DEF u
<1>4. /\ wire' \in Seq(Messages) /\ Len(wire') = len + q
      /\ \A i \in 1..len + q : wire'[i] = IF i <= len THEN wire[i] ELSE u[i - len]
  BY <1>1, <1>2, <1>3, ConcatProperties
<1>5. DOMAIN wire = 1..len /\ DOMAIN wire' = 1..len + q
  BY <1>2, <1>4, LenProperties
<1>6. \A i \in 1..len : i \in 1..len + q /\ i <= len
  OBVIOUS
<1>7. \A i \in len + 1..len + q : i \in 1..len + q /\ ~(i <= len) /\ i - len \in 1..q
  OBVIOUS
<1>8. QED
  BY <1>1, <1>2, <1>4, <1>5, <1>6, <1>7

LEMMA InitWriterInv == WriterInit => WriterInv
<1> SUFFICES ASSUME WriterInit PROVE WriterInv
  OBVIOUS
<1>1. /\ wire = <<>> /\ left = 0 /\ at = "look" /\ frame = NoMessage
      /\ wire \in Seq(Messages) /\ Len(wire) = 0 /\ DOMAIN wire = {}
  BY EmptySeq DEF WriterInit
<1>2. Budget
  BY InitBudget DEF WriterInit
<1>3. WriterTypeOK /\ FrameInv /\ TakenInv
  BY <1>1, WriterAssumption DEF WriterTypeOK, FrameInv, TakenInv, Elements
<1>4. Grid(0)
  <2>1. Begin(0) = 0
    BY BeginFacts
  <2>2. \A k \in 0..0 : k = 0
    OBVIOUS
  <2>3. \A k \in 0..0 - 1 : FALSE
    OBVIOUS
  <2>4. QED
    BY <1>1, <2>1, <2>2, <2>3 DEF Grid
<1>5. QED
  BY <1>2, <1>3, <1>4 DEF WriterInv, GridInv

\* A step that writes nothing and takes no message.
LEMMA WiresStays ==
  ASSUME WriterInv, [Next]_vars, UNCHANGED <<frame, left, wire>>,
         at' \in {"look", "receive", "count", "check", "write", "ended"},
         at' \in {"look", "receive", "count"} => left = 0,
         at' \in {"check", "write"} => left > 0
  PROVE  WriterTypeOK' /\ FrameInv' /\ TakenInv' /\ GridInv'
<1>1. WriterTypeOK' /\ FrameInv'
  BY DEF WriterInv, WriterTypeOK, FrameInv
<1>2. Elements(wire) \subseteq Messages
  <2>1. \A i \in DOMAIN wire : wire[i] \in Messages
    BY ElementOfSeq, LenProperties DEF WriterInv, WriterTypeOK
  <2>2. QED
    BY <2>1 DEF Elements
<1>3. TakenInv'
  <2>1. \A m \in Elements(wire) : Gone(m)'
    BY <1>2, GoneStays DEF WriterInv, TakenInv
  <2>2. left > 0 => Gone(frame)'
    <3>1. SUFFICES ASSUME left > 0 PROVE Gone(frame)'
      OBVIOUS
    <3>2. frame \in Messages /\ Gone(frame)
      BY <3>1 DEF WriterInv, TakenInv, FrameInv
    <3>3. PICK m \in Messages : m = frame
      BY <3>2
    <3>4. Gone(m)'
      BY <3>2, <3>3, GoneStays DEF WriterInv
    <3>5. QED
      BY <3>3, <3>4 DEF Gone
  <2>3. QED
    BY <2>1, <2>2 DEF TakenInv, Gone
<1>4. GridInv'
  <2>1. PICK n \in Nat : Grid(n)
    BY DEF WriterInv, GridInv
  <2>2. Grid(n)'
    BY <2>1 DEF Grid
  <2>3. QED
    BY <2>2 DEF GridInv
<1>5. QED
  BY <1>1, <1>3, <1>4

\* A message is counted off, and its frame begins.
LEMMA CountMessageStep ==
  ASSUME WriterInv, CountMessage
  PROVE  WriterTypeOK' /\ FrameInv' /\ TakenInv' /\ GridInv'
<1>1. /\ at = "count" /\ at' = "check" /\ popped # NoMessage /\ popped' = NoMessage
      /\ frame' = popped /\ left' = FrameLen
      /\ UNCHANGED <<queue, send, wire>> /\ CountOff
  BY DEF CountMessage, Goto, CountOff, socketVars
<1>2. left = 0 /\ FrameLen \in Nat /\ FrameLen > 0
  BY <1>1, WriterAssumption DEF WriterInv, FrameInv
<1>3. popped \in Messages /\ send[popped] = "queued" /\ popped \notin Elements(queue)
  BY <1>1, PlacesFacts DEF WriterInv, Budget
<1>4. \A m \in Elements(wire) : Gone(m) /\ m # popped
  BY DEF WriterInv, TakenInv, Gone
<1>5. Elements(wire) \subseteq Messages
  <2>1. \A i \in DOMAIN wire : wire[i] \in Messages
    BY ElementOfSeq, LenProperties DEF WriterInv, WriterTypeOK
  <2>2. QED
    BY <2>1 DEF Elements
<1>6. WriterTypeOK'
  BY <1>1, <1>2, <1>3 DEF WriterInv, WriterTypeOK
<1>7. FrameInv'
  BY <1>1, <1>2, <1>3 DEF FrameInv
<1>8. TakenInv'
  <2>1. \A m \in Elements(wire) : m # NoMessage
    BY <1>5, QueueAssumption
  <2>2. QED
    BY <1>1, <1>3, <1>4, <2>1, QueueAssumption DEF TakenInv, Gone
<1>9. GridInv'
  <2>1. PICK n \in Nat : Grid(n)
    BY DEF WriterInv, GridInv
  <2>2. PICK b \in Nat : b = Begin(n)
    BY BeginFacts
  <2>3. Len(wire) = b /\ DOMAIN wire = 1..b
    <3>1. Len(wire) = b
      BY <1>2, <2>1, <2>2 DEF Grid
    <3>2. QED
      BY <3>1, LenProperties DEF WriterInv, WriterTypeOK
  <2>4. b = b + (FrameLen - FrameLen) /\ ~(FrameLen = 0)
    BY <1>2
  <2>5. \A i \in b + 1..b : FALSE
    OBVIOUS
  <2>6. \A i \in 1..b : wire[i] # popped
    BY <1>4, <2>3 DEF Elements
  <2>7. Grid(n)'
    BY <1>1, <1>2, <2>1, <2>2, <2>3, <2>4, <2>5, <2>6 DEF Grid
  <2>8. QED
    BY <2>7 DEF GridInv
<1>10. QED
  BY <1>6, <1>7, <1>8, <1>9

\* The socket takes a part of the frame, or what was left of it.
LEMMA WriteUnitsStep ==
  ASSUME WriterInv, WriteUnits
  PROVE  WriterTypeOK' /\ FrameInv' /\ TakenInv' /\ GridInv'
<1>1. PICK q \in 1..left :
        /\ wire' = wire \o [i \in 1..q |-> frame] /\ left' = left - q
        /\ at' = IF q = left THEN "look" ELSE "check"
  BY DEF WriteUnits
<1>2. UNCHANGED <<queue, popped, send, frame>> /\ at = "write"
  BY DEF WriteUnits, vars
<1>3. PICK l \in 1..FrameLen : l = left
  BY <1>2 DEF WriterInv, WriterTypeOK, FrameInv
<1>4. FrameLen \in Nat /\ l \in Nat /\ q \in Nat /\ q > 0 /\ q <= l /\ l <= FrameLen
  BY <1>1, <1>3, WriterAssumption
<1>5. PICK r \in Nat : left' = r /\ l = r + q
  <2>1. l - q \in Nat /\ l = (l - q) + q
    BY <1>4
  <2>2. QED
    BY <1>1, <1>3, <2>1
<1>6. frame \in Messages /\ Gone(frame) /\ wire \in Seq(Messages)
  BY <1>3, <1>4 DEF WriterInv, WriterTypeOK, FrameInv, TakenInv
<1>7. PICK len \in Nat :
        /\ Len(wire) = len /\ Len(wire') = len + q /\ wire' \in Seq(Messages)
        /\ DOMAIN wire = 1..len /\ DOMAIN wire' = 1..len + q
        /\ \A i \in 1..len : wire'[i] = wire[i]
        /\ \A i \in len + 1..len + q : wire'[i] = frame
  BY <1>1, <1>4, <1>6, ExtendWire
<1>8. \A i \in 1..len + q : i \in 1..len \/ i \in len + 1..len + q
  BY <1>4
<1>9. WriterTypeOK'
  <2>1. r \in 0..FrameLen
    BY <1>4, <1>5
  <2>2. QED
    BY <1>1, <1>2, <1>5, <1>6, <1>7, <2>1 DEF WriterTypeOK
<1>10. FrameInv'
  <2>1. q = l <=> r = 0
    BY <1>4, <1>5
  <2>2. r > 0 <=> r # 0
    BY <1>5
  <2>3. at' = IF r = 0 THEN "look" ELSE "check"
    BY <1>1, <1>3, <2>1
  <2>4. QED
    BY <1>2, <1>5, <1>6, <2>2, <2>3 DEF FrameInv
<1>11. TakenInv'
  <2>1. \A i \in DOMAIN wire' : wire'[i] \in Elements(wire) \/ wire'[i] = frame
    BY <1>7, <1>8 DEF Elements
  <2>2. \A m \in Elements(wire') : m \in Elements(wire) \/ m = frame
    BY <2>1 DEF Elements
  <2>3. \A m \in Elements(wire') : Gone(m)
    BY <1>6, <2>2 DEF WriterInv, TakenInv
  <2>4. QED
    BY <1>2, <1>6, <2>3 DEF TakenInv, Gone
<1>12. PICK n \in Nat : Grid(n)
  BY DEF WriterInv, GridInv
<1>13. PICK b \in Nat :
         /\ Begin(n) = b /\ Begin(n + 1) = b + FrameLen
         /\ \A k \in 0..n : Begin(k) \in Nat /\ Begin(k) <= b
         /\ \A k \in 0..n - 1 : Begin(k) \in Nat /\ Begin(k) + FrameLen <= b
  BY BeginFacts, BeginOrder
<1>14. /\ len + l = b + FrameLen /\ b <= len
       /\ \A i \in b + 1..len : wire[i] = frame
       /\ \A i \in 1..b : wire[i] # frame
  <2>1. len = b + (FrameLen - l)
    BY <1>3, <1>4, <1>7, <1>12, <1>13 DEF Grid
  <2>2. len + l = b + FrameLen /\ b <= len
    BY <1>4, <2>1
  <2>3. QED
    BY <1>3, <1>4, <1>7, <1>12, <1>13, <2>2 DEF Grid
<1>15. /\ \A i \in b + 1..len + q : wire'[i] = frame
       /\ \A i \in 1..b : i \in 1..len /\ wire'[i] # frame
  <2>1. /\ \A i \in b + 1..len + q : (i \in b + 1..len /\ i \in 1..len) \/ i \in len + 1..len + q
        /\ \A i \in 1..b : i \in 1..len
    BY <1>4, <1>14
  <2>2. QED
    BY <1>7, <1>14, <2>1
<1>16. \A k \in 0..n - 1 :
         \E m \in Messages : \A i \in Begin(k) + 1..Begin(k) + FrameLen : wire'[i] = m
  <2>1. SUFFICES ASSUME NEW k \in 0..n - 1
                 PROVE  \E m \in Messages :
                          \A i \in Begin(k) + 1..Begin(k) + FrameLen : wire'[i] = m
    OBVIOUS
  <2>2. PICK m \in Messages : \A i \in Begin(k) + 1..Begin(k) + FrameLen : wire[i] = m
    BY <1>12 DEF Grid
  <2>3. \A i \in Begin(k) + 1..Begin(k) + FrameLen : i \in 1..len
    <3>1. Begin(k) \in Nat /\ Begin(k) + FrameLen <= len
      BY <1>4, <1>13, <1>14
    <3>2. QED
      BY <1>4, <3>1
  <2>4. QED
    BY <1>7, <2>2, <2>3
<1>17. \A k \in 0..n : \A i \in 1..Begin(k), j \in Begin(k) + 1..len + q : wire'[i] # wire'[j]
  <2>1. SUFFICES ASSUME NEW k \in 0..n, NEW i \in 1..Begin(k), NEW j \in Begin(k) + 1..len + q
                 PROVE  wire'[i] # wire'[j]
    OBVIOUS
  <2>2. Begin(k) \in Nat /\ Begin(k) <= b
    BY <1>13
  <2>3. i \in 1..b /\ (j \in Begin(k) + 1..len \/ j \in len + 1..len + q)
    BY <1>4, <2>2
  <2>4. i \in 1..len /\ wire'[i] = wire[i] /\ wire[i] # frame
    BY <1>7, <1>14, <1>15, <2>3
  <2>5. CASE j \in Begin(k) + 1..len
    <3>1. j \in 1..len
      BY <2>2, <2>5
    <3>2. wire[i] # wire[j]
      BY <1>7, <1>12, <2>5 DEF Grid
    <3>3. QED
      BY <1>7, <2>4, <3>1, <3>2
  <2>6. CASE j \in len + 1..len + q
    BY <1>7, <2>4, <2>6
  <2>7. QED
    BY <2>3, <2>5, <2>6
<1>18. CASE r > 0
  <2>1. len + q = b + (FrameLen - r) /\ r # 0
    BY <1>4, <1>5, <1>14, <1>18
  <2>2. Grid(n)'
    BY <1>2, <1>5, <1>7, <1>13, <1>15, <1>16, <1>17, <2>1 DEF Grid
  <2>3. QED
    BY <1>9, <1>10, <1>11, <2>2 DEF GridInv
<1>19. CASE r = 0
  <2>1. len + q = b + FrameLen /\ len + q = (b + FrameLen) + 0 /\ ~(r > 0)
    BY <1>4, <1>5, <1>14, <1>19
  <2>2. \A k \in 0..(n + 1) - 1 :
          \E m \in Messages : \A i \in Begin(k) + 1..Begin(k) + FrameLen : wire'[i] = m
    <3>1. \A i \in Begin(n) + 1..Begin(n) + FrameLen : wire'[i] = frame
      BY <1>13, <1>15, <2>1
    <3>2. \A k \in 0..(n + 1) - 1 : k \in 0..n - 1 \/ k = n
      OBVIOUS
    <3>3. QED
      BY <1>6, <1>16, <3>1, <3>2
  <2>3. \A k \in 0..n + 1 : \A i \in 1..Begin(k), j \in Begin(k) + 1..len + q : wire'[i] # wire'[j]
    <3>1. \A k \in 0..n + 1 : k \in 0..n \/ k = n + 1
      OBVIOUS
    <3>2. \A j \in Begin(n + 1) + 1..len + q : FALSE
      BY <1>4, <1>13, <2>1
    <3>3. QED
      BY <1>17, <3>1, <3>2
  <2>4. Grid(n + 1)'
    BY <1>5, <1>7, <1>13, <1>19, <2>1, <2>2, <2>3 DEF Grid
  <2>5. n + 1 \in Nat
    OBVIOUS
  <2>6. QED
    BY <1>9, <1>10, <1>11, <2>4, <2>5 DEF GridInv
<1>20. QED
  BY <1>5, <1>18, <1>19

LEMMA NextWriterInv ==
  ASSUME WriterInv, [WriterNext]_threadVars
  PROVE  WriterInv'
<1>1. [Next]_vars /\ Budget'
  BY WriterStepsQueue, NextBudget DEF WriterInv
<1>2. WriterTypeOK /\ FrameInv
  BY DEF WriterInv
<1>3. left > 0 \/ left = 0
  BY <1>2, WriterAssumption DEF WriterTypeOK
<1>4. CASE WriteUnits
  BY <1>1, <1>4, WriteUnitsStep DEF WriterInv
<1>5. CASE CountMessage
  BY <1>1, <1>5, CountMessageStep DEF WriterInv
<1>6. ASSUME UNCHANGED <<frame, left, wire>>,
             at' \in {"look", "receive", "count", "check", "write", "ended"},
             at' \in {"look", "receive", "count"} => left = 0,
             at' \in {"check", "write"} => left > 0
      PROVE  WriterInv'
  BY <1>1, <1>6, WiresStays DEF WriterInv
<1>7. CASE Look \/ ReceiveMessage \/ ReceiveNothing
  BY <1>2, <1>6, <1>7 DEF Look, ReceiveMessage, ReceiveNothing, Goto, FrameInv, socketVars
<1>8. CASE Check \/ Backoff
  BY <1>2, <1>6, <1>8 DEF Check, Backoff, Goto, FrameInv, socketVars
<1>9. CASE Disconnected \/ Stopped \/ WriteFails
  BY <1>6, <1>9 DEF Disconnected, Stopped, WriteFails, End
<1>10. CASE UNCHANGED <<writerVars, wire>>
  <2>1. UNCHANGED <<frame, left, wire, at>>
    BY <1>10 DEF writerVars
  <2>2. QED
    BY <1>2, <1>6, <2>1 DEF WriterTypeOK, FrameInv
<1>11. CASE EndRead \/ WithdrawSender \/ JoinWriter \/ Stop \/ PeerReads \/ PeerCloses
            \/ (\E m \in Messages : CallStep(m)) \/ UNCHANGED threadVars
  BY <1>10, <1>11 DEF EndRead, WithdrawSender, JoinWriter, Stop, PeerReads, PeerCloses, CallStep,
                      threadVars, socketVars
<1>12. QED
  BY <1>4, <1>5, <1>7, <1>8, <1>9, <1>11 DEF WriterNext, WriterStep

\* Frame by frame, what the socket took is what the property says.
LEMMA GridIsWhole ==
  ASSUME WriterInv
  PROVE  OutgoingWhole
<1>1. PICK n \in Nat : Grid(n)
  BY DEF WriterInv, GridInv
<1>2. PICK b \in Nat :
        /\ Begin(n) = b
        /\ \A k \in 0..n : Begin(k) \in Nat /\ Begin(k) <= b
        /\ \A k \in 0..n - 1 : Begin(k) \in Nat /\ Begin(k) + FrameLen <= b
  BY BeginFacts, BeginOrder
<1>3. FrameLen \in Nat /\ FrameLen > 0 /\ left \in Nat /\ left <= FrameLen
  BY WriterAssumption DEF WriterInv, WriterTypeOK
<1>4. PICK len \in Nat : Len(wire) = len /\ DOMAIN wire = 1..len
  BY LenProperties DEF WriterInv, WriterTypeOK
<1>5. /\ len = b + (IF left = 0 THEN 0 ELSE FrameLen - left)
      /\ left > 0 => \A i \in b + 1..len : wire[i] = frame
  BY <1>1, <1>2, <1>4 DEF Grid
<1>6. b <= len /\ len < b + FrameLen /\ (len > b => left > 0)
  BY <1>3, <1>5
<1>7. SUFFICES ASSUME NEW i \in 1..len, NEW first, first = ((i - 1) \div FrameLen) * FrameLen + 1
               PROVE  /\ wire[i] = wire[first]
                      /\ i = first => \A k \in 1..i - 1 : wire[k] # wire[i]
                      /\ len - first + 1 < FrameLen => frame = wire[i] /\ (left > 0 \/ at = "ended")
  BY <1>4 DEF OutgoingWhole
<1>8. PICK k \in 0..n : /\ (i - 1) \div FrameLen = k /\ first = Begin(k) + 1
                        /\ Begin(k) \in Nat /\ i \in Begin(k) + 1..Begin(k) + FrameLen
                        /\ Begin(k) <= b /\ (k < n => Begin(k) + FrameLen <= b)
                        /\ (k = n => Begin(k) = b)
  <2>1. PICK t \in Nat : t = i - 1 /\ t < len
    BY <1>4, <1>7
  <2>2. PICK k \in Nat : k = t \div FrameLen
    BY <1>3, <2>1
  <2>3. Begin(k) <= t /\ t < Begin(k) + FrameLen /\ Begin(k) \in Nat
    <3>1. k * FrameLen <= t /\ t < k * FrameLen + FrameLen
      BY <1>3, <2>1, <2>2
    <3>2. QED
      BY <2>2, <3>1, BeginFacts DEF Begin
  <2>4. k <= n
    <3>1. SUFFICES ASSUME n < k PROVE FALSE
      BY <2>2
    <3>2. Begin(n) + FrameLen <= Begin(k)
      BY <2>2, <3>1, BeginFacts
    <3>3. QED
      BY <1>2, <1>3, <1>6, <2>1, <2>3, <3>2
  <2>5. k \in 0..n /\ (k < n => k \in 0..n - 1)
    BY <2>2, <2>4
  <2>6. first = Begin(k) + 1
    BY <1>7, <2>1, <2>2 DEF Begin
  <2>7. i \in Begin(k) + 1..Begin(k) + FrameLen
    <3>1. i \in Nat /\ i = t + 1
      BY <1>7, <2>1
    <3>2. QED
      BY <1>3, <2>1, <2>3, <3>1
  <2>8. QED
    BY <1>2, <2>1, <2>2, <2>3, <2>5, <2>6, <2>7
<1>9. first \in Begin(k) + 1..Begin(k) + FrameLen /\ first <= i
  BY <1>3, <1>8
<1>10. i = first => \A j \in 1..i - 1 : wire[j] # wire[i]
  <2>1. SUFFICES ASSUME i = first, NEW j \in 1..i - 1 PROVE wire[j] # wire[i]
    OBVIOUS
  <2>2. j \in 1..Begin(k) /\ i \in Begin(k) + 1..len
    BY <1>7, <1>8, <2>1
  <2>3. QED
    BY <1>1, <1>4, <1>8, <2>2 DEF Grid
<1>11. CASE k < n
  <2>1. PICK m \in Messages : \A j \in Begin(k) + 1..Begin(k) + FrameLen : wire[j] = m
    <3>1. k \in 0..n - 1
      BY <1>8, <1>11
    <3>2. QED
      BY <1>1, <3>1 DEF Grid
  <2>2. wire[i] = wire[first]
    BY <1>8, <1>9, <2>1
  <2>3. ~(len - first + 1 < FrameLen)
    <3>1. first = Begin(k) + 1 /\ Begin(k) + FrameLen <= len /\ Begin(k) \in Nat
      BY <1>2, <1>3, <1>6, <1>8, <1>11
    <3>2. QED
      BY <1>3, <1>4, <3>1
  <2>4. QED
    BY <1>10, <2>2, <2>3
<1>12. CASE k = n
  <2>1. i \in b + 1..len /\ first \in b + 1..len /\ len > b
    BY <1>3, <1>7, <1>8, <1>9, <1>12
  <2>2. left > 0 /\ wire[i] = frame /\ wire[first] = frame
    BY <1>5, <1>6, <2>1
  <2>3. QED
    BY <1>10, <2>2
<1>13. QED
  BY <1>8, <1>11, <1>12

\* The Core reads whole frames, one after the other, each message once: only the last
\* may lack a part, and then it is being written or the connection is over
\* (frame.rs:48-93; server.rs:204-224).
THEOREM OutgoingFramesWhole == WriterSpec => []OutgoingWhole
<1>1. WriterInit => WriterInv
  BY InitWriterInv
<1>2. WriterInv /\ [WriterNext]_threadVars => WriterInv'
  BY NextWriterInv
<1>3. WriterInv => OutgoingWhole
  BY GridIsWhole
<1>4. QED
  BY <1>1, <1>2, <1>3, PTL DEF WriterSpec

=============================================================================
