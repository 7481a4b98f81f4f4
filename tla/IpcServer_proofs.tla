-------------------------- MODULE IpcServer_proofs --------------------------
(* Type correctness and safety of IpcServer, for any number of callers, of   *)
(* server threads and of connections.                                        *)
EXTENDS IpcServer, TLAPS

USE IpcAssumption

-----------------------------------------------------------------------------
\* LIFECYCLE is held by the call that is under way; it has cleared RUNNING when it
\* takes the handle, and the handle is gone when it joins.
CallInv ==
  /\ \A c \in Callers : pc[c] # "idle" => lifecycle = c
  /\ \A c \in Callers : pc[c] = "take" => ~running
  /\ \A c \in Callers : pc[c] = "join" => handle = 0
  /\ running => handle # 0

\* A thread that lives is the one to join, and so the only one.
ThreadInv ==
  /\ \A g \in Servers : g > spawned => server[g] = "unborn"
  /\ \A g \in Servers : Alive(g) => handle = g \/ \E c \in Callers : pc[c] = "join" /\ joined[c] = g

\* The socket file is the thread's, and a sender has a thread that will clear it.
SocketInv ==
  /\ \A g \in Servers :
       server[g] \in {"accepting", "accepted", "attached"} \cup Connected => listener = g
  /\ sender # 0 => \E g \in Servers : Alive(g)

\* The sender, at each place of the thread.
SenderInv ==
  \A g \in Servers :
    /\ server[g] \in {"attached", "serving"} /\ running => sender = current[g]
    /\ server[g] \in {"binding", "accepting", "accepted", "joinWriter", "ended"} => sender = 0

\* How many events the app has been told of, at each place of the thread; a thread
\* that was stopped in a connection does not tell of its end.
EventsFit(g) ==
  /\ server[g] \in {"unborn", "binding"} => Len(events[g]) = 0
  /\ server[g] \in {"accepting", "accepted"} => Len(events[g]) % 2 = 1 \/ ~running
  /\ server[g] = "attached" => Len(events[g]) % 2 = 1
  /\ server[g] \in Connected => Len(events[g]) % 2 = 0 /\ Len(events[g]) # 0

EventInv == \A g \in Servers : sink[g] => EventsFit(g)

IpcInv ==
  /\ TypeOK
  /\ CallInv
  /\ ThreadInv
  /\ SocketInv
  /\ SenderInv
  /\ EventInv
  /\ EventsAlternate

-----------------------------------------------------------------------------
LEMMA InitInv == Init => IpcInv
<1>. SUFFICES ASSUME Init PROVE IpcInv
  OBVIOUS
<1>. USE DEF Init, Servers
<1>1. TypeOK
  <2>1. events \in [Servers -> Seq(Events)]
    BY DEF Events
  <2>2. \A S : 0 \in 0..MaxServers /\ 0 \in 0..MaxConnections
    OBVIOUS
  <2>. QED
    BY <2>1, <2>2 DEF TypeOK, Connected
<1>2. CallInv /\ ThreadInv /\ SocketInv /\ SenderInv
  BY DEF CallInv, ThreadInv, SocketInv, SenderInv, Alive, Connected
<1>3. EventInv /\ EventsAlternate
  BY DEF EventInv, EventsFit, EventsAlternate, Connected
<1>. QED
  BY <1>1, <1>2, <1>3 DEF IpcInv

\* No two threads live at a time.
LEMMA OneAlive ==
  ASSUME TypeOK, CallInv, ThreadInv, NEW g \in Servers, NEW h \in Servers, Alive(g), Alive(h)
  PROVE  g = h
<1>1. CASE handle = g
  BY <1>1 DEF ThreadInv, CallInv, Servers
<1>2. CASE handle # g
  <2>1. PICK c \in Callers : pc[c] = "join" /\ joined[c] = g
    BY <1>2 DEF ThreadInv
  <2>2. handle = 0 /\ lifecycle = c
    BY <2>1 DEF CallInv
  <2>3. PICK d \in Callers : pc[d] = "join" /\ joined[d] = h
    BY <2>2 DEF ThreadInv, Servers
  <2>. QED
    BY <2>1, <2>2, <2>3 DEF CallInv
<1>. QED
  BY <1>1, <1>2

\* When a call has joined, no thread lives.
LEMMA JoinedAll ==
  ASSUME TypeOK, CallInv, ThreadInv, NEW c \in Callers, Join(c), NEW g \in Servers
  PROVE  ~Alive(g)
<1>1. pc[c] = "join" /\ handle = 0 /\ lifecycle = c
  BY DEF Join, Steps, CallInv
<1>2. SUFFICES ASSUME Alive(g) PROVE FALSE
  OBVIOUS
<1>3. PICK d \in Callers : pc[d] = "join" /\ joined[d] = g
  BY <1>1, <1>2 DEF ThreadInv, Servers
<1>4. d = c
  BY <1>1, <1>3 DEF CallInv
<1>. QED
  BY <1>2, <1>3, <1>4 DEF Join, Alive, Servers

\* A call that joined leaves no thread, or a new one that is at its beginning.
LEMMA JoinEffect ==
  ASSUME TypeOK, CallInv, NEW c \in Callers, Join(c)
  PROVE  \/ /\ spawned + 1 \in Servers /\ spawned' = spawned + 1 /\ handle' = spawned + 1
            /\ listener' = 0 /\ server' = [server EXCEPT ![spawned + 1] = "binding"]
         \/ /\ UNCHANGED <<spawned, handle, server>>
            /\ listener' \in {0, listener} /\ running' = FALSE
BY DEF Join, SpawnServer, Steps, TypeOK, CallInv, Servers

\* The other threads than a living one are ended or not yet born.
LEMMA OthersRest ==
  ASSUME TypeOK, CallInv, ThreadInv
  PROVE  \A g, h \in Servers :
           server[g] \notin {"unborn", "done"} /\ h # g => server[h] \in {"unborn", "done"}
BY OneAlive DEF Alive

\* A call that returns keeps the types.
LEMMA JoinType ==
  ASSUME TypeOK, CallInv, NEW c \in Callers, Join(c)
  PROVE  TypeOK'
<1>1. /\ UNCHANGED <<restart, joined, sender, events, sink, accepted, current, alive, peer, writer>>
      /\ pc' \in [Callers -> {"idle", "signal", "take", "join"}]
      /\ lifecycle' = NoCaller
  BY DEF Join, Steps, connVars, TypeOK
<1>2. running' \in BOOLEAN
  BY DEF Join, SpawnServer, TypeOK
<1>3. spawned' \in 0..MaxServers /\ handle' \in 0..MaxServers
  <2>1. CASE spawned + 1 \in Servers /\ spawned' = spawned + 1 /\ handle' = spawned + 1
    BY <2>1 DEF Servers
  <2>2. CASE UNCHANGED <<spawned, handle>>
    BY <2>2 DEF TypeOK
  <2>. QED
    BY <2>1, <2>2, JoinEffect
<1>4. listener' \in 0..MaxServers
  <2>1. listener' \in {0, listener}
    BY JoinEffect
  <2>. QED
    BY <2>1 DEF TypeOK
<1>5. server' \in [Servers -> {"unborn", "binding", "accepting", "accepted", "attached", "finish",
                               "leave", "done"} \cup Connected]
  BY JoinEffect DEF TypeOK
<1>. QED
  BY <1>1, <1>2, <1>3, <1>4, <1>5 DEF TypeOK

\* Odd and even take turns.
LEMMA Parity ==
  /\ (0 + 1) % 2 = 1
  /\ \A n \in Nat : (n % 2 = 1 => (n + 1) % 2 = 0) /\ (n % 2 = 0 => (n + 1) % 2 = 1) /\ n + 1 # 0
  /\ 0 % 2 # 1 /\ (0 + 1) % 2 # 0
  /\ \A n \in Nat : n % 2 = 0 => (n + 1) % 2 # 0
OBVIOUS

\* An event put into a sink is one of the three.
LEMMA EmitType ==
  ASSUME TypeOK, NEW g \in Servers, NEW event \in Events, Emit(g, event)
  PROVE  events' \in [Servers -> Seq(Events)]
BY DEF TypeOK, Emit

\* It is the last of the events, and no other thread's are touched.
LEMMA EmitAppends ==
  ASSUME TypeOK, NEW g \in Servers, NEW event \in Events, Emit(g, event)
  PROVE  /\ ~sink[g] => events' = events
         /\ sink[g] => events'[g] = Append(events[g], event) /\ Len(events'[g]) = Len(events[g]) + 1
         /\ \A h \in Servers : h # g => events'[h] = events[h]
BY DEF TypeOK, Emit

\* Every step keeps the types.
LEMMA TypeStep ==
  ASSUME TypeOK, CallInv, [Next]_vars
  PROVE  TypeOK'
<1>. USE DEF TypeOK, Servers, Connected, stateVars, callVars, serverVars, connVars, vars,
             Steps, Moves, ServerFrame
<1>1. ASSUME NEW c \in Callers, NEW b \in BOOLEAN, Begin(c, b) PROVE TypeOK'
  BY <1>1 DEF Begin
<1>2. ASSUME NEW c \in Callers, Signal(c) PROVE TypeOK'
  BY <1>2 DEF Signal
<1>3. ASSUME NEW c \in Callers, Take(c) PROVE TypeOK'
  BY <1>3 DEF Take
<1>4. ASSUME NEW c \in Callers, Join(c) PROVE TypeOK'
  BY <1>4, JoinType
<1>5. ASSUME NEW g \in Servers, Bind(g) PROVE TypeOK'
  <2>1. UNCHANGED events \/ Emit(g, "ready")
    BY <1>5 DEF Bind
  <2>2. events' \in [Servers -> Seq(Events)]
    BY <2>1, EmitType DEF Events, Emit
  <2>3. listener' \in {listener, g}
    BY <1>5 DEF Bind
  <2>4. /\ server' = [server EXCEPT ![g] = "accepting"] \/ server' = [server EXCEPT ![g] = "finish"]
        /\ UNCHANGED <<running, sender, connVars, handle, callVars, spawned, sink>>
    BY <1>5 DEF Bind
  <2>5. server' \in [Servers -> {"unborn", "binding", "accepting", "accepted", "attached",
                                "finish", "leave", "done"} \cup Connected]
    BY <2>4
  <2>6. listener' \in 0..MaxServers
    BY <2>3
  <2>. QED
    BY <2>2, <2>4, <2>5, <2>6
<1>6. ASSUME NEW g \in Servers, LoopEnds(g) PROVE TypeOK'
  BY <1>6 DEF LoopEnds, StopAccepting
<1>7. ASSUME NEW g \in Servers, Attach(g) PROVE TypeOK'
  <2>1. sender' \in 0..MaxConnections
    BY <1>7 DEF Attach
  <2>2. server' = [server EXCEPT ![g] = "attached"] \/ server' = [server EXCEPT ![g] = "finish"]
    BY <1>7 DEF Attach
  <2>3. UNCHANGED <<running, listener, events, connVars, handle, callVars, spawned, sink>>
    BY <1>7 DEF Attach
  <2>. QED
    BY <2>1, <2>2, <2>3
<1>8. ASSUME NEW g \in Servers, Announce(g) PROVE TypeOK'
  <2>1. events' \in [Servers -> Seq(Events)]
    BY <1>8, EmitType DEF Announce, Events
  <2>. QED
    BY <1>8, <2>1 DEF Announce
<1>9. ASSUME NEW g \in Servers, ReadEnds(g) PROVE TypeOK'
  BY <1>9 DEF ReadEnds, EndRead
<1>10. ASSUME NEW g \in Servers, JoinWriter(g) PROVE TypeOK'
  BY <1>10 DEF JoinWriter
<1>11. ASSUME NEW g \in Servers, Ended(g) PROVE TypeOK'
  <2>1. events' \in [Servers -> Seq(Events)]
    BY <1>11, EmitType DEF Ended, Events
  <2>. QED
    BY <1>11, <2>1 DEF Ended
<1>12. ASSUME NEW g \in Servers, Finish(g) PROVE TypeOK'
  BY <1>12 DEF Finish
<1>13. ASSUME NEW g \in Servers, Leave(g) PROVE TypeOK'
  BY <1>13 DEF Leave
<1>14. ASSUME NEW g \in Servers, Accept(g) PROVE TypeOK'
  BY <1>14 DEF Accept
<1>15. ASSUME NEW g \in Servers, AcceptFails(g) PROVE TypeOK'
  BY <1>15 DEF AcceptFails, StopAccepting
<1>16. ASSUME NEW g \in Servers, ReadFails(g) PROVE TypeOK'
  BY <1>16 DEF ReadFails, EndRead
<1>17. ASSUME NEW g \in Servers, WriterStops(g) PROVE TypeOK'
  BY <1>17 DEF WriterStops, WriterEnds
<1>18. ASSUME NEW g \in Servers, WriterFails(g) PROVE TypeOK'
  BY <1>18 DEF WriterFails, WriterEnds
<1>19. ASSUME NEW g \in Servers, SinkClosed(g) PROVE TypeOK'
  BY <1>19 DEF SinkClosed
<1>20. ASSUME NEW g \in Servers, PeerCloses(g) PROVE TypeOK'
  BY <1>20 DEF PeerCloses
<1>21. CASE UNCHANGED vars
  BY <1>21
<1>. HIDE DEF TypeOK, Servers, Connected, stateVars, callVars, serverVars, connVars, vars,
              Steps, Moves, ServerFrame
<1>. QED
  BY <1>1, <1>2, <1>3, <1>4, <1>5, <1>6, <1>7, <1>8, <1>9, <1>10, <1>11, <1>12, <1>13,
     <1>14, <1>15, <1>16, <1>17, <1>18, <1>19, <1>20, <1>21 DEF Next, Caller, Progress

\* A call under way is alone, and RUNNING is set for a thread to join only.
LEMMA CallStep ==
  ASSUME TypeOK, CallInv, [Next]_vars
  PROVE  CallInv'
<1>. USE DEF TypeOK, CallInv, Servers, stateVars, callVars, serverVars, connVars, vars,
             Steps, Moves, ServerFrame
<1>1. ASSUME NEW c \in Callers, NEW b \in BOOLEAN, Begin(c, b) PROVE CallInv'
  BY <1>1 DEF Begin
<1>2. ASSUME NEW c \in Callers, Signal(c) PROVE CallInv'
  BY <1>2 DEF Signal
<1>3. ASSUME NEW c \in Callers, Take(c) PROVE CallInv'
  BY <1>3 DEF Take
<1>4. ASSUME NEW c \in Callers, Join(c) PROVE CallInv'
  BY <1>4 DEF Join, SpawnServer
<1>5. ASSUME NEW g \in Servers, Bind(g) PROVE CallInv'
  BY <1>5 DEF Bind
<1>6. ASSUME NEW g \in Servers, LoopEnds(g) PROVE CallInv'
  BY <1>6 DEF LoopEnds, StopAccepting
<1>7. ASSUME NEW g \in Servers, Attach(g) PROVE CallInv'
  BY <1>7 DEF Attach
<1>8. ASSUME NEW g \in Servers, Announce(g) PROVE CallInv'
  BY <1>8 DEF Announce
<1>9. ASSUME NEW g \in Servers, ReadEnds(g) PROVE CallInv'
  BY <1>9 DEF ReadEnds, EndRead
<1>10. ASSUME NEW g \in Servers, JoinWriter(g) PROVE CallInv'
  BY <1>10 DEF JoinWriter
<1>11. ASSUME NEW g \in Servers, Ended(g) PROVE CallInv'
  BY <1>11 DEF Ended
<1>12. ASSUME NEW g \in Servers, Finish(g) PROVE CallInv'
  BY <1>12 DEF Finish
<1>13. ASSUME NEW g \in Servers, Leave(g) PROVE CallInv'
  BY <1>13 DEF Leave
<1>14. ASSUME NEW g \in Servers, Accept(g) PROVE CallInv'
  BY <1>14 DEF Accept
<1>15. ASSUME NEW g \in Servers, AcceptFails(g) PROVE CallInv'
  BY <1>15 DEF AcceptFails, StopAccepting
<1>16. ASSUME NEW g \in Servers, ReadFails(g) PROVE CallInv'
  BY <1>16 DEF ReadFails, EndRead
<1>17. ASSUME NEW g \in Servers, WriterStops(g) PROVE CallInv'
  BY <1>17 DEF WriterStops, WriterEnds
<1>18. ASSUME NEW g \in Servers, WriterFails(g) PROVE CallInv'
  BY <1>18 DEF WriterFails, WriterEnds
<1>19. ASSUME NEW g \in Servers, SinkClosed(g) PROVE CallInv'
  BY <1>19 DEF SinkClosed
<1>20. ASSUME NEW g \in Servers, PeerCloses(g) PROVE CallInv'
  BY <1>20 DEF PeerCloses
<1>21. CASE UNCHANGED vars
  BY <1>21
<1>. HIDE DEF TypeOK, CallInv, Servers, stateVars, callVars, serverVars, connVars, vars,
              Steps, Moves, ServerFrame
<1>. QED
  BY <1>1, <1>2, <1>3, <1>4, <1>5, <1>6, <1>7, <1>8, <1>9, <1>10, <1>11, <1>12, <1>13,
     <1>14, <1>15, <1>16, <1>17, <1>18, <1>19, <1>20, <1>21 DEF Next, Caller, Progress

\* The only thread is the one to join.
LEMMA ThreadStep ==
  ASSUME TypeOK, CallInv, ThreadInv, [Next]_vars
  PROVE  ThreadInv'
<1>. USE DEF TypeOK, CallInv, ThreadInv, Alive, Connected, Servers, stateVars, callVars,
             serverVars, connVars, vars, Steps, Moves, ServerFrame
<1>1. ASSUME NEW c \in Callers, NEW b \in BOOLEAN, Begin(c, b) PROVE ThreadInv'
  BY <1>1 DEF Begin
<1>2. ASSUME NEW c \in Callers, Signal(c) PROVE ThreadInv'
  BY <1>2 DEF Signal
<1>3. ASSUME NEW c \in Callers, Take(c) PROVE ThreadInv'
  BY <1>3 DEF Take
<1>4. ASSUME NEW c \in Callers, Join(c) PROVE ThreadInv'
  <2>1. ASSUME NEW g \in Servers PROVE server[g] \in {"unborn", "done"}
    BY <1>4, JoinedAll
  <2>2. CASE /\ spawned + 1 \in Servers /\ spawned' = spawned + 1 /\ handle' = spawned + 1
             /\ server' = [server EXCEPT ![spawned + 1] = "binding"]
    <3>1. ASSUME NEW g \in Servers, g # spawned + 1 PROVE server'[g] = server[g]
      BY <2>2, <3>1
    <3>2. ASSUME NEW g \in Servers, g > spawned' PROVE server'[g] = "unborn"
      BY <2>2, <3>1, <3>2
    <3>3. ASSUME NEW g \in Servers, server'[g] \notin {"unborn", "done"} PROVE handle' = g
      BY <2>1, <2>2, <3>1, <3>3
    <3>. QED
      BY <3>2, <3>3
  <2>3. CASE UNCHANGED <<spawned, handle, server>>
    BY <1>4, <2>1, <2>3 DEF Join
  <2>. QED
    BY <1>4, <2>2, <2>3, JoinEffect
<1>5. ASSUME NEW g \in Servers, Bind(g) PROVE ThreadInv'
  BY <1>5 DEF Bind
<1>6. ASSUME NEW g \in Servers, LoopEnds(g) PROVE ThreadInv'
  BY <1>6 DEF LoopEnds, StopAccepting
<1>7. ASSUME NEW g \in Servers, Attach(g) PROVE ThreadInv'
  BY <1>7 DEF Attach
<1>8. ASSUME NEW g \in Servers, Announce(g) PROVE ThreadInv'
  BY <1>8 DEF Announce
<1>9. ASSUME NEW g \in Servers, ReadEnds(g) PROVE ThreadInv'
  BY <1>9 DEF ReadEnds, EndRead
<1>10. ASSUME NEW g \in Servers, JoinWriter(g) PROVE ThreadInv'
  BY <1>10 DEF JoinWriter
<1>11. ASSUME NEW g \in Servers, Ended(g) PROVE ThreadInv'
  BY <1>11 DEF Ended
<1>12. ASSUME NEW g \in Servers, Finish(g) PROVE ThreadInv'
  BY <1>12 DEF Finish
<1>13. ASSUME NEW g \in Servers, Leave(g) PROVE ThreadInv'
  BY <1>13 DEF Leave
<1>14. ASSUME NEW g \in Servers, Accept(g) PROVE ThreadInv'
  BY <1>14 DEF Accept
<1>15. ASSUME NEW g \in Servers, AcceptFails(g) PROVE ThreadInv'
  BY <1>15 DEF AcceptFails, StopAccepting
<1>16. ASSUME NEW g \in Servers, ReadFails(g) PROVE ThreadInv'
  BY <1>16 DEF ReadFails, EndRead
<1>17. ASSUME NEW g \in Servers, WriterStops(g) PROVE ThreadInv'
  BY <1>17 DEF WriterStops, WriterEnds
<1>18. ASSUME NEW g \in Servers, WriterFails(g) PROVE ThreadInv'
  BY <1>18 DEF WriterFails, WriterEnds
<1>19. ASSUME NEW g \in Servers, SinkClosed(g) PROVE ThreadInv'
  BY <1>19 DEF SinkClosed
<1>20. ASSUME NEW g \in Servers, PeerCloses(g) PROVE ThreadInv'
  BY <1>20 DEF PeerCloses
<1>21. CASE UNCHANGED vars
  BY <1>21
<1>. HIDE DEF TypeOK, CallInv, ThreadInv, Alive, Connected, Servers, stateVars, callVars,
              serverVars, connVars, vars, Steps, Moves, ServerFrame
<1>. QED
  BY <1>1, <1>2, <1>3, <1>4, <1>5, <1>6, <1>7, <1>8, <1>9, <1>10, <1>11, <1>12, <1>13,
     <1>14, <1>15, <1>16, <1>17, <1>18, <1>19, <1>20, <1>21 DEF Next, Caller, Progress

\* The socket file and the sender are those of the one thread.
LEMMA SocketStep ==
  ASSUME TypeOK, CallInv, ThreadInv, SocketInv, [Next]_vars
  PROVE  SocketInv'
<1>a. \A g, h \in Servers :
            server[g] \notin {"unborn", "done"} /\ h # g => server[h] \in {"unborn", "done"}
  BY OthersRest
<1>b. ASSUME NEW c \in Callers, Join(c)
      PROVE  /\ \A g \in Servers : server[g] \in {"unborn", "done"} /\ (g > spawned => server[g] = "unborn")
             /\ \/ /\ spawned + 1 \in Servers /\ spawned' = spawned + 1 /\ handle' = spawned + 1
                   /\ listener' = 0 /\ server' = [server EXCEPT ![spawned + 1] = "binding"]
                \/ UNCHANGED <<spawned, handle, server>> /\ running' = FALSE
  BY <1>b, JoinEffect, JoinedAll DEF ThreadInv, Alive
<1>. USE DEF TypeOK, Alive, Connected, Servers, stateVars, callVars, serverVars, connVars,
             vars, Steps, Moves, ServerFrame, SocketInv
<1>1. ASSUME NEW c \in Callers, NEW b \in BOOLEAN, Begin(c, b) PROVE SocketInv'
  BY <1>1 DEF Begin
<1>2. ASSUME NEW c \in Callers, Signal(c) PROVE SocketInv'
  BY <1>2 DEF Signal
<1>3. ASSUME NEW c \in Callers, Take(c) PROVE SocketInv'
  BY <1>3 DEF Take
<1>4. ASSUME NEW c \in Callers, Join(c) PROVE SocketInv'
  <2>1. ASSUME NEW g \in Servers PROVE server[g] \in {"unborn", "done"}
    BY <1>4, <1>b
  <2>2. CASE /\ spawned + 1 \in Servers /\ spawned' = spawned + 1 /\ handle' = spawned + 1
             /\ listener' = 0 /\ server' = [server EXCEPT ![spawned + 1] = "binding"]
    <3>1. ASSUME NEW g \in Servers, g # spawned + 1 PROVE server'[g] \in {"unborn", "done"}
      BY <2>1, <2>2, <3>1
    <3>2. server'[spawned + 1] = "binding"
      BY <2>2
    <3>3. server[spawned + 1] = "unborn"
      <4>1. \A g \in Servers : g > spawned => server[g] = "unborn"
        BY <1>4, <1>b
      <4>. QED
        BY <2>2, <4>1
    <3>. QED
      BY <1>4, <2>2, <3>1, <3>2, <3>3 DEF Join
  <2>3. CASE UNCHANGED <<spawned, handle, server>> /\ running' = FALSE
    BY <1>4, <2>1, <2>3 DEF Join
  <2>. QED
    BY <1>4, <2>2, <2>3, <1>b
<1>5. ASSUME NEW g \in Servers, Bind(g) PROVE SocketInv'
  <2>2. \A h \in Servers : h # g => server'[h] = server[h] /\ server[h] \in {"unborn", "done"}
    BY <1>5, <1>a DEF Bind
  <2>3. server'[g] \in {"accepting", "finish"} /\ (server'[g] = "accepting" => listener' = g)
    BY <1>5 DEF Bind
  <2>. QED
    BY <1>5, <2>2, <2>3 DEF Bind
<1>6. ASSUME NEW g \in Servers, LoopEnds(g) PROVE SocketInv'
  BY <1>6 DEF LoopEnds, StopAccepting
<1>7. ASSUME NEW g \in Servers, Attach(g) PROVE SocketInv'
  <2>2. \A h \in Servers : h # g => server'[h] = server[h] /\ server[h] \in {"unborn", "done"}
    BY <1>7, <1>a DEF Attach
  <2>. QED
    BY <1>7, <2>2 DEF Attach
<1>8. ASSUME NEW g \in Servers, Announce(g) PROVE SocketInv'
  BY <1>8 DEF Announce
<1>9. ASSUME NEW g \in Servers, ReadEnds(g) PROVE SocketInv'
  BY <1>9 DEF ReadEnds, EndRead
<1>10. ASSUME NEW g \in Servers, JoinWriter(g) PROVE SocketInv'
  BY <1>10 DEF JoinWriter
<1>11. ASSUME NEW g \in Servers, Ended(g) PROVE SocketInv'
  <2>2. \A h \in Servers : h # g => server'[h] = server[h] /\ server[h] \in {"unborn", "done"}
    BY <1>11, <1>a DEF Ended
  <2>. QED
    BY <1>11, <2>2 DEF Ended
<1>12. ASSUME NEW g \in Servers, Finish(g) PROVE SocketInv'
  BY <1>12 DEF Finish
<1>13. ASSUME NEW g \in Servers, Leave(g) PROVE SocketInv'
  <2>2. \A h \in Servers : h # g => server'[h] = server[h] /\ server[h] \in {"unborn", "done"}
    BY <1>13, <1>a DEF Leave
  <2>. QED
    BY <1>13, <2>2 DEF Leave
<1>14. ASSUME NEW g \in Servers, Accept(g) PROVE SocketInv'
  BY <1>14 DEF Accept
<1>15. ASSUME NEW g \in Servers, AcceptFails(g) PROVE SocketInv'
  BY <1>15 DEF AcceptFails, StopAccepting
<1>16. ASSUME NEW g \in Servers, ReadFails(g) PROVE SocketInv'
  BY <1>16 DEF ReadFails, EndRead
<1>17. ASSUME NEW g \in Servers, WriterStops(g) PROVE SocketInv'
  BY <1>17 DEF WriterStops, WriterEnds
<1>18. ASSUME NEW g \in Servers, WriterFails(g) PROVE SocketInv'
  BY <1>18 DEF WriterFails, WriterEnds
<1>19. ASSUME NEW g \in Servers, SinkClosed(g) PROVE SocketInv'
  BY <1>19 DEF SinkClosed
<1>20. ASSUME NEW g \in Servers, PeerCloses(g) PROVE SocketInv'
  BY <1>20 DEF PeerCloses
<1>21. CASE UNCHANGED vars
  BY <1>21
<1>. HIDE DEF TypeOK, Alive, Connected, Servers, stateVars, callVars, serverVars,
              connVars, vars, Steps, Moves, ServerFrame, SocketInv
<1>. QED
  BY <1>1, <1>2, <1>3, <1>4, <1>5, <1>6, <1>7, <1>8, <1>9, <1>10, <1>11, <1>12, <1>13,
     <1>14, <1>15, <1>16, <1>17, <1>18, <1>19, <1>20, <1>21 DEF Next, Caller, Progress

\* The sender is the connection of the one thread, from its attachment to its end.
LEMMA SenderStep ==
  ASSUME TypeOK, CallInv, ThreadInv, SenderInv, SocketInv, [Next]_vars
  PROVE  SenderInv'
<1>a. \A g, h \in Servers :
            server[g] \notin {"unborn", "done"} /\ h # g => server[h] \in {"unborn", "done"}
  BY OthersRest
<1>b. ASSUME NEW c \in Callers, Join(c)
      PROVE  /\ \A g \in Servers : server[g] \in {"unborn", "done"} /\ (g > spawned => server[g] = "unborn")
             /\ \/ /\ spawned + 1 \in Servers /\ spawned' = spawned + 1 /\ handle' = spawned + 1
                   /\ listener' = 0 /\ server' = [server EXCEPT ![spawned + 1] = "binding"]
                \/ UNCHANGED <<spawned, handle, server>> /\ running' = FALSE
  BY <1>b, JoinEffect, JoinedAll DEF ThreadInv, Alive
<1>. USE DEF TypeOK, Alive, Connected, Servers, stateVars, callVars, serverVars, connVars,
             vars, Steps, Moves, ServerFrame, SenderInv, SocketInv
<1>1. ASSUME NEW c \in Callers, NEW b \in BOOLEAN, Begin(c, b) PROVE SenderInv'
  BY <1>1 DEF Begin
<1>2. ASSUME NEW c \in Callers, Signal(c) PROVE SenderInv'
  BY <1>2 DEF Signal
<1>3. ASSUME NEW c \in Callers, Take(c) PROVE SenderInv'
  BY <1>3 DEF CallInv, Take
<1>4. ASSUME NEW c \in Callers, Join(c) PROVE SenderInv'
  <2>1. ASSUME NEW g \in Servers PROVE server[g] \in {"unborn", "done"}
    BY <1>4, <1>b
  <2>2. CASE /\ spawned + 1 \in Servers /\ spawned' = spawned + 1 /\ handle' = spawned + 1
             /\ listener' = 0 /\ server' = [server EXCEPT ![spawned + 1] = "binding"]
    <3>1. ASSUME NEW g \in Servers, g # spawned + 1 PROVE server'[g] \in {"unborn", "done"}
      BY <2>1, <2>2, <3>1
    <3>2. server'[spawned + 1] = "binding"
      BY <2>2
    <3>3. server[spawned + 1] = "unborn"
      <4>1. \A g \in Servers : g > spawned => server[g] = "unborn"
        BY <1>4, <1>b
      <4>. QED
        BY <2>2, <4>1
    <3>. QED
      BY <1>4, <2>2, <3>1, <3>2, <3>3 DEF Join
  <2>3. CASE UNCHANGED <<spawned, handle, server>> /\ running' = FALSE
    BY <1>4, <2>1, <2>3 DEF Join
  <2>. QED
    BY <1>4, <2>2, <2>3, <1>b
<1>5. ASSUME NEW g \in Servers, Bind(g) PROVE SenderInv'
  BY <1>5 DEF Bind
<1>6. ASSUME NEW g \in Servers, LoopEnds(g) PROVE SenderInv'
  BY <1>6 DEF LoopEnds, StopAccepting
<1>7. ASSUME NEW g \in Servers, Attach(g) PROVE SenderInv'
  <2>2. \A h \in Servers : h # g => server'[h] = server[h] /\ server[h] \in {"unborn", "done"}
    BY <1>7, <1>a DEF Attach
  <2>. QED
    BY <1>7, <2>2 DEF Attach
<1>8. ASSUME NEW g \in Servers, Announce(g) PROVE SenderInv'
  BY <1>8 DEF Announce
<1>9. ASSUME NEW g \in Servers, ReadEnds(g) PROVE SenderInv'
  BY <1>9 DEF ReadEnds, EndRead
<1>10. ASSUME NEW g \in Servers, JoinWriter(g) PROVE SenderInv'
  BY <1>10 DEF JoinWriter
<1>11. ASSUME NEW g \in Servers, Ended(g) PROVE SenderInv'
  BY <1>11 DEF Ended
<1>12. ASSUME NEW g \in Servers, Finish(g) PROVE SenderInv'
  BY <1>12 DEF Finish
<1>13. ASSUME NEW g \in Servers, Leave(g) PROVE SenderInv'
  <2>2. \A h \in Servers : h # g => server'[h] = server[h] /\ server[h] \in {"unborn", "done"}
    BY <1>13, <1>a DEF Leave
  <2>. QED
    BY <1>13, <2>2 DEF Leave
<1>14. ASSUME NEW g \in Servers, Accept(g) PROVE SenderInv'
  BY <1>14 DEF Accept
<1>15. ASSUME NEW g \in Servers, AcceptFails(g) PROVE SenderInv'
  BY <1>15 DEF AcceptFails, StopAccepting
<1>16. ASSUME NEW g \in Servers, ReadFails(g) PROVE SenderInv'
  BY <1>16 DEF ReadFails, EndRead
<1>17. ASSUME NEW g \in Servers, WriterStops(g) PROVE SenderInv'
  BY <1>17 DEF WriterStops, WriterEnds
<1>18. ASSUME NEW g \in Servers, WriterFails(g) PROVE SenderInv'
  BY <1>18 DEF WriterFails, WriterEnds
<1>19. ASSUME NEW g \in Servers, SinkClosed(g) PROVE SenderInv'
  BY <1>19 DEF SinkClosed
<1>20. ASSUME NEW g \in Servers, PeerCloses(g) PROVE SenderInv'
  BY <1>20 DEF PeerCloses
<1>21. CASE UNCHANGED vars
  BY <1>21
<1>. HIDE DEF TypeOK, Alive, Connected, Servers, stateVars, callVars, serverVars,
              connVars, vars, Steps, Moves, ServerFrame, SenderInv, SocketInv
<1>. QED
  BY <1>1, <1>2, <1>3, <1>4, <1>5, <1>6, <1>7, <1>8, <1>9, <1>10, <1>11, <1>12, <1>13,
     <1>14, <1>15, <1>16, <1>17, <1>18, <1>19, <1>20, <1>21 DEF Next, Caller, Progress

\* A thread that is still heard tells of a beginning and of an end in turn.
LEMMA EventStep ==
  ASSUME TypeOK, CallInv, ThreadInv, EventInv, [Next]_vars
  PROVE  EventInv'
<1>a. \A g, h \in Servers :
            server[g] \notin {"unborn", "done"} /\ h # g => server[h] \in {"unborn", "done"}
  BY OthersRest
<1>b. ASSUME NEW c \in Callers, Join(c)
      PROVE  /\ \A g \in Servers : server[g] \in {"unborn", "done"} /\ (g > spawned => server[g] = "unborn")
             /\ \/ /\ spawned + 1 \in Servers /\ spawned' = spawned + 1 /\ handle' = spawned + 1
                   /\ listener' = 0 /\ server' = [server EXCEPT ![spawned + 1] = "binding"]
                \/ UNCHANGED <<spawned, handle, server>> /\ running' = FALSE
  BY <1>b, JoinEffect, JoinedAll DEF ThreadInv, Alive
<1>. USE DEF TypeOK, Alive, Connected, Servers, stateVars, callVars, serverVars, connVars,
             vars, Steps, Moves, ServerFrame, EventInv, EventsFit
<1>1. ASSUME NEW c \in Callers, NEW b \in BOOLEAN, Begin(c, b) PROVE EventInv'
  BY <1>1 DEF Begin
<1>2. ASSUME NEW c \in Callers, Signal(c) PROVE EventInv'
  BY <1>2 DEF Signal
<1>3. ASSUME NEW c \in Callers, Take(c) PROVE EventInv'
  BY <1>3 DEF Take
<1>4. ASSUME NEW c \in Callers, Join(c) PROVE EventInv'
  <2>1. ASSUME NEW g \in Servers PROVE server[g] \in {"unborn", "done"}
    BY <1>4, <1>b
  <2>2. CASE /\ spawned + 1 \in Servers /\ spawned' = spawned + 1 /\ handle' = spawned + 1
             /\ listener' = 0 /\ server' = [server EXCEPT ![spawned + 1] = "binding"]
    <3>1. ASSUME NEW g \in Servers, g # spawned + 1 PROVE server'[g] \in {"unborn", "done"}
      BY <2>1, <2>2, <3>1
    <3>2. server'[spawned + 1] = "binding"
      BY <2>2
    <3>3. server[spawned + 1] = "unborn"
      <4>1. \A g \in Servers : g > spawned => server[g] = "unborn"
        BY <1>4, <1>b
      <4>. QED
        BY <2>2, <4>1
    <3>. QED
      BY <1>4, <2>2, <3>1, <3>2, <3>3 DEF Join
  <2>3. CASE UNCHANGED <<spawned, handle, server>> /\ running' = FALSE
    BY <1>4, <2>1, <2>3 DEF Join
  <2>. QED
    BY <1>4, <2>2, <2>3, <1>b
<1>5. ASSUME NEW g \in Servers, Bind(g) PROVE EventInv'
  <2>2. \A h \in Servers : h # g => server'[h] = server[h] /\ server[h] \in {"unborn", "done"}
    BY <1>5, <1>a DEF Bind
  <2>3. UNCHANGED events \/ Emit(g, "ready")
    BY <1>5 DEF Bind
  <2>4. \A h \in Servers : h # g => events'[h] = events[h]
    BY <2>3, EmitAppends DEF Events
  <2>5. sink[g] /\ server'[g] # "finish" =>
          server'[g] = "accepting" /\ Len(events[g]) = 0 /\ Len(events'[g]) = Len(events[g]) + 1
    BY <1>5, EmitAppends DEF Bind, Events
  <2>6. Len(events[g]) \in Nat /\ server'[g] \in {"accepting", "finish"}
    <3>1. server'[g] \in {"accepting", "finish"}
      BY <1>5 DEF Bind
    <3>. QED
      BY <3>1
  <2>7. sink' = sink /\ running' = running
    BY <1>5 DEF Bind
  <2>. QED
    <3>1. ASSUME NEW h \in Servers, h # g, sink'[h] PROVE EventsFit(h)'
      BY <2>2, <2>4, <2>7, <3>1
    <3>2. ASSUME sink'[g] PROVE EventsFit(g)'
      BY <2>5, <2>6, <2>7, <3>2, Parity
    <3>. QED
      BY <3>1, <3>2
<1>6. ASSUME NEW g \in Servers, LoopEnds(g) PROVE EventInv'
  BY <1>6 DEF LoopEnds, StopAccepting
<1>7. ASSUME NEW g \in Servers, Attach(g) PROVE EventInv'
  <2>1. /\ UNCHANGED <<sink, events, running>>
        /\ server'[g] = (IF running THEN "attached" ELSE "finish") /\ server[g] = "accepted"
        /\ \A h \in Servers : h # g => server'[h] = server[h]
    BY <1>7 DEF Attach
  <2>. QED
    BY <2>1
<1>8. ASSUME NEW g \in Servers, Announce(g) PROVE EventInv'
  <2>2. \A h \in Servers : h # g => server'[h] = server[h] /\ server[h] \in {"unborn", "done"}
    BY <1>8, <1>a DEF Announce
  <2>3. UNCHANGED events \/ Emit(g, "connected")
    BY <1>8 DEF Announce
  <2>4. \A h \in Servers : h # g => events'[h] = events[h]
    BY <2>3, EmitAppends DEF Events
  <2>5. sink[g] => server'[g] = "serving" /\ server[g] = "attached" /\ Len(events'[g]) = Len(events[g]) + 1
    BY <1>8, EmitAppends DEF Announce, Events
  <2>6. Len(events[g]) \in Nat /\ server'[g] \notin {"unborn", "binding"}
    BY <1>8 DEF Announce
  <2>7. sink' = sink /\ running' = running
    BY <1>8 DEF Announce
  <2>. QED
    <3>1. ASSUME NEW h \in Servers, h # g, sink'[h] PROVE EventsFit(h)'
      BY <2>2, <2>4, <2>7, <3>1
    <3>2. ASSUME sink'[g] PROVE EventsFit(g)'
      BY <2>5, <2>6, <2>7, <3>2, Parity
    <3>. QED
      BY <3>1, <3>2
<1>9. ASSUME NEW g \in Servers, ReadEnds(g) PROVE EventInv'
  BY <1>9 DEF ReadEnds, EndRead
<1>10. ASSUME NEW g \in Servers, JoinWriter(g) PROVE EventInv'
  BY <1>10 DEF JoinWriter
<1>11. ASSUME NEW g \in Servers, Ended(g) PROVE EventInv'
  <2>2. \A h \in Servers : h # g => server'[h] = server[h] /\ server[h] \in {"unborn", "done"}
    BY <1>11, <1>a DEF Ended
  <2>3. UNCHANGED events \/ Emit(g, "disconnected")
    BY <1>11 DEF Ended
  <2>4. \A h \in Servers : h # g => events'[h] = events[h]
    BY <2>3, EmitAppends DEF Events
  <2>5. sink[g] =>
          server'[g] = "accepting" /\ server[g] = "ended" /\ (~running' \/ Len(events'[g]) = Len(events[g]) + 1)
    BY <1>11, EmitAppends DEF Ended, Events
  <2>6. Len(events[g]) \in Nat /\ server'[g] \notin {"unborn", "binding"}
    BY <1>11 DEF Ended
  <2>7. sink' = sink /\ running' = running
    BY <1>11 DEF Ended
  <2>. QED
    <3>1. ASSUME NEW h \in Servers, h # g, sink'[h] PROVE EventsFit(h)'
      BY <2>2, <2>4, <2>7, <3>1
    <3>2. ASSUME sink'[g] PROVE EventsFit(g)'
      BY <2>5, <2>6, <2>7, <3>2, Parity
    <3>. QED
      BY <3>1, <3>2
<1>12. ASSUME NEW g \in Servers, Finish(g) PROVE EventInv'
  BY <1>12 DEF Finish
<1>13. ASSUME NEW g \in Servers, Leave(g) PROVE EventInv'
  BY <1>13 DEF Leave
<1>14. ASSUME NEW g \in Servers, Accept(g) PROVE EventInv'
  BY <1>14 DEF Accept
<1>15. ASSUME NEW g \in Servers, AcceptFails(g) PROVE EventInv'
  BY <1>15 DEF AcceptFails, StopAccepting
<1>16. ASSUME NEW g \in Servers, ReadFails(g) PROVE EventInv'
  BY <1>16 DEF ReadFails, EndRead
<1>17. ASSUME NEW g \in Servers, WriterStops(g) PROVE EventInv'
  BY <1>17 DEF WriterStops, WriterEnds
<1>18. ASSUME NEW g \in Servers, WriterFails(g) PROVE EventInv'
  BY <1>18 DEF WriterFails, WriterEnds
<1>19. ASSUME NEW g \in Servers, SinkClosed(g) PROVE EventInv'
  BY <1>19 DEF SinkClosed
<1>20. ASSUME NEW g \in Servers, PeerCloses(g) PROVE EventInv'
  BY <1>20 DEF PeerCloses
<1>21. CASE UNCHANGED vars
  BY <1>21
<1>. HIDE DEF TypeOK, Alive, Connected, Servers, stateVars, callVars, serverVars,
              connVars, vars, Steps, Moves, ServerFrame, EventInv, EventsFit
<1>. QED
  BY <1>1, <1>2, <1>3, <1>4, <1>5, <1>6, <1>7, <1>8, <1>9, <1>10, <1>11, <1>12, <1>13,
     <1>14, <1>15, <1>16, <1>17, <1>18, <1>19, <1>20, <1>21 DEF Next, Caller, Progress

\* An event in its turn keeps the order.
LEMMA EmitAlternates ==
  ASSUME TypeOK, EventsAlternate, NEW g \in Servers, NEW event \in Events, Emit(g, event),
         sink[g] => /\ event = "ready" <=> Len(events[g]) = 0
                    /\ event = "connected" <=> (Len(events[g]) + 1) % 2 = 0
  PROVE  EventsAlternate'
<1>. SUFFICES ASSUME NEW h \in Servers, NEW i \in DOMAIN events'[h]
              PROVE  /\ events'[h][i] = "ready" <=> i = 1
                     /\ events'[h][i] = "connected" <=> i % 2 = 0
  BY DEF EventsAlternate
<1>1. events[h] \in Seq(Events)
  BY DEF TypeOK
<1>2. CASE h = g /\ sink[g]
  <2>1. events'[g] = Append(events[g], event)
    BY <1>2, EmitAppends
  <2>2. CASE i = Len(events[g]) + 1
    <3>1. events'[h][i] = event /\ (i = 1 <=> Len(events[g]) = 0)
      BY <1>1, <1>2, <2>1, <2>2
    <3>. QED
      BY <1>2, <2>2, <3>1
  <2>3. CASE i # Len(events[g]) + 1
    BY <1>1, <1>2, <2>1, <2>3 DEF EventsAlternate
  <2>. QED
    BY <2>2, <2>3
<1>3. CASE ~(h = g /\ sink[g])
  BY <1>3, EmitAppends DEF EventsAlternate
<1>. QED
  BY <1>2, <1>3

\* Events come in their turn.
LEMMA AlternateStep ==
  ASSUME TypeOK, EventInv, EventsAlternate, [Next]_vars
  PROVE  EventsAlternate'
<1>1. ASSUME NEW g \in Servers, Bind(g) PROVE EventsAlternate'
  <2>1. CASE Emit(g, "ready")
    <3>1. sink[g] => Len(events[g]) = 0
      BY <1>1 DEF Bind, Moves, EventInv, EventsFit
    <3>2. sink[g] => (Len(events[g]) + 1) % 2 # 0
      BY <3>1, Parity
    <3>. QED
      BY <2>1, <3>1, <3>2, EmitAlternates DEF Events, Emit
  <2>2. CASE events' = events
    BY <2>2 DEF EventsAlternate
  <2>. QED
    BY <1>1, <2>1, <2>2 DEF Bind
<1>2. ASSUME NEW g \in Servers, Announce(g) PROVE EventsAlternate'
  <2>1. Emit(g, "connected") /\ (sink[g] => Len(events[g]) % 2 = 1) /\ Len(events[g]) \in Nat
    BY <1>2 DEF Announce, Moves, EventInv, EventsFit, TypeOK
  <2>2. sink[g] => (Len(events[g]) + 1) % 2 = 0 /\ Len(events[g]) # 0
    <3>1. sink[g] => (Len(events[g]) + 1) % 2 = 0
      BY <2>1, Parity
    <3>2. sink[g] => Len(events[g]) # 0
      BY <2>1, Parity
    <3>. QED
      BY <3>1, <3>2
  <2>. QED
    BY <2>1, <2>2, EmitAlternates DEF Events, Emit
<1>3. ASSUME NEW g \in Servers, Ended(g) PROVE EventsAlternate'
  <2>1. CASE Emit(g, "disconnected")
    <3>1. (sink[g] => Len(events[g]) % 2 = 0 /\ Len(events[g]) # 0) /\ Len(events[g]) \in Nat
      BY <1>3 DEF Ended, Moves, EventInv, EventsFit, TypeOK, Connected
    <3>2. sink[g] => (Len(events[g]) + 1) % 2 # 0
      BY <3>1, Parity
    <3>. QED
      BY <2>1, <3>1, <3>2, EmitAlternates DEF Events, Emit
  <2>2. CASE events' = events
    BY <2>2 DEF EventsAlternate
  <2>. QED
    BY <1>3, <2>1, <2>2 DEF Ended
<1>4. CASE events' = events
  BY <1>4 DEF EventsAlternate
<1>. QED
  BY <1>1, <1>2, <1>3, <1>4
     DEF Next, vars, stateVars, callVars, serverVars, connVars, Caller, Progress, ServerFrame,
         Begin, Signal, Take, Join, LoopEnds, AcceptFails, StopAccepting, Attach, ReadEnds, ReadFails,
         EndRead, JoinWriter, Finish, Leave, Accept, WriterStops, WriterFails, WriterEnds, SinkClosed,
         PeerCloses

-----------------------------------------------------------------------------
\* The invariant is inductive.
THEOREM Inductive == Spec => []IpcInv
<1>1. Init => IpcInv
  BY InitInv
<1>2. IpcInv /\ [Next]_vars => IpcInv'
  BY TypeStep, CallStep, ThreadStep, SocketStep, SenderStep, EventStep, AlternateStep DEF IpcInv
<1>. QED
  BY <1>1, <1>2, PTL DEF Spec

\* Every variable keeps its type (server.rs:20-37).
THEOREM TypeCorrect == Spec => []TypeOK
<1>1. IpcInv => TypeOK
  BY DEF IpcInv
<1>. QED
  BY <1>1, Inductive, PTL

\* One server thread lives at a time, and its socket file is there while it accepts or
\* serves, however many threads restart and stop the server (server.rs:44-75, 104-112).
THEOREM OneServerAtATime == Spec => []OneServer
<1>1. IpcInv => OneServer
  BY OneAlive DEF IpcInv, OneServer, SocketInv
<1>. QED
  BY <1>1, Inductive, PTL

\* A stop that returned left no thread, no sender and RUNNING cleared (server.rs:44-82).
THEOREM StopIsQuiet == Spec => []StoppedIsQuiet
<1>1. ASSUME IpcInv, lifecycle = NoCaller, handle = 0
      PROVE  ~running /\ sender = 0 /\ \A g \in Servers : ~Alive(g)
  <2>1. ~running
    BY <1>1 DEF IpcInv, CallInv
  <2>2. \A c \in Callers : pc[c] = "idle"
    BY <1>1, IpcAssumption DEF IpcInv, CallInv
  <2>3. \A g \in Servers : ~Alive(g)
    BY <1>1, <2>2 DEF IpcInv, ThreadInv, Servers
  <2>4. sender = 0
    BY <1>1, <2>3 DEF IpcInv, SocketInv
  <2>. QED
    BY <2>1, <2>3, <2>4
<1>2. IpcInv => StoppedIsQuiet
  BY <1>1 DEF StoppedIsQuiet
<1>. QED
  BY <1>2, Inductive, PTL

\* While the app knows of a connection the sender is that connection's, and between two
\* connections there is none (server.rs:186-206, 253-263).
THEOREM SenderIsTheConnection == Spec => []SenderFollowsConnection
<1>1. IpcInv => SenderFollowsConnection
  BY DEF IpcInv, SenderInv, SenderFollowsConnection
<1>. QED
  BY <1>1, Inductive, PTL

\* The app hears of readiness first and then of one connection after the other
\* (server.rs:143-264).
THEOREM EventsTakeTurns == Spec => []EventsAlternate
<1>1. IpcInv => EventsAlternate
  BY DEF IpcInv
<1>. QED
  BY <1>1, Inductive, PTL
=============================================================================
