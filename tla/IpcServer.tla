------------------------------ MODULE IpcServer ------------------------------
(***************************************************************************)
(* The app's native IPC server, plugins/rust_api/rust/src/ipc/server.rs:    *)
(* restart_server and stop_server, the io_loop thread they spawn and join, *)
(* and the writer thread of its connection.  send_message and the queue    *)
(* between a sender and a writer are SendQueue.                            *)
(*                                                                         *)
(* Threads share RUNNING and STATE; LIFECYCLE serialises restarts and      *)
(* stops.  Connections are numbered as they are accepted and server        *)
(* threads as they are spawned; 0 stands for none.                         *)
(*                                                                         *)
(* Abstractions: every server binds the same name, the case in which they  *)
(* can disturb each other; data frames are left out, they only pass        *)
(* through; error reports, which stop nothing, and poisoned locks too.     *)
(***************************************************************************)
EXTENDS Naturals, Sequences

CONSTANTS
  Callers, NoCaller,  \* threads that call restart_server or stop_server
  MaxServers,         \* bound: server threads ever spawned
  MaxConnections      \* bound: connections ever accepted

ASSUME IpcAssumption ==
  /\ NoCaller \notin Callers
  /\ MaxServers \in Nat /\ MaxConnections \in Nat

Servers == 1..MaxServers

VARIABLES
  running,    \* RUNNING
  sender,     \* STATE.sender: the connection it sends to
  handle,     \* STATE.handle: the server thread to join
  listener,   \* the server thread whose socket file exists
  lifecycle,  \* who holds LIFECYCLE
  pc,         \* pc[c]: the next step of the call of c, or "idle"
  restart,    \* restart[c]: the call of c is a restart
  joined,     \* joined[c]: the thread c took out of STATE.handle
  spawned,    \* server threads spawned
  server,     \* server[g]: where the thread g is
  events,     \* events[g]: what g put into its sink, without data and errors
  sink,       \* sink[g]: the app still listens to the sink of g
  accepted,   \* connections accepted
  current,    \* current[g]: the connection g serves or served last
  alive,      \* alive[g]: connection_running of that connection
  peer,       \* peer[g]: the Core has its end of it open
  writer      \* writer[g]: its writer thread works

stateVars  == <<running, sender, handle, listener>>
callVars   == <<lifecycle, pc, restart, joined>>
serverVars == <<spawned, server, events, sink>>
connVars   == <<accepted, current, alive, peer, writer>>
vars == <<stateVars, callVars, serverVars, connVars>>

Connected == {"serving", "joinWriter", "ended"}
Events == {"ready", "connected", "disconnected"}

TypeOK ==
  /\ running \in BOOLEAN
  /\ sender \in 0..MaxConnections
  /\ handle \in 0..MaxServers /\ listener \in 0..MaxServers
  /\ lifecycle \in Callers \cup {NoCaller}
  /\ pc \in [Callers -> {"idle", "signal", "take", "join"}]
  /\ restart \in [Callers -> BOOLEAN] /\ joined \in [Callers -> 0..MaxServers]
  /\ spawned \in 0..MaxServers
  /\ server \in [Servers -> {"unborn", "binding", "accepting", "accepted", "attached",
                             "finish", "leave", "done"} \cup Connected]
  /\ events \in [Servers -> Seq(Events)] /\ sink \in [Servers -> BOOLEAN]
  /\ accepted \in 0..MaxConnections /\ current \in [Servers -> 0..MaxConnections]
  /\ alive \in [Servers -> BOOLEAN] /\ peer \in [Servers -> BOOLEAN] /\ writer \in [Servers -> BOOLEAN]

Init ==
  /\ running = FALSE /\ sender = 0 /\ handle = 0 /\ listener = 0
  /\ lifecycle = NoCaller
  /\ pc = [c \in Callers |-> "idle"]
  /\ restart = [c \in Callers |-> FALSE] /\ joined = [c \in Callers |-> 0]
  /\ spawned = 0 /\ accepted = 0
  /\ server = [g \in Servers |-> "unborn"]
  /\ events = [g \in Servers |-> <<>>]
  /\ sink = [g \in Servers |-> TRUE]
  /\ current = [g \in Servers |-> 0]
  /\ alive = [g \in Servers |-> FALSE]
  /\ peer = [g \in Servers |-> FALSE]
  /\ writer = [g \in Servers |-> FALSE]

-----------------------------------------------------------------------------
(* restart_server and stop_server                                           *)

Steps(c, from, to) == pc[c] = from /\ pc' = [pc EXCEPT ![c] = to]

Begin(c, asRestart) ==
  /\ lifecycle = NoCaller
  /\ Steps(c, "idle", "signal")
  /\ lifecycle' = c
  /\ restart' = [restart EXCEPT ![c] = asRestart]
  /\ UNCHANGED <<joined, stateVars, serverVars, connVars>>

\* Mutant of Signal: the thread is not told to stop.
SignalNobody(c) ==
  /\ Steps(c, "signal", "take")
  /\ UNCHANGED <<lifecycle, restart, joined, stateVars, serverVars, connVars>>

\* stop_server_thread clears RUNNING first, so that a thread that takes STATE later
\* publishes no sender.
Signal(c) ==
  /\ Steps(c, "signal", "take")
  /\ running' = FALSE
  /\ UNCHANGED <<lifecycle, restart, joined, sender, handle, listener, serverVars,
                 connVars>>

Take(c) ==
  /\ Steps(c, "take", "join")
  /\ sender' = 0 /\ handle' = 0
  /\ joined' = [joined EXCEPT ![c] = handle]
  /\ UNCHANGED <<lifecycle, restart, running, listener, serverVars, connVars>>

\* Mutant of SpawnServer: a thread that could not be spawned leaves RUNNING set.
SpawnServerRunning ==
  \/ /\ spawned < MaxServers
     /\ listener' = 0 /\ running' = TRUE
     /\ spawned' = spawned + 1 /\ handle' = spawned'
     /\ server' = [server EXCEPT ![spawned'] = "binding"]
  \/ /\ listener' = 0
     /\ running' = TRUE
     /\ UNCHANGED <<spawned, handle, server>>

\* The stale socket is removed and a new thread spawned, or one of the two fails.
\* LIFECYCLE is held and no thread runs, so nobody sees the steps in between.
SpawnServer ==
  \/ /\ spawned < MaxServers
     /\ listener' = 0 /\ running' = TRUE
     /\ spawned' = spawned + 1 /\ handle' = spawned'
     /\ server' = [server EXCEPT ![spawned'] = "binding"]
  \/ /\ listener' \in {0, listener}
     /\ running' = FALSE
     /\ UNCHANGED <<spawned, handle, server>>

\* Mutant of Join: the old thread is left to end by itself.
JoinNobody(c) ==
  /\ Steps(c, "join", "idle") /\ lifecycle' = NoCaller
  /\ \/ restart[c] /\ SpawnServer
     \/ ~restart[c] /\ UNCHANGED <<running, handle, listener, spawned, server>>
  /\ UNCHANGED <<restart, joined, sender, events, sink, connVars>>

\* The thread is joined, a restart spawns the next one, and the call returns.
Join(c) ==
  /\ Steps(c, "join", "idle") /\ lifecycle' = NoCaller
  /\ joined[c] # 0 => server[joined[c]] = "done"
  /\ \/ restart[c] /\ SpawnServer
     \/ ~restart[c] /\ UNCHANGED <<running, handle, listener, spawned, server>>
  /\ UNCHANGED <<restart, joined, sender, events, sink, connVars>>

Caller(c) == Signal(c) \/ Take(c) \/ Join(c)

-----------------------------------------------------------------------------
(* io_loop                                                                  *)

Moves(g, from, to) == server[g] = from /\ server' = [server EXCEPT ![g] = to]

\* Puts an event into the sink of g; one nobody listens to is lost.
Emit(g, event) ==
  events' = [events EXCEPT ![g] = IF sink[g] THEN Append(@, event) ELSE @]

\* What most steps of the thread leave alone.
ServerFrame == UNCHANGED <<handle, callVars, spawned, sink>>

\* The socket is bound and readiness reported, or a part of that fails.
Bind(g) ==
  /\ \/ /\ Moves(g, "binding", IF sink[g] THEN "accepting" ELSE "finish")
        /\ listener' = g /\ Emit(g, "ready")
     \/ /\ Moves(g, "binding", "finish")
        /\ listener' \in {listener, g} /\ UNCHANGED events
  /\ UNCHANGED <<running, sender, connVars>> /\ ServerFrame

StopAccepting(g) ==
  /\ Moves(g, "accepting", "finish")
  /\ UNCHANGED <<running, sender, listener, events, connVars>> /\ ServerFrame

LoopEnds(g) == ~running /\ StopAccepting(g)

AcceptFails(g) == running /\ StopAccepting(g)

\* A peer connects.  One that is not authorised, that cannot be named or whose stream
\* cannot be made nonblocking is dropped and leaves no trace.
Accept(g) ==
  /\ accepted < MaxConnections
  /\ Moves(g, "accepting", "accepted")
  /\ accepted' = accepted + 1
  /\ current' = [current EXCEPT ![g] = accepted']
  /\ peer' = [peer EXCEPT ![g] = TRUE]
  /\ UNCHANGED <<running, sender, listener, events, alive, writer>> /\ ServerFrame

\* The sender is published, unless the server was stopped meanwhile.
Attach(g) ==
  /\ \/ running /\ Moves(g, "accepted", "attached") /\ sender' = current[g]
     \/ ~running /\ Moves(g, "accepted", "finish") /\ UNCHANGED sender
  /\ UNCHANGED <<running, listener, events, connVars>> /\ ServerFrame

\* The connection is announced and its writer started.
Announce(g) ==
  /\ Moves(g, "attached", IF sink[g] THEN "serving" ELSE "finish")
  /\ Emit(g, "connected")
  /\ alive' = [alive EXCEPT ![g] = sink[g]]
  /\ writer' = [writer EXCEPT ![g] = sink[g]]
  /\ UNCHANGED <<running, sender, listener, accepted, current, peer>> /\ ServerFrame

\* The read loop ends: the writer is told and the sender withdrawn.
EndRead(g) ==
  /\ Moves(g, "serving", "joinWriter")
  /\ alive' = [alive EXCEPT ![g] = FALSE]
  /\ sender' = 0
  /\ UNCHANGED <<running, listener, events, accepted, current, peer, writer>>
  /\ ServerFrame

\* It sees that the writer, the server or the peer stopped.
ReadEnds(g) ==
  /\ ~alive[g] \/ ~running \/ ~peer[g]
  /\ EndRead(g)

\* A read fails, for an oversized frame for instance, or data finds no listener.
ReadFails(g) ==
  /\ running \/ ~sink[g]
  /\ EndRead(g)

\* The writer is joined.
JoinWriter(g) ==
  /\ ~writer[g]
  /\ Moves(g, "joinWriter", "ended")
  /\ UNCHANGED <<running, sender, listener, events, connVars>> /\ ServerFrame

\* The end of the connection is announced, unless the server was stopped.
Ended(g) ==
  /\ \/ /\ running /\ Emit(g, "disconnected")
        /\ Moves(g, "ended", IF sink[g] THEN "accepting" ELSE "finish")
     \/ ~running /\ Moves(g, "ended", "accepting") /\ UNCHANGED events
  /\ UNCHANGED <<running, sender, listener, connVars>> /\ ServerFrame

\* finish_server: RUNNING, then the sender and the socket file.
Finish(g) ==
  /\ Moves(g, "finish", "leave")
  /\ running' = FALSE
  /\ UNCHANGED <<sender, listener, events, connVars>> /\ ServerFrame

Leave(g) ==
  /\ Moves(g, "leave", "done")
  /\ sender' = 0 /\ listener' \in {0, listener}
  /\ UNCHANGED <<running, events, connVars>> /\ ServerFrame

\* What the thread does by itself; a peer, and most failures, it only waits for.
Progress(g) ==
  \/ Bind(g) \/ LoopEnds(g) \/ Attach(g) \/ Announce(g) \/ ReadEnds(g) \/ JoinWriter(g)
  \/ Ended(g) \/ Finish(g) \/ Leave(g)

-----------------------------------------------------------------------------
(* The writer thread, and the environment                                   *)

WriterEnds(g) ==
  /\ writer[g]
  /\ writer' = [writer EXCEPT ![g] = FALSE]
  /\ alive' = [alive EXCEPT ![g] = FALSE]
  /\ UNCHANGED <<stateVars, callVars, serverVars, accepted, current, peer>>

\* is_running, which every wait of the thread looks at, is false.
WriterStops(g) == (~alive[g] \/ ~running) /\ WriterEnds(g)

\* A write fails.
WriterFails(g) == ~peer[g] /\ WriterEnds(g)

SinkClosed(g) ==
  /\ sink[g] /\ server[g] # "unborn"
  /\ sink' = [sink EXCEPT ![g] = FALSE]
  /\ UNCHANGED <<stateVars, callVars, spawned, server, events, connVars>>

PeerCloses(g) ==
  /\ peer[g]
  /\ peer' = [peer EXCEPT ![g] = FALSE]
  /\ UNCHANGED <<stateVars, callVars, serverVars, accepted, current, alive, writer>>

Next ==
  \/ \E c \in Callers : Caller(c) \/ \E b \in BOOLEAN : Begin(c, b)
  \/ \E g \in Servers :
       \/ Progress(g) \/ Accept(g) \/ AcceptFails(g) \/ ReadFails(g)
       \/ WriterStops(g) \/ WriterFails(g) \/ SinkClosed(g) \/ PeerCloses(g)

Spec == Init /\ [][Next]_vars

\* Threads run and their sleeps end.  Nobody has to call, connect, close or read,
\* and nothing has to fail.
FairSpec ==
  /\ Spec
  /\ \A c \in Callers : WF_vars(Caller(c))
  /\ \A g \in Servers : WF_vars(Progress(g)) /\ WF_vars(WriterStops(g))

-----------------------------------------------------------------------------
(* Properties                                                               *)

Alive(g) == server[g] \notin {"unborn", "done"}

\* One server thread at a time, and while it accepts or serves its socket file is
\* there: what a thread clears when it ends, RUNNING, the sender and the socket, is
\* never its successor's (server.rs:44-75, 104-112).
OneServer ==
  /\ \A g, h \in Servers : Alive(g) /\ Alive(h) => g = h
  /\ \A g \in Servers :
       server[g] \in {"accepting", "accepted", "attached"} \cup Connected => listener = g

\* When the last call was a stop, or a restart that failed, nothing is left of the
\* server: no thread, no sender, RUNNING cleared (server.rs:44-82, 186-194).
StoppedIsQuiet ==
  lifecycle = NoCaller /\ handle = 0 =>
    ~running /\ sender = 0 /\ \A g \in Servers : ~Alive(g)

\* Once the app has been told of a connection, and until it or the server ends, the
\* published sender is that connection's; it is withdrawn before the app is told of
\* the end (server.rs:186-206, 253-263).
SenderFollowsConnection ==
  \A g \in Servers :
    /\ server[g] = "serving" /\ running => sender = current[g]
    /\ server[g] \in {"accepting", "accepted", "joinWriter", "ended"} => sender = 0

\* The app is told of readiness first, then of connections one after the other, none
\* before the end of the one before (server.rs:143-264; transport.dart:266-324).
EventsAlternate ==
  \A g \in Servers :
    \A i \in DOMAIN events[g] :
      /\ events[g][i] = "ready" <=> i = 1
      /\ events[g][i] = "connected" <=> i % 2 = 0

\* A restart or stop returns whatever the server thread was doing, even with a peer
\* that does not read (server.rs:44-82, 208-236).
CallReturns == \A c \in Callers : pc[c] # "idle" ~> pc[c] = "idle"
=============================================================================
