----------------------------- MODULE HelperFront -----------------------------
(***************************************************************************)
(* The Helper as a server: the listener and its accept loop, connections   *)
(* and what became of them, the routes, and the graceful shutdown, around  *)
(* the request threads of HelperService.                                   *)
(*                                                                         *)
(* A request is named by its connection: a kept-alive connection counts as *)
(* many.  hyper drops the handler of a client that hangs up, not the       *)
(* blocking thread the handler awaits.  /ping and /logs take no part in    *)
(* the Core's state and are answered in one step.                          *)
(***************************************************************************)
EXTENDS HelperService

CONSTANT MaxErrors  \* bound: accept errors in one life of the Helper

ASSUME FrontAssumption == MaxErrors \in Nat

VARIABLES
  listener,  \* "unbound", "listening", "pausing" (after an error) or "closed"
  errors,    \* accept errors since the listener was bound
  conn,      \* conn[r]: where the connection of r is
  status     \* status[r]: the answer its client has received

frontVars == <<listener, errors, conn, status>>
allVars   == <<vars, frontVars>>

Conns == {"none", "backlog", "open", "asked", "answered", "refused", "gone"}

\* Connections the server still has to serve before its future ends.
Served == {r \in Requests : conn[r] \in {"open", "asked"}}

SetConn(r, c) == conn' = [conn EXCEPT ![r] = c]

-----------------------------------------------------------------------------
(***************************************************************************)
(* routes() and handle_rejection.  Each endpoint rejects a request for the *)
(* first of its filters that fails; the answer looks at the rejections of  *)
(* all of them.                                                            *)
(***************************************************************************)
Endpoints == {[path |-> "ping",  method |-> "GET"],
              [path |-> "start", method |-> "POST"],
              [path |-> "stop",  method |-> "POST"],
              [path |-> "logs",  method |-> "GET"]}

Asks == [path : {e.path : e \in Endpoints} \cup {"unknown"},
         method : {"GET", "POST"}, wellFormed : BOOLEAN]

\* The filters of one endpoint, in their order: path, method, query or body.
Reject(e, ask) ==
  CASE e.path # ask.path -> "notFound"
    [] e.path = ask.path /\ e.method # ask.method -> "methodNotAllowed"
    [] OTHER -> "malformed"

Rejections(ask) == {Reject(e, ask) : e \in Endpoints}

\* /logs has neither query nor body to parse.
Accepted(ask) ==
  /\ [path |-> ask.path, method |-> ask.method] \in Endpoints
  /\ ask.wellFormed \/ ask.path = "logs"

HandleRejection(rejections) ==
  CASE "malformed" \in rejections -> "invalidRequest"
    [] rejections = {"notFound"}  -> "notFound"
    [] OTHER                      -> "methodNotAllowed"

\* What /ping and /logs answer; ping compares the digest the client expects
\* before it opens the Core.
Information(path) ==
  IF path = "logs" THEN {"logs"}
                   ELSE {"helperPath", "coreSha256Mismatch", "helperPathError"}

Outcomes(ask) == IF Accepted(ask) THEN Information(ask.path)
                                  ELSE {HandleRejection(Rejections(ask))}

-----------------------------------------------------------------------------
FrontInit ==
  /\ Init
  /\ listener = "unbound" /\ errors = 0
  /\ conn = [r \in Requests |-> "none"]
  /\ status = [r \in Requests |-> "none"]

\* AuthorizedIncoming::bind, which removes a stale socket, or try_bind.
Bind ==
  /\ helper = "up" /\ listener = "unbound"
  /\ listener' = "listening" /\ errors' = 0
  /\ UNCHANGED <<vars, conn, status>>

\* A bound socket takes connections in, accepted or not.
Connect(r) ==
  /\ listener \in {"listening", "pausing"} /\ conn[r] = "none"
  /\ SetConn(r, "backlog")
  /\ UNCHANGED <<vars, listener, errors, status>>

\* poll_next: on Linux a peer that is not the owner is dropped unanswered.
Accept(r) ==
  /\ listener = "listening" /\ conn[r] = "backlog"
  /\ \E authorized \in IF JobObject THEN {TRUE} ELSE BOOLEAN :
       SetConn(r, IF authorized THEN "open" ELSE "refused")
  /\ UNCHANGED <<vars, listener, errors, status>>

\* Resource exhaustion: no accept until the retry delay is over.
AcceptError ==
  /\ listener = "listening" /\ errors < MaxErrors
  /\ listener' = "pausing" /\ errors' = errors + 1
  /\ UNCHANGED <<vars, conn, status>>

RetryDelayOver ==
  /\ listener = "pausing"
  /\ listener' = "listening"
  /\ UNCHANGED <<vars, errors, conn, status>>

\* A well-formed POST to /start or /stop reaches its blocking thread.
Submit(r) ==
  /\ conn[r] = "open"
  /\ \E k \in {"start", "stop"}, s \in Sessions, valid \in BOOLEAN : Arrive(r, k, s, valid)
  /\ SetConn(r, "asked")
  /\ UNCHANGED <<listener, errors, status>>

\* Anything else is answered without the Core's lock.
Inform(r) ==
  /\ helper # "down" /\ conn[r] = "open"
  /\ \E ask \in {a \in Asks : ~(Accepted(a) /\ a.path \in {"start", "stop"})} :
       \E answer \in Outcomes(ask) : status' = [status EXCEPT ![r] = answer]
  /\ SetConn(r, "answered")
  /\ UNCHANGED <<vars, listener, errors>>

\* start_request or stop_request resumes: the answer goes out.
Respond(r) ==
  /\ helper # "down" /\ conn[r] = "asked" /\ pc[r] = "done"
  /\ status' = [status EXCEPT ![r] = reply[r]]
  /\ SetConn(r, "answered")
  /\ UNCHANGED <<vars, listener, errors>>

\* The client closes its end, or its deadline passes; or, of a connection
\* without a request, a draining server closes its own end.
HangUp(r) ==
  /\ conn[r] \in {"backlog", "open", "asked"}
  /\ SetConn(r, "gone")
  /\ UNCHANGED <<vars, listener, errors, status>>

\* The listener goes with the signal, and the backlog with the listener.
FrontShutdown ==
  /\ listener \in {"listening", "pausing"}
  /\ BeginShutdown
  /\ listener' = "closed"
  /\ conn' = [r \in Requests |-> IF conn[r] = "backlog" THEN "refused" ELSE conn[r]]
  /\ UNCHANGED <<errors, status>>

\* Mutant of FrontRelease: the Core is released when the signal arrives.
FrontReleaseAtOnce == ShutdownRelease /\ UNCHANGED frontVars

\* server.await has returned: every accepted connection is done.
FrontRelease ==
  /\ Served = {}
  /\ ShutdownRelease
  /\ UNCHANGED frontVars

\* The process ends, and every connection with it.
FrontEnd ==
  /\ Crash \/ Exit
  /\ listener' = "unbound"
  /\ conn' = [r \in Requests |-> IF conn[r] \in {"backlog", "open", "asked"}
                                   THEN "gone" ELSE conn[r]]
  /\ UNCHANGED <<errors, status>>

\* The request threads, the Core and the service manager do not see the front.
Behind ==
  /\ (\E r \in Threads : Thread(r)) \/ (\E p \in Pids : CoreExit(p)) \/ Restart
  /\ UNCHANGED frontVars

FrontNext ==
  \/ Bind \/ AcceptError \/ RetryDelayOver
  \/ \E r \in Requests : Connect(r) \/ Accept(r) \/ Submit(r) \/ Inform(r)
                         \/ Respond(r) \/ HangUp(r)
  \/ FrontShutdown \/ FrontRelease \/ FrontEnd
  \/ Behind

FrontSpec == FrontInit /\ [][FrontNext]_allVars

(***************************************************************************)
(* A thread that holds or awaits the lock keeps running, its waits being   *)
(* bounded; the executor polls the listener, the delay and the handlers.   *)
(* Clients, signals and errors owe nothing.                                *)
(***************************************************************************)
FrontFairness ==
  /\ \A r \in Threads : WF_allVars(Thread(r) /\ UNCHANGED frontVars)
  /\ \A r \in Requests : WF_allVars(Accept(r)) /\ WF_allVars(Respond(r))
  /\ WF_allVars(RetryDelayOver)

FairFrontSpec == FrontSpec /\ FrontFairness

-----------------------------------------------------------------------------
\* The start that a Core p comes from cannot be waiting for it: its client hung up, or
\* its Helper died; or the job could not be bound, and it was answered `internalError`.
Disowned(p) ==
  \E r \in Requests :
    /\ kind[r] = "start" /\ session[r] = owner[p]
    /\ conn[r] = "gone" \/ (p \notin confined /\ reply[r] = "internalError")

\* The shutdown leaves no Core behind that a client has been given: once the server
\* has drained and the managed Core is released, whatever Core still runs, confined or
\* not, was started for a client that had hung up, late, or by a Helper that died.
\* The one exception: a Core whose job binding failed is dropped alive and answered
\* `internalError` (hub.rs, start and CoreJob::bind), and nothing ends it here.
ReleasedForGood ==
  helper = "draining" /\ pc[Main] = "done" /\ reply[Main] = "released"
    => \A p \in running : Disowned(p)

\* Who has connected is accepted, refused or closed, although no file descriptor
\* was left for a while; and who has sent a request is answered.  Unless the client
\* hangs up or the Helper dies: no wait for a descriptor, for the lock or for a
\* Core's exit is unbounded.
AnswerReachesClient ==
  \A r \in Requests :
    conn[r] \in {"backlog", "asked"} ~> conn[r] \notin {"backlog", "asked"}
=============================================================================
