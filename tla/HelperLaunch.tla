----------------------------- MODULE HelperLaunch -----------------------------
(***************************************************************************)
(* The app as the Helper's client (lib/core/desktop/helper_client.dart):   *)
(* the launcher that is resolved, HelperLauncher with its release after a   *)
(* failed start, the fallback to a direct Core, and the leases.  The        *)
(* lifecycle makes these calls one at a time, and starts a Core only once   *)
(* the last lease was confirmed to be over.                                 *)
(*                                                                         *)
(* The Helper is HelperFront, of which the app is the only client here.  A  *)
(* deadline of the client passes at any time: it hangs up, and what it      *)
(* asked for may yet be done.  A session id is new to every start.  The     *)
(* ping is one step; answers that do not parse are left out.                *)
(***************************************************************************)
EXTENDS HelperFront

VARIABLES
  at,      \* the call in progress: "idle", "resolved", "starting", "releasing",
           \* "direct", "stopping" or "probing"
  sid,     \* the session of the latest start
  call,    \* the connection of the request in flight, NoRequest before it
  error,   \* what the start failed with, "none" while it has not
  lease,   \* the lease in force: "none", "helper" or "direct"
  direct   \* a Core the app started itself runs

launchVars == <<at, sid, call, error, lease, direct>>

Codes == Replies \cup {"transportError"}

LaunchTypeOK ==
  /\ at \in {"idle", "resolved", "starting", "releasing", "direct", "stopping", "probing"}
  /\ sid \in Sessions \cup {NoSession}
  /\ call \in Requests \cup {NoRequest}
  /\ error \in Codes
  /\ lease \in {"none", "helper", "direct"}
  /\ direct \in BOOLEAN

LaunchInit ==
  /\ FrontInit
  /\ at = "idle" /\ sid = NoSession /\ call = NoRequest
  /\ error = "none" /\ lease = "none" /\ direct = FALSE

-----------------------------------------------------------------------------
(* Requests                                                                 *)

Asking == at \in {"starting", "releasing", "stopping"}

Dial ==
  /\ Asking /\ call = NoRequest
  /\ \E r \in Requests : Connect(r) /\ call' = r
  /\ UNCHANGED <<at, sid, error, lease, direct>>

\* POST /start or /stop goes out on the connection.
Post ==
  /\ Asking /\ call # NoRequest /\ conn[call] = "open"
  /\ Arrive(call, IF at = "starting" THEN "start" ELSE "stop", sid, TRUE)
  /\ SetConn(call, "asked")
  /\ UNCHANGED <<listener, errors, status, launchVars>>

\* Reported before the Helper spawned a Core, and after it released the last one.
PreSpawnHelperErrors == {"coreVerificationFailed", "processLaunchFailed"}

\* Mutant of MayFallBack: whatever the Helper failed with.
AlwaysFallBack(code) == code # "none"

MayFallBack(code) == code \in PreSpawnHelperErrors

\* HelperLauncher.start: an error is kept until the session has been released.
Started(code) ==
  /\ at = "starting"
  /\ IF code = "started"
       THEN at' = "idle" /\ lease' = "helper" /\ UNCHANGED error
       ELSE at' = "releasing" /\ error' = code /\ UNCHANGED lease

\* However the release went, the error is thrown again; FallbackCoreLauncher
\* catches two of them.
Released ==
  /\ at = "releasing"
  /\ at' = IF MayFallBack(error) THEN "direct" ELSE "idle"
  /\ UNCHANGED <<error, lease>>

\* HelperCoreLease._stop
Stopped(code) ==
  /\ at = "stopping"
  /\ at' = IF code = "transportError" THEN "probing" ELSE "idle"
  /\ lease' = IF code \in {"stopped", "notRunning"} THEN "none" ELSE lease
  /\ UNCHANGED error

\* The request in flight comes to an end.
Return(code) ==
  /\ Started(code) \/ Released \/ Stopped(code)
  /\ call' = NoRequest /\ UNCHANGED <<sid, direct>>

Answered ==
  /\ call # NoRequest /\ conn[call] = "answered"
  /\ Return(status[call]) /\ UNCHANGED allVars

\* No connection within its timeout, or the connection is refused or lost.
Unreachable ==
  /\ IF call = NoRequest THEN Asking ELSE conn[call] \in {"refused", "gone"}
  /\ Return("transportError") /\ UNCHANGED allVars

\* connectTimeout, startTimeout or stopTimeout.
Deadline ==
  /\ call # NoRequest /\ HangUp(call)
  /\ Return("transportError")

-----------------------------------------------------------------------------
(* The calls of the lifecycle                                               *)

\* HelperLauncherResolver.resolve: a Helper is used that answers its ping as it
\* should, and a direct Core is started if there is none.
Resolve ==
  /\ at = "idle" /\ lease = "none"
  /\ \/ listener = "listening" /\ at' = "resolved"
     \/ at' = "direct"
  /\ error' = "none"
  /\ UNCHANGED <<allVars, sid, call, lease, direct>>

StartSession ==
  /\ at = "resolved" /\ at' = "starting"
  /\ sid' \in Sessions \ ({session[r] : r \in Threads} \cup {sid})
  /\ UNCHANGED <<allVars, call, error, lease, direct>>

\* DirectCoreLauncher.start, which may fail.
LaunchDirect ==
  /\ at = "direct" /\ at' = "idle"
  /\ \/ lease' = "direct" /\ direct' = TRUE
     \/ UNCHANGED <<lease, direct>>
  /\ UNCHANGED <<allVars, sid, call, error>>

StopLease ==
  /\ at = "idle" /\ lease = "helper" /\ at' = "stopping"
  /\ UNCHANGED <<allVars, sid, call, error, lease, direct>>

\* Mutant of Probe: a Helper that does not answer has taken its Core with it.
ProbeSkipped ==
  /\ at = "probing" /\ at' = "idle" /\ lease' = "none"
  /\ UNCHANGED <<allVars, sid, call, error, direct>>

\* With the Helper out of reach, the operating system knows whether the Core runs.
Probe ==
  /\ at = "probing" /\ at' = "idle"
  /\ lease' = IF \E p \in running : owner[p] = sid THEN lease ELSE "none"
  /\ UNCHANGED <<allVars, sid, call, error, direct>>

\* DirectCoreLease.stop kills the process and sees it exit, or not in time.
StopDirect ==
  /\ at = "idle" /\ lease = "direct"
  /\ lease' = "none" /\ direct' = FALSE
  /\ UNCHANGED <<allVars, at, sid, call, error>>

DirectExits == direct /\ direct' = FALSE /\ UNCHANGED <<allVars, at, sid, call, error, lease>>

App ==
  \/ Dial \/ Post \/ Answered \/ Unreachable \/ Deadline
  \/ Resolve \/ StartSession \/ LaunchDirect \/ StopLease \/ Probe \/ StopDirect

\* A server that is draining closes a connection without a request.
CloseIdle(r) == helper = "draining" /\ conn[r] = "open" /\ HangUp(r)

Helper ==
  /\ \/ Bind \/ AcceptError \/ RetryDelayOver
     \/ \E r \in Requests : Accept(r) \/ Respond(r) \/ CloseIdle(r)
     \/ FrontShutdown \/ FrontRelease \/ FrontEnd \/ Behind
  /\ UNCHANGED launchVars

LaunchNext == App \/ DirectExits \/ Helper

LaunchSpec == LaunchInit /\ [][LaunchNext]_<<allVars, launchVars>>

-----------------------------------------------------------------------------
(* Properties                                                               *)

\* A lease that is given up as stopped is a Core that has exited: whether the
\* Helper stopped it, no longer knows it, was restarted meanwhile or is gone, and
\* whatever earlier calls that were given up still do (HelperCoreLease._stop).
ConfirmedMeansExited ==
  [][lease = "helper" /\ lease' = "none" => \A p \in running' : owner[p] # sid]_<<allVars, launchVars>>

\* The app falls back to a Core of its own only if the session it asked the Helper
\* for has none; another one of the Helper's can run only for an earlier start that
\* was given up before its answer (_preSpawnHelperErrors).
FallbackIsAlone ==
  at = "direct" /\ error # "none" =>
    \A p \in running \cap confined :
      \E r \in Requests : /\ kind[r] = "start" /\ conn[r] = "gone"
                          /\ session[r] = owner[p] /\ session[r] # sid
==============================================================================
