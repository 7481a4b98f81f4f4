----------------------------- MODULE LatestIntent -----------------------------
(***************************************************************************)
(* What the desktop lifecycle promises to the callers of start(),          *)
(* restart(), stop() and close(), lib/core/desktop/lifecycle.dart: they    *)
(* are not a queue of jobs, the latest one wins, and all of them are       *)
(* answered with it or fail before it.  Nothing is said of transports,     *)
(* leases or launchers: those are DesktopLifecycle, which implements this. *)
(***************************************************************************)
EXTENDS Naturals

CONSTANTS Cores, MaxRevision

VARIABLES
  revision, target, outcome, \* the commands, numbered in the order they came
  live                       \* the Core processes that run

vars == <<revision, target, outcome, live>>

Targets == {"running", "restarted", "stopped", "closed"}
Starts  == {"running", "restarted"}

Unanswered == {r \in 1..MaxRevision : outcome[r] = "pending"}

Init ==
  /\ revision = 0
  /\ target = [r \in 0..MaxRevision |-> "stopped"]
  /\ outcome = [r \in 1..MaxRevision |-> "none"]
  /\ live = {}

\* close() is the last command.
Submit(t) ==
  /\ revision < MaxRevision /\ target[revision] # "closed"
  /\ revision' = revision + 1
  /\ target' = [target EXCEPT ![revision + 1] = t]
  /\ outcome' = [outcome EXCEPT ![revision + 1] = "pending"]
  /\ UNCHANGED live

\* A Core starts only for somebody who asked, and only when none runs.
CoreStarts(c) ==
  /\ live = {} /\ live' = {c}
  /\ \E r \in Unanswered : target[r] \in Starts
  /\ UNCHANGED <<revision, target, outcome>>

CoreEnds(c) ==
  /\ c \in live /\ live' = live \ {c}
  /\ UNCHANGED <<revision, target, outcome>>

\* The latest command is applied and takes the older ones along; if it is a
\* stop, no Core is left.
Apply ==
  /\ revision \in Unanswered
  /\ target[revision] = "stopped" => live = {}
  /\ outcome' = [r \in 1..MaxRevision |->
       CASE r \notin Unanswered -> outcome[r]
         [] r = revision -> "applied"
         [] r \in Unanswered /\ r # revision ->
              IF target[r] = target[revision] \/ {target[r], target[revision]} \subseteq Starts
              THEN "coalesced" ELSE "superseded"]
  /\ UNCHANGED <<revision, target, live>>

\* The commands up to r fail; the newer ones stay.
FailUpTo(r) ==
  /\ \E s \in Unanswered : s <= r
  /\ outcome' = [s \in 1..MaxRevision |->
       IF s \in Unanswered /\ s <= r THEN "failed" ELSE outcome[s]]
  /\ UNCHANGED <<revision, target, live>>

Next ==
  \/ \E t \in Targets : Submit(t)
  \/ \E c \in Cores : CoreStarts(c) \/ CoreEnds(c)
  \/ Apply
  \/ \E r \in 1..MaxRevision : FailUpTo(r)

Spec == Init /\ [][Next]_vars
=============================================================================
