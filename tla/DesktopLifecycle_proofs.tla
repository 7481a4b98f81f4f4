----------------------- MODULE DesktopLifecycle_proofs -----------------------
(* Type correctness and safety of DesktopLifecycle, for any number of        *)
(* commands and Cores.  LauncherLeaks is excluded where a theorem says so: a *)
(* launcher that loses a Core loses it for the lifecycle too.                *)
EXTENDS DesktopLifecycle, TLAPS

USE LifecycleAssumption

-----------------------------------------------------------------------------
\* The awaits of _startSession, and those among them that hold a lease.
LeasePcs == {"launching", "connecting", "releasing"}
StartPcs == {"prepare", "replaceToStart", "opening", "resolving"} \cup LeasePcs

\* The commands: closed is the last one, and while the worker serves an intent
\* that intent, and every newer one, is unanswered.
CommandInv ==
  /\ \A r \in 0..revision : target[r] = "closed" => r = revision
  /\ \A r \in 1..MaxRevision : r > revision <=> outcome[r] = "none"
  /\ SettledInOrder
  /\ pc \notin {"off", "loop"} => intent # 0 /\ outcome[intent] = "pending"

\* Where the worker is decides which of the four places may hold a Core.
OwnerInv ==
  /\ lease # NoCore <=> pc \in LeasePcs
  /\ unconfirmed # NoCore => session = NoCore /\ recovery = NoCore
  /\ session # NoCore => recovery = NoCore
  /\ recovery # NoCore => pc \in {"off", "loop"}
  /\ unconfirmed # NoCore => pc \in {"off", "loop", "stopUnconfirmed"}
  /\ pc = "stopUnconfirmed" => unconfirmed # NoCore
  /\ pc \in {"stopping", "awaitDisconnect"} <=> session # NoCore /\ pc \notin {"off", "loop", "settle"}
  /\ pc = "settle" /\ achieved = "idle" => session = NoCore
  /\ phase = "running" => session # NoCore /\ pc \in {"off", "loop", "settle"}

\* What the captured intent says of the worker.
IntentInv ==
  /\ pc \in StartPcs => target[intent] \in Starts
  /\ pc \in {"close", "closing"} => target[intent] = "closed"
  /\ allow /\ pc = "stopping" => TerminalRequested

\* Every running Core is held, unless a close gave it up on purpose; after
\* that nothing is started any more.
HeldInv ==
  /\ \/ Alive \subseteq {session, lease, unconfirmed, recovery}
     \/ TerminalRequested /\ (target[intent] = "closed" \/ pc \in {"settle", "loop", "off"})
  /\ pc = "awaitDisconnect" => session \notin Alive

LifecycleInv ==
  /\ TypeOK
  /\ CommandInv
  /\ OwnerInv
  /\ IntentInv
  /\ HeldInv
  /\ SingleCore

-----------------------------------------------------------------------------
LEMMA InitInv == Init => LifecycleInv
<1>. SUFFICES ASSUME Init PROVE LifecycleInv
  OBVIOUS
<1>1. disconnected \in BOOLEAN /\ allow \in BOOLEAN
  BY Zenon DEF Init
<1>2. TypeOK
  BY <1>1 DEF Init, TypeOK, CoreOrNone, Targets, Outcomes, Phases, Pcs, Achievements, TransportStates
<1>3. Alive = {}
  BY DEF Init, Alive
<1>4. CommandInv
  BY DEF Init, CommandInv, SettledInOrder
<1>5. OwnerInv
  BY DEF Init, OwnerInv, LeasePcs
<1>6. IntentInv /\ HeldInv /\ SingleCore
  BY <1>3 DEF Init, IntentInv, HeldInv, SingleCore, StartPcs, LeasePcs
<1>. QED
  BY <1>2, <1>4, <1>5, <1>6 DEF LifecycleInv

\* Every variable keeps its type.
LEMMA TypeStep ==
  ASSUME TypeOK, OwnerInv, [Next]_vars
  PROVE  TypeOK'
<1>. USE DEF TypeOK, OwnerInv, LeasePcs, CoreOrNone, Targets, Starts, Outcomes, Phases, Pcs, Achievements,
            TransportStates, Pending, Desired, WantsRunning, TerminalRequested, cmdVars, stateVars, workVars, linkVars
<1>1. ASSUME NEW t \in Targets, Submit(t)
      PROVE  TypeOK'
  BY <1>1 DEF Submit
<1>2. ASSUME Capture
      PROVE  TypeOK'
  <2>1. disconnected' \in BOOLEAN /\ allow' \in BOOLEAN
    BY <1>2, Zenon DEF Capture, Dispatch, Abandon, Achieve
  <2>. QED
    BY <1>2, <2>1 DEF Capture, Dispatch, Abandon, Achieve
<1>3. ASSUME Settle
      PROVE  TypeOK'
  BY <1>3 DEF Settle, CompleteCommands
<1>4. ASSUME NEW ok \in BOOLEAN, UnconfirmedStopReturns(ok)
      PROVE  TypeOK'
  <2>1. disconnected' \in BOOLEAN /\ allow' \in BOOLEAN
    BY <1>4, Zenon DEF UnconfirmedStopReturns, Dispatch, Abandon, Achieve, Fail, FailCommands
  <2>. QED
    BY <1>4, <2>1 DEF UnconfirmedStopReturns, Dispatch, Abandon, Achieve, Fail, FailCommands
<1>5. ASSUME NEW ok \in BOOLEAN, SessionStopReturns(ok)
      PROVE  TypeOK'
  <2>1. disconnected' \in BOOLEAN /\ allow' \in BOOLEAN
    BY <1>5, Zenon DEF SessionStopReturns, ClearSession, AfterStop, Abandon, Achieve, Fail, FailCommands
  <2>. QED
    BY <1>5, <2>1 DEF SessionStopReturns, ClearSession, AfterStop, Abandon, Achieve, Fail, FailCommands
<1>6. ASSUME DisconnectSeen
      PROVE  TypeOK'
  <2>1. disconnected' \in BOOLEAN /\ allow' \in BOOLEAN
    BY <1>6, Zenon DEF DisconnectSeen, ClearSession, AfterStop, Abandon, Achieve
  <2>. QED
    BY <1>6, <2>1 DEF DisconnectSeen, ClearSession, AfterStop, Abandon, Achieve
<1>7. ASSUME DisconnectMissed
      PROVE  TypeOK'
  <2>1. disconnected' \in BOOLEAN /\ allow' \in BOOLEAN
    BY <1>7, Zenon DEF DisconnectMissed, ClearSession, AfterStop, Abandon, Achieve, CloseTransport
  <2>. QED
    BY <1>7, <2>1 DEF DisconnectMissed, ClearSession, AfterStop, Abandon, Achieve, CloseTransport
<1>8. ASSUME NEW ok \in BOOLEAN, ReplaceAfterStopReturns(ok)
      PROVE  TypeOK'
  BY <1>8 DEF ReplaceAfterStopReturns, AfterStop, Abandon, Achieve, Fail, FailCommands
<1>9. ASSUME CloseBegins
      PROVE  TypeOK'
  BY <1>9 DEF CloseBegins, CloseTransport
<1>10. ASSUME NEW ok \in BOOLEAN, CloseReturns(ok)
      PROVE  TypeOK'
  BY <1>10 DEF CloseReturns, Achieve, Fail, FailCommands
<1>11. ASSUME Prepare
      PROVE  TypeOK'
  BY <1>11 DEF Prepare, CloseTransport
<1>12. ASSUME NEW ok \in BOOLEAN, ReplaceToStartReturns(ok)
      PROVE  TypeOK'
  BY <1>12 DEF ReplaceToStartReturns, Fail, FailCommands
<1>13. ASSUME Opened
      PROVE  TypeOK'
  BY <1>13 DEF Opened
<1>14. ASSUME OpenAbandoned
      PROVE  TypeOK'
  BY <1>14 DEF OpenAbandoned, Abandon, Achieve
<1>15. ASSUME OpenFails
      PROVE  TypeOK'
  BY <1>15 DEF OpenFails, Fail, FailCommands
<1>16. ASSUME Resolved
      PROVE  TypeOK'
  BY <1>16 DEF Resolved, Abandon, Achieve
<1>17. ASSUME LaunchReturns
      PROVE  TypeOK'
  BY <1>17 DEF LaunchReturns, Release
<1>18. ASSUME LaunchFails
      PROVE  TypeOK'
  BY <1>18 DEF LaunchFails, Fail, FailCommands
<1>19. ASSUME Connected
      PROVE  TypeOK'
  <2>1. disconnected' \in BOOLEAN /\ allow' \in BOOLEAN
    BY <1>19, Zenon DEF Connected, Release, Achieve
  <2>. QED
    BY <1>19, <2>1 DEF Connected, Release, Achieve
<1>20. ASSUME ConnectFails
      PROVE  TypeOK'
  BY <1>20 DEF ConnectFails, Release
<1>21. ASSUME ConnectAbandoned
      PROVE  TypeOK'
  BY <1>21 DEF ConnectAbandoned, Release
<1>22. ASSUME NEW ok \in BOOLEAN, ReleaseReturns(ok)
      PROVE  TypeOK'
  BY <1>22 DEF ReleaseReturns, Abandon, Achieve, Fail, FailCommands
<1>23. ASSUME Spawn
      PROVE  TypeOK'
  BY <1>23 DEF Spawn
<1>24. ASSUME NEW c \in Cores, CoreExits(c)
      PROVE  TypeOK'
  BY <1>24 DEF CoreExits
<1>25. ASSUME ServerReady
      PROVE  TypeOK'
  BY <1>25 DEF ServerReady
<1>26. ASSUME NEW c \in Cores, Links(c)
      PROVE  TypeOK'
  BY <1>26 DEF Links
<1>27. ASSUME NEW c \in Cores, Unlinks(c)
      PROVE  TypeOK'
  <2>1. disconnected' \in BOOLEAN /\ allow' \in BOOLEAN
    BY <1>27, Zenon DEF Unlinks, OnDisconnected, RecordDisconnect, Crash
  <2>. QED
    BY <1>27, <2>1 DEF Unlinks, OnDisconnected, RecordDisconnect, Crash
<1>28. ASSUME TransportFails
      PROVE  TypeOK'
  <2>1. disconnected' \in BOOLEAN /\ allow' \in BOOLEAN
    BY <1>28, Zenon DEF TransportFails, OnFailed, Crash
  <2>. QED
    BY <1>28, <2>1 DEF TransportFails, OnFailed, Crash
<1>29. ASSUME ServerDies
      PROVE  TypeOK'
  <2>1. disconnected' \in BOOLEAN /\ allow' \in BOOLEAN
    BY <1>29, Zenon DEF ServerDies, Crash, RecordDisconnect
  <2>. QED
    BY <1>29, <2>1 DEF ServerDies, Crash, RecordDisconnect
<1>30. ASSUME ConnectionTimeout
      PROVE  TypeOK'
  BY <1>30 DEF ConnectionTimeout
<1>31. ASSUME NEW ok \in BOOLEAN, RecoveryReturns(ok)
      PROVE  TypeOK'
  BY <1>31 DEF RecoveryReturns
<1>32. CASE UNCHANGED vars
  BY <1>32 DEF vars
<1>. QED
  BY <1>1, <1>2, <1>3, <1>4, <1>5, <1>6, <1>7, <1>8, <1>9, <1>10, <1>11, <1>12, <1>13, <1>14, <1>15, <1>16, <1>17, <1>18, <1>19, <1>20, <1>21, <1>22, <1>23, <1>24, <1>25, <1>26, <1>27, <1>28, <1>29, <1>30, <1>31, <1>32
     DEF Next, Environment, Microtask, AwaitReturns

\* Answers come in order, and to the served intent only when it ends.
LEMMA CommandStep ==
  ASSUME TypeOK, CommandInv, [Next]_vars
  PROVE  CommandInv'
<1>. USE DEF TypeOK, CommandInv, SettledInOrder, Outcomes, Pending, Desired, TerminalRequested, cmdVars, stateVars, workVars, linkVars
<1>1. ASSUME NEW t \in Targets, Submit(t)
      PROVE  CommandInv'
  BY <1>1 DEF Submit
<1>2. ASSUME Capture
      PROVE  CommandInv'
  BY <1>2 DEF Capture, Dispatch, Abandon, Achieve
<1>3. ASSUME Settle
      PROVE  CommandInv'
  BY <1>3 DEF Settle, CompleteCommands
<1>4. ASSUME NEW ok \in BOOLEAN, UnconfirmedStopReturns(ok)
      PROVE  CommandInv'
  BY <1>4 DEF UnconfirmedStopReturns, Dispatch, Abandon, Achieve, Fail, FailCommands
<1>5. ASSUME NEW ok \in BOOLEAN, SessionStopReturns(ok)
      PROVE  CommandInv'
  BY <1>5 DEF SessionStopReturns, ClearSession, AfterStop, Abandon, Achieve, Fail, FailCommands
<1>6. ASSUME DisconnectSeen
      PROVE  CommandInv'
  BY <1>6 DEF DisconnectSeen, ClearSession, AfterStop, Abandon, Achieve
<1>7. ASSUME DisconnectMissed
      PROVE  CommandInv'
  BY <1>7 DEF DisconnectMissed, ClearSession, AfterStop, Abandon, Achieve, CloseTransport
<1>8. ASSUME NEW ok \in BOOLEAN, ReplaceAfterStopReturns(ok)
      PROVE  CommandInv'
  BY <1>8 DEF ReplaceAfterStopReturns, AfterStop, Abandon, Achieve, Fail, FailCommands
<1>9. ASSUME CloseBegins
      PROVE  CommandInv'
  BY <1>9 DEF CloseBegins, CloseTransport
<1>10. ASSUME NEW ok \in BOOLEAN, CloseReturns(ok)
      PROVE  CommandInv'
  BY <1>10 DEF CloseReturns, Achieve, Fail, FailCommands
<1>11. ASSUME Prepare
      PROVE  CommandInv'
  BY <1>11 DEF Prepare, CloseTransport
<1>12. ASSUME NEW ok \in BOOLEAN, ReplaceToStartReturns(ok)
      PROVE  CommandInv'
  BY <1>12 DEF ReplaceToStartReturns, Fail, FailCommands
<1>13. ASSUME Opened
      PROVE  CommandInv'
  BY <1>13 DEF Opened
<1>14. ASSUME OpenAbandoned
      PROVE  CommandInv'
  BY <1>14 DEF OpenAbandoned, Abandon, Achieve
<1>15. ASSUME OpenFails
      PROVE  CommandInv'
  BY <1>15 DEF OpenFails, Fail, FailCommands
<1>16. ASSUME Resolved
      PROVE  CommandInv'
  BY <1>16 DEF Resolved, Abandon, Achieve
<1>17. ASSUME LaunchReturns
      PROVE  CommandInv'
  BY <1>17 DEF LaunchReturns, Release
<1>18. ASSUME LaunchFails
      PROVE  CommandInv'
  BY <1>18 DEF LaunchFails, Fail, FailCommands
<1>19. ASSUME Connected
      PROVE  CommandInv'
  BY <1>19 DEF Connected, Release, Achieve
<1>20. ASSUME ConnectFails
      PROVE  CommandInv'
  BY <1>20 DEF ConnectFails, Release
<1>21. ASSUME ConnectAbandoned
      PROVE  CommandInv'
  BY <1>21 DEF ConnectAbandoned, Release
<1>22. ASSUME NEW ok \in BOOLEAN, ReleaseReturns(ok)
      PROVE  CommandInv'
  BY <1>22 DEF ReleaseReturns, Abandon, Achieve, Fail, FailCommands
<1>23. ASSUME Spawn
      PROVE  CommandInv'
  BY <1>23 DEF Spawn
<1>24. ASSUME NEW c \in Cores, CoreExits(c)
      PROVE  CommandInv'
  BY <1>24 DEF CoreExits
<1>25. ASSUME ServerReady
      PROVE  CommandInv'
  BY <1>25 DEF ServerReady
<1>26. ASSUME NEW c \in Cores, Links(c)
      PROVE  CommandInv'
  BY <1>26 DEF Links
<1>27. ASSUME NEW c \in Cores, Unlinks(c)
      PROVE  CommandInv'
  BY <1>27 DEF Unlinks, OnDisconnected, RecordDisconnect, Crash
<1>28. ASSUME TransportFails
      PROVE  CommandInv'
  BY <1>28 DEF TransportFails, OnFailed, Crash
<1>29. ASSUME ServerDies
      PROVE  CommandInv'
  BY <1>29 DEF ServerDies, Crash, RecordDisconnect
<1>30. ASSUME ConnectionTimeout
      PROVE  CommandInv'
  BY <1>30 DEF ConnectionTimeout
<1>31. ASSUME NEW ok \in BOOLEAN, RecoveryReturns(ok)
      PROVE  CommandInv'
  BY <1>31 DEF RecoveryReturns
<1>32. CASE UNCHANGED vars
  BY <1>32 DEF vars
<1>. QED
  BY <1>1, <1>2, <1>3, <1>4, <1>5, <1>6, <1>7, <1>8, <1>9, <1>10, <1>11, <1>12, <1>13, <1>14, <1>15, <1>16, <1>17, <1>18, <1>19, <1>20, <1>21, <1>22, <1>23, <1>24, <1>25, <1>26, <1>27, <1>28, <1>29, <1>30, <1>31, <1>32
     DEF Next, Environment, Microtask, AwaitReturns

\* Each await has its place for a Core.
LEMMA OwnerStep ==
  ASSUME TypeOK, OwnerInv, [Next]_vars
  PROVE  OwnerInv'
<1>. USE DEF TypeOK, OwnerInv, CoreOrNone, LeasePcs, Pcs, cmdVars, stateVars, workVars, linkVars, Quiet, WorkerRuns
<1>1. ASSUME NEW t \in Targets, Submit(t)
      PROVE  OwnerInv'
  BY <1>1 DEF Submit
<1>2. ASSUME Capture
      PROVE  OwnerInv'
  BY <1>2 DEF Capture, Dispatch, Abandon, Achieve
<1>3. ASSUME Settle
      PROVE  OwnerInv'
  BY <1>3 DEF Settle, CompleteCommands
<1>4. ASSUME NEW ok \in BOOLEAN, UnconfirmedStopReturns(ok)
      PROVE  OwnerInv'
  BY <1>4 DEF UnconfirmedStopReturns, Dispatch, Abandon, Achieve, Fail, FailCommands
<1>5. ASSUME NEW ok \in BOOLEAN, SessionStopReturns(ok)
      PROVE  OwnerInv'
  BY <1>5 DEF SessionStopReturns, ClearSession, AfterStop, Abandon, Achieve, Fail, FailCommands
<1>6. ASSUME DisconnectSeen
      PROVE  OwnerInv'
  BY <1>6 DEF DisconnectSeen, ClearSession, AfterStop, Abandon, Achieve
<1>7. ASSUME DisconnectMissed
      PROVE  OwnerInv'
  BY <1>7 DEF DisconnectMissed, ClearSession, AfterStop, Abandon, Achieve, CloseTransport
<1>8. ASSUME NEW ok \in BOOLEAN, ReplaceAfterStopReturns(ok)
      PROVE  OwnerInv'
  BY <1>8 DEF ReplaceAfterStopReturns, AfterStop, Abandon, Achieve, Fail, FailCommands
<1>9. ASSUME CloseBegins
      PROVE  OwnerInv'
  BY <1>9 DEF CloseBegins, CloseTransport
<1>10. ASSUME NEW ok \in BOOLEAN, CloseReturns(ok)
      PROVE  OwnerInv'
  BY <1>10 DEF CloseReturns, Achieve, Fail, FailCommands
<1>11. ASSUME Prepare
      PROVE  OwnerInv'
  BY <1>11 DEF Prepare, CloseTransport
<1>12. ASSUME NEW ok \in BOOLEAN, ReplaceToStartReturns(ok)
      PROVE  OwnerInv'
  BY <1>12 DEF ReplaceToStartReturns, Fail, FailCommands
<1>13. ASSUME Opened
      PROVE  OwnerInv'
  BY <1>13 DEF Opened
<1>14. ASSUME OpenAbandoned
      PROVE  OwnerInv'
  BY <1>14 DEF OpenAbandoned, Abandon, Achieve
<1>15. ASSUME OpenFails
      PROVE  OwnerInv'
  BY <1>15 DEF OpenFails, Fail, FailCommands
<1>16. ASSUME Resolved
      PROVE  OwnerInv'
  BY <1>16 DEF Resolved, Abandon, Achieve
<1>17. ASSUME LaunchReturns
      PROVE  OwnerInv'
  BY <1>17 DEF LaunchReturns, Release
<1>18. ASSUME LaunchFails
      PROVE  OwnerInv'
  BY <1>18 DEF LaunchFails, Fail, FailCommands
<1>19. ASSUME Connected
      PROVE  OwnerInv'
  BY <1>19 DEF Connected, Release, Achieve
<1>20. ASSUME ConnectFails
      PROVE  OwnerInv'
  BY <1>20 DEF ConnectFails, Release
<1>21. ASSUME ConnectAbandoned
      PROVE  OwnerInv'
  BY <1>21 DEF ConnectAbandoned, Release
<1>22. ASSUME NEW ok \in BOOLEAN, ReleaseReturns(ok)
      PROVE  OwnerInv'
  BY <1>22 DEF ReleaseReturns, Abandon, Achieve, Fail, FailCommands
<1>23. ASSUME Spawn
      PROVE  OwnerInv'
  BY <1>23 DEF Spawn
<1>24. ASSUME NEW c \in Cores, CoreExits(c)
      PROVE  OwnerInv'
  BY <1>24 DEF CoreExits
<1>25. ASSUME ServerReady
      PROVE  OwnerInv'
  BY <1>25 DEF ServerReady
<1>26. ASSUME NEW c \in Cores, Links(c)
      PROVE  OwnerInv'
  BY <1>26 DEF Links
<1>27. ASSUME NEW c \in Cores, Unlinks(c)
      PROVE  OwnerInv'
  BY <1>27 DEF Unlinks, OnDisconnected, RecordDisconnect, Crash
<1>28. ASSUME TransportFails
      PROVE  OwnerInv'
  BY <1>28 DEF TransportFails, OnFailed, Crash
<1>29. ASSUME ServerDies
      PROVE  OwnerInv'
  BY <1>29 DEF ServerDies, Crash, RecordDisconnect
<1>30. ASSUME ConnectionTimeout
      PROVE  OwnerInv'
  BY <1>30 DEF ConnectionTimeout
<1>31. ASSUME NEW ok \in BOOLEAN, RecoveryReturns(ok)
      PROVE  OwnerInv'
  BY <1>31 DEF RecoveryReturns
<1>32. CASE UNCHANGED vars
  BY <1>32 DEF vars
<1>. QED
  BY <1>1, <1>2, <1>3, <1>4, <1>5, <1>6, <1>7, <1>8, <1>9, <1>10, <1>11, <1>12, <1>13, <1>14, <1>15, <1>16, <1>17, <1>18, <1>19, <1>20, <1>21, <1>22, <1>23, <1>24, <1>25, <1>26, <1>27, <1>28, <1>29, <1>30, <1>31, <1>32
     DEF Next, Environment, Microtask, AwaitReturns

\* Starting is for a start, closing for a close.
LEMMA IntentStep ==
  ASSUME TypeOK, CommandInv, OwnerInv, IntentInv, [Next]_vars
  PROVE  IntentInv'
<1>. USE DEF TypeOK, CommandInv, IntentInv, Pcs, StartPcs, LeasePcs, Starts, Targets, Desired, WantsRunning, TerminalRequested, cmdVars, stateVars, workVars, linkVars
<1>1. ASSUME NEW t \in Targets, Submit(t)
      PROVE  IntentInv'
  BY <1>1 DEF Submit
<1>2. ASSUME Capture
      PROVE  IntentInv'
  BY <1>2 DEF Capture, Dispatch, Abandon, Achieve
<1>3. ASSUME Settle
      PROVE  IntentInv'
  BY <1>3 DEF Settle, CompleteCommands
<1>4. ASSUME NEW ok \in BOOLEAN, UnconfirmedStopReturns(ok)
      PROVE  IntentInv'
  BY <1>4 DEF UnconfirmedStopReturns, Dispatch, Abandon, Achieve, Fail, FailCommands
<1>5. ASSUME NEW ok \in BOOLEAN, SessionStopReturns(ok)
      PROVE  IntentInv'
  BY <1>5 DEF SessionStopReturns, ClearSession, AfterStop, Abandon, Achieve, Fail, FailCommands
<1>6. ASSUME DisconnectSeen
      PROVE  IntentInv'
  BY <1>6 DEF DisconnectSeen, ClearSession, AfterStop, Abandon, Achieve
<1>7. ASSUME DisconnectMissed
      PROVE  IntentInv'
  BY <1>7 DEF DisconnectMissed, ClearSession, AfterStop, Abandon, Achieve, CloseTransport
<1>8. ASSUME NEW ok \in BOOLEAN, ReplaceAfterStopReturns(ok)
      PROVE  IntentInv'
  BY <1>8 DEF ReplaceAfterStopReturns, AfterStop, Abandon, Achieve, Fail, FailCommands
<1>9. ASSUME CloseBegins
      PROVE  IntentInv'
  BY <1>9 DEF CloseBegins, CloseTransport
<1>10. ASSUME NEW ok \in BOOLEAN, CloseReturns(ok)
      PROVE  IntentInv'
  BY <1>10 DEF CloseReturns, Achieve, Fail, FailCommands
<1>11. ASSUME Prepare
      PROVE  IntentInv'
  BY <1>11 DEF Prepare, CloseTransport
<1>12. ASSUME NEW ok \in BOOLEAN, ReplaceToStartReturns(ok)
      PROVE  IntentInv'
  BY <1>12 DEF ReplaceToStartReturns, Fail, FailCommands
<1>13. ASSUME Opened
      PROVE  IntentInv'
  BY <1>13 DEF Opened
<1>14. ASSUME OpenAbandoned
      PROVE  IntentInv'
  BY <1>14 DEF OpenAbandoned, Abandon, Achieve
<1>15. ASSUME OpenFails
      PROVE  IntentInv'
  BY <1>15 DEF OpenFails, Fail, FailCommands
<1>16. ASSUME Resolved
      PROVE  IntentInv'
  BY <1>16 DEF Resolved, Abandon, Achieve
<1>17. ASSUME LaunchReturns
      PROVE  IntentInv'
  BY <1>17 DEF LaunchReturns, Release
<1>18. ASSUME LaunchFails
      PROVE  IntentInv'
  BY <1>18 DEF LaunchFails, Fail, FailCommands
<1>19. ASSUME Connected
      PROVE  IntentInv'
  BY <1>19 DEF Connected, Release, Achieve
<1>20. ASSUME ConnectFails
      PROVE  IntentInv'
  BY <1>20 DEF ConnectFails, Release
<1>21. ASSUME ConnectAbandoned
      PROVE  IntentInv'
  BY <1>21 DEF ConnectAbandoned, Release
<1>22. ASSUME NEW ok \in BOOLEAN, ReleaseReturns(ok)
      PROVE  IntentInv'
  BY <1>22 DEF ReleaseReturns, Abandon, Achieve, Fail, FailCommands
<1>23. ASSUME Spawn
      PROVE  IntentInv'
  BY <1>23 DEF Spawn
<1>24. ASSUME NEW c \in Cores, CoreExits(c)
      PROVE  IntentInv'
  BY <1>24 DEF CoreExits
<1>25. ASSUME ServerReady
      PROVE  IntentInv'
  BY <1>25 DEF ServerReady
<1>26. ASSUME NEW c \in Cores, Links(c)
      PROVE  IntentInv'
  BY <1>26 DEF Links
<1>27. ASSUME NEW c \in Cores, Unlinks(c)
      PROVE  IntentInv'
  BY <1>27 DEF Unlinks, OnDisconnected, RecordDisconnect, Crash
<1>28. ASSUME TransportFails
      PROVE  IntentInv'
  BY <1>28 DEF TransportFails, OnFailed, Crash
<1>29. ASSUME ServerDies
      PROVE  IntentInv'
  BY <1>29 DEF ServerDies, Crash, RecordDisconnect
<1>30. ASSUME ConnectionTimeout
      PROVE  IntentInv'
  BY <1>30 DEF ConnectionTimeout
<1>31. ASSUME NEW ok \in BOOLEAN, RecoveryReturns(ok)
      PROVE  IntentInv'
  BY <1>31 DEF RecoveryReturns
<1>32. CASE UNCHANGED vars
  BY <1>32 DEF vars
<1>. QED
  BY <1>1, <1>2, <1>3, <1>4, <1>5, <1>6, <1>7, <1>8, <1>9, <1>10, <1>11, <1>12, <1>13, <1>14, <1>15, <1>16, <1>17, <1>18, <1>19, <1>20, <1>21, <1>22, <1>23, <1>24, <1>25, <1>26, <1>27, <1>28, <1>29, <1>30, <1>31, <1>32
     DEF Next, Environment, Microtask, AwaitReturns

\* The running Cores change only by Spawn and CoreExits.
LEMMA AliveStep ==
  ASSUME TypeOK, OwnerInv
  PROVE  /\ CloseTransport => Alive' = Alive
         /\ Spawn => Alive' = Alive \cup {lease} /\ lease \notin Alive
         /\ \A c \in Cores : CoreExits(c) => Alive' = Alive \ {c}
         /\ \A c \in Cores : Links(c) \/ Unlinks(c) => Alive' = Alive
         /\ ServerDies => Alive' = Alive
         /\ UNCHANGED core => Alive' = Alive
<1>. USE DEF TypeOK, Alive, CoreOrNone
<1>1. CloseTransport => Alive' = Alive
  BY DEF CloseTransport
<1>2. Spawn => Alive' = Alive \cup {lease} /\ lease \notin Alive
  BY DEF Spawn, OwnerInv, LeasePcs
<1>3. ASSUME NEW c \in Cores, CoreExits(c) PROVE Alive' = Alive \ {c}
  BY <1>3 DEF CoreExits
<1>4. ASSUME NEW c \in Cores, Links(c) PROVE Alive' = Alive
  BY <1>4 DEF Links
<1>5. ASSUME NEW c \in Cores, Unlinks(c) PROVE Alive' = Alive
  BY <1>5 DEF Unlinks
<1>6. ServerDies => Alive' = Alive
  BY DEF ServerDies
<1>7. UNCHANGED core => Alive' = Alive
  OBVIOUS
<1>. QED
  BY <1>1, <1>2, <1>3, <1>4, <1>5, <1>6, <1>7, Zenon

\* A place is emptied only when its Core has exited, except by a close.
LEMMA HeldStep ==
  ASSUME ~LauncherLeaks, TypeOK, CommandInv, OwnerInv, IntentInv, HeldInv, [Next]_vars
  PROVE  HeldInv'
<1>. USE AliveStep
<1>. USE DEF TypeOK, CommandInv, OwnerInv, IntentInv, HeldInv, StartPcs, LeasePcs, Pcs, Starts, Targets, CoreOrNone, Desired, WantsRunning,
            TerminalRequested, Quiet, WorkerRuns, cmdVars, stateVars, workVars, linkVars
<1>1. ASSUME NEW t \in Targets, Submit(t)
      PROVE  HeldInv'
  BY <1>1, AliveStep DEF Submit
<1>2. ASSUME Capture
      PROVE  HeldInv'
  BY <1>2, AliveStep DEF Capture, Dispatch, Abandon, Achieve
<1>3. ASSUME Settle
      PROVE  HeldInv'
  BY <1>3, AliveStep DEF Settle, CompleteCommands
<1>4. ASSUME NEW ok \in BOOLEAN, UnconfirmedStopReturns(ok)
      PROVE  HeldInv'
  BY <1>4, AliveStep DEF UnconfirmedStopReturns, Dispatch, Abandon, Achieve, Fail, FailCommands
<1>5. ASSUME NEW ok \in BOOLEAN, SessionStopReturns(ok)
      PROVE  HeldInv'
  BY <1>5, AliveStep DEF SessionStopReturns, ClearSession, AfterStop, Abandon, Achieve, Fail, FailCommands
<1>6. ASSUME DisconnectSeen
      PROVE  HeldInv'
  BY <1>6, AliveStep DEF DisconnectSeen, ClearSession, AfterStop, Abandon, Achieve
<1>7. ASSUME DisconnectMissed
      PROVE  HeldInv'
  BY <1>7, AliveStep DEF DisconnectMissed, ClearSession, AfterStop, Abandon, Achieve, CloseTransport
<1>8. ASSUME NEW ok \in BOOLEAN, ReplaceAfterStopReturns(ok)
      PROVE  HeldInv'
  BY <1>8, AliveStep DEF ReplaceAfterStopReturns, AfterStop, Abandon, Achieve, Fail, FailCommands
<1>9. ASSUME CloseBegins
      PROVE  HeldInv'
  BY <1>9, AliveStep DEF CloseBegins, CloseTransport
<1>10. ASSUME NEW ok \in BOOLEAN, CloseReturns(ok)
      PROVE  HeldInv'
  BY <1>10, AliveStep DEF CloseReturns, Achieve, Fail, FailCommands
<1>11. ASSUME Prepare
      PROVE  HeldInv'
  BY <1>11, AliveStep DEF Prepare, CloseTransport
<1>12. ASSUME NEW ok \in BOOLEAN, ReplaceToStartReturns(ok)
      PROVE  HeldInv'
  BY <1>12, AliveStep DEF ReplaceToStartReturns, Fail, FailCommands
<1>13. ASSUME Opened
      PROVE  HeldInv'
  BY <1>13, AliveStep DEF Opened
<1>14. ASSUME OpenAbandoned
      PROVE  HeldInv'
  BY <1>14, AliveStep DEF OpenAbandoned, Abandon, Achieve
<1>15. ASSUME OpenFails
      PROVE  HeldInv'
  BY <1>15, AliveStep DEF OpenFails, Fail, FailCommands
<1>16. ASSUME Resolved
      PROVE  HeldInv'
  BY <1>16, AliveStep DEF Resolved, Abandon, Achieve
<1>17. ASSUME LaunchReturns
      PROVE  HeldInv'
  BY <1>17, AliveStep DEF LaunchReturns, Release
<1>18. ASSUME LaunchFails
      PROVE  HeldInv'
  BY <1>18, AliveStep DEF LaunchFails, Fail, FailCommands
<1>19. ASSUME Connected
      PROVE  HeldInv'
  BY <1>19, AliveStep DEF Connected, Release, Achieve
<1>20. ASSUME ConnectFails
      PROVE  HeldInv'
  BY <1>20, AliveStep DEF ConnectFails, Release
<1>21. ASSUME ConnectAbandoned
      PROVE  HeldInv'
  BY <1>21, AliveStep DEF ConnectAbandoned, Release
<1>22. ASSUME NEW ok \in BOOLEAN, ReleaseReturns(ok)
      PROVE  HeldInv'
  BY <1>22, AliveStep DEF ReleaseReturns, Abandon, Achieve, Fail, FailCommands
<1>23. ASSUME Spawn
      PROVE  HeldInv'
  BY <1>23, AliveStep DEF Spawn
<1>24. ASSUME NEW c \in Cores, CoreExits(c)
      PROVE  HeldInv'
  BY <1>24, AliveStep DEF CoreExits
<1>25. ASSUME ServerReady
      PROVE  HeldInv'
  BY <1>25, AliveStep DEF ServerReady
<1>26. ASSUME NEW c \in Cores, Links(c)
      PROVE  HeldInv'
  BY <1>26, AliveStep DEF Links
<1>27. ASSUME NEW c \in Cores, Unlinks(c)
      PROVE  HeldInv'
  BY <1>27, AliveStep DEF Unlinks, OnDisconnected, RecordDisconnect, Crash
<1>28. ASSUME TransportFails
      PROVE  HeldInv'
  BY <1>28, AliveStep DEF TransportFails, OnFailed, Crash
<1>29. ASSUME ServerDies
      PROVE  HeldInv'
  BY <1>29, AliveStep DEF ServerDies, Crash, RecordDisconnect
<1>30. ASSUME ConnectionTimeout
      PROVE  HeldInv'
  BY <1>30, AliveStep DEF ConnectionTimeout
<1>31. ASSUME NEW ok \in BOOLEAN, RecoveryReturns(ok)
      PROVE  HeldInv'
  BY <1>31, AliveStep DEF RecoveryReturns
<1>32. CASE UNCHANGED vars
  BY <1>32 DEF vars
<1>. QED
  BY <1>1, <1>2, <1>3, <1>4, <1>5, <1>6, <1>7, <1>8, <1>9, <1>10, <1>11, <1>12, <1>13, <1>14, <1>15, <1>16, <1>17, <1>18, <1>19, <1>20, <1>21, <1>22, <1>23, <1>24, <1>25, <1>26, <1>27, <1>28, <1>29, <1>30, <1>31, <1>32
     DEF Next, Environment, Microtask, AwaitReturns

\* No Core runs when one is spawned.
LEMMA SingleStep ==
  ASSUME TypeOK, OwnerInv, IntentInv, HeldInv, SingleCore, [Next]_vars
  PROVE  SingleCore'
<1>1. CASE Alive' \subseteq Alive
  BY <1>1 DEF SingleCore
<1>2. CASE Spawn
  <2>1. Alive' = Alive \cup {lease} /\ lease \notin Alive
    BY <1>2, AliveStep
  <2>2. Alive \subseteq {session, lease, unconfirmed, recovery}
    BY <1>2 DEF Spawn, HeldInv, IntentInv, StartPcs, LeasePcs, Starts
  <2>3. session = NoCore /\ unconfirmed = NoCore /\ recovery = NoCore
    BY <1>2 DEF Spawn, OwnerInv, LeasePcs
  <2>4. NoCore \notin Alive
    BY DEF Alive
  <2>5. Alive = {}
    BY <2>1, <2>2, <2>3, <2>4
  <2>. QED
    BY <2>1, <2>5 DEF SingleCore
<1>3. Spawn \/ Alive' \subseteq Alive
  <2>. USE AliveStep
  <2>1. ASSUME NEW t \in Targets, Submit(t) PROVE Alive' \subseteq Alive
    BY <2>1 DEF Submit, linkVars
  <2>2. ASSUME Capture PROVE Alive' \subseteq Alive
    BY <2>2 DEF Capture, linkVars
  <2>3. ASSUME Settle PROVE Alive' \subseteq Alive
    BY <2>3 DEF Settle, linkVars
  <2>4. ASSUME NEW ok \in BOOLEAN, UnconfirmedStopReturns(ok) PROVE Alive' \subseteq Alive
    BY <2>4 DEF UnconfirmedStopReturns, linkVars
  <2>5. ASSUME NEW ok \in BOOLEAN, SessionStopReturns(ok) PROVE Alive' \subseteq Alive
    BY <2>5 DEF SessionStopReturns, linkVars
  <2>6. ASSUME DisconnectSeen PROVE Alive' \subseteq Alive
    BY <2>6 DEF DisconnectSeen, linkVars
  <2>7. ASSUME DisconnectMissed PROVE Alive' \subseteq Alive
    BY <2>7 DEF DisconnectMissed, linkVars
  <2>8. ASSUME NEW ok \in BOOLEAN, ReplaceAfterStopReturns(ok) PROVE Alive' \subseteq Alive
    BY <2>8 DEF ReplaceAfterStopReturns, linkVars
  <2>9. ASSUME CloseBegins PROVE Alive' \subseteq Alive
    BY <2>9 DEF CloseBegins, linkVars
  <2>10. ASSUME NEW ok \in BOOLEAN, CloseReturns(ok) PROVE Alive' \subseteq Alive
    BY <2>10 DEF CloseReturns, linkVars
  <2>11. ASSUME Prepare PROVE Alive' \subseteq Alive
    BY <2>11 DEF Prepare, linkVars
  <2>12. ASSUME NEW ok \in BOOLEAN, ReplaceToStartReturns(ok) PROVE Alive' \subseteq Alive
    BY <2>12 DEF ReplaceToStartReturns, linkVars
  <2>13. ASSUME Opened PROVE Alive' \subseteq Alive
    BY <2>13 DEF Opened, linkVars
  <2>14. ASSUME OpenAbandoned PROVE Alive' \subseteq Alive
    BY <2>14 DEF OpenAbandoned, linkVars
  <2>15. ASSUME OpenFails PROVE Alive' \subseteq Alive
    BY <2>15 DEF OpenFails, linkVars
  <2>16. ASSUME Resolved PROVE Alive' \subseteq Alive
    BY <2>16 DEF Resolved, linkVars
  <2>17. ASSUME LaunchReturns PROVE Alive' \subseteq Alive
    BY <2>17 DEF LaunchReturns, linkVars
  <2>18. ASSUME LaunchFails PROVE Alive' \subseteq Alive
    BY <2>18 DEF LaunchFails, linkVars
  <2>19. ASSUME Connected PROVE Alive' \subseteq Alive
    BY <2>19 DEF Connected, linkVars
  <2>20. ASSUME ConnectFails PROVE Alive' \subseteq Alive
    BY <2>20 DEF ConnectFails, linkVars
  <2>21. ASSUME ConnectAbandoned PROVE Alive' \subseteq Alive
    BY <2>21 DEF ConnectAbandoned, linkVars
  <2>22. ASSUME NEW ok \in BOOLEAN, ReleaseReturns(ok) PROVE Alive' \subseteq Alive
    BY <2>22 DEF ReleaseReturns, linkVars
  <2>23. ASSUME NEW c \in Cores, CoreExits(c) PROVE Alive' \subseteq Alive
    BY <2>23 DEF CoreExits, linkVars
  <2>24. ASSUME ServerReady PROVE Alive' \subseteq Alive
    BY <2>24 DEF ServerReady, linkVars
  <2>25. ASSUME NEW c \in Cores, Links(c) PROVE Alive' \subseteq Alive
    BY <2>25 DEF Links, linkVars
  <2>26. ASSUME NEW c \in Cores, Unlinks(c) PROVE Alive' \subseteq Alive
    BY <2>26 DEF Unlinks, linkVars
  <2>27. ASSUME TransportFails PROVE Alive' \subseteq Alive
    BY <2>27 DEF TransportFails, linkVars
  <2>28. ASSUME ServerDies PROVE Alive' \subseteq Alive
    BY <2>28 DEF ServerDies, linkVars
  <2>29. ASSUME ConnectionTimeout PROVE Alive' \subseteq Alive
    BY <2>29 DEF ConnectionTimeout, linkVars
  <2>30. ASSUME NEW ok \in BOOLEAN, RecoveryReturns(ok) PROVE Alive' \subseteq Alive
    BY <2>30 DEF RecoveryReturns, linkVars
  <2>31. CASE UNCHANGED vars
    BY <2>31 DEF vars, linkVars
  <2>. QED
    BY <2>1, <2>2, <2>3, <2>4, <2>5, <2>6, <2>7, <2>8, <2>9, <2>10, <2>11, <2>12, <2>13, <2>14, <2>15, <2>16, <2>17, <2>18, <2>19, <2>20, <2>21, <2>22, <2>23, <2>24, <2>25, <2>26, <2>27, <2>28, <2>29, <2>30, <2>31 DEF Next, Environment, Microtask, AwaitReturns
<1>. QED
  BY <1>1, <1>2, <1>3

BaseInv == TypeOK /\ CommandInv /\ OwnerInv /\ IntentInv

\* The parts that hold whatever launchers do.
THEOREM BaseInductive == Spec => []BaseInv
<1>1. Init => BaseInv
  BY InitInv DEF LifecycleInv, BaseInv
<1>2. BaseInv /\ [Next]_vars => BaseInv'
  BY TypeStep, CommandStep, OwnerStep, IntentStep DEF BaseInv
<1>. QED
  BY <1>1, <1>2, PTL DEF Spec

\* With launchers that keep their contract, all of LifecycleInv is inductive.
THEOREM Inductive ==
  ASSUME ~LauncherLeaks
  PROVE  Spec => []LifecycleInv
<1>1. LifecycleInv /\ [Next]_vars => LifecycleInv'
  BY TypeStep, CommandStep, OwnerStep, IntentStep, HeldStep, SingleStep DEF LifecycleInv
<1>. QED
  BY <1>1, InitInv, PTL DEF Spec

-----------------------------------------------------------------------------
\* Every variable keeps its type.
THEOREM TypeCorrect == Spec => []TypeOK
<1>1. BaseInv => TypeOK
  BY DEF BaseInv
<1>. QED
  BY <1>1, BaseInductive, PTL

\* Commands are answered in the order they came, with any launcher.
THEOREM AnswersInOrder == Spec => []SettledInOrder
<1>1. BaseInv => SettledInOrder
  BY DEF BaseInv, CommandInv
<1>. QED
  BY <1>1, BaseInductive, PTL

\* At most one Core runs, if launchers do not leak.
THEOREM OneCore ==
  ASSUME ~LauncherLeaks
  PROVE  Spec => []SingleCore
<1>1. LifecycleInv => SingleCore
  BY DEF LifecycleInv
<1>. QED
  BY <1>1, Inductive, PTL

\* Until close() is asked for, every running Core is held somewhere, if launchers do
\* not leak.
THEOREM NoneForgotten ==
  ASSUME ~LauncherLeaks
  PROVE  Spec => []NoCoreForgotten
<1>1. LifecycleInv => NoCoreForgotten
  BY DEF LifecycleInv, HeldInv, NoCoreForgotten
<1>. QED
  BY <1>1, Inductive, PTL

-----------------------------------------------------------------------------
\* What a step does to the answers: nothing, an answer to everybody for an
\* achievement, or a failure of the commands up to the served intent.
LEMMA AnswerCases ==
  ASSUME BaseInv, [Next]_vars
  PROVE  \/ UNCHANGED outcome
         \/ \E t \in Targets : Submit(t)
         \/ Settle /\ Satisfies(achieved, Desired) /\ CompleteCommands
         \/ pc \notin {"off", "loop", "settle"} /\ FailCommands(intent)
<1>. DEFINE Goal == \/ UNCHANGED outcome
                    \/ \E t \in Targets : Submit(t)
                    \/ Settle /\ Satisfies(achieved, Desired) /\ CompleteCommands
                    \/ pc \notin {"off", "loop", "settle"} /\ FailCommands(intent)
<1>1. ASSUME NEW t \in Targets, Submit(t) PROVE Goal
  BY <1>1
<1>2. ASSUME Capture PROVE Goal
  BY <1>2 DEF Capture, cmdVars
<1>3. ASSUME Settle PROVE Goal
  BY <1>3 DEF Settle, cmdVars
<1>4. ASSUME NEW ok \in BOOLEAN, UnconfirmedStopReturns(ok) PROVE Goal
  BY <1>4 DEF UnconfirmedStopReturns, Fail, cmdVars
<1>5. ASSUME NEW ok \in BOOLEAN, SessionStopReturns(ok) PROVE Goal
  BY <1>5 DEF SessionStopReturns, Fail, cmdVars
<1>6. ASSUME DisconnectSeen PROVE Goal
  BY <1>6 DEF DisconnectSeen, cmdVars
<1>7. ASSUME DisconnectMissed PROVE Goal
  BY <1>7 DEF DisconnectMissed, cmdVars
<1>8. ASSUME NEW ok \in BOOLEAN, ReplaceAfterStopReturns(ok) PROVE Goal
  BY <1>8 DEF ReplaceAfterStopReturns, Fail, cmdVars
<1>9. ASSUME CloseBegins PROVE Goal
  BY <1>9 DEF CloseBegins, cmdVars
<1>10. ASSUME NEW ok \in BOOLEAN, CloseReturns(ok) PROVE Goal
  BY <1>10 DEF CloseReturns, Fail, cmdVars
<1>11. ASSUME Prepare PROVE Goal
  BY <1>11 DEF Prepare, cmdVars
<1>12. ASSUME NEW ok \in BOOLEAN, ReplaceToStartReturns(ok) PROVE Goal
  BY <1>12 DEF ReplaceToStartReturns, Fail, cmdVars
<1>13. ASSUME Opened PROVE Goal
  BY <1>13 DEF Opened, cmdVars
<1>14. ASSUME OpenAbandoned PROVE Goal
  BY <1>14 DEF OpenAbandoned, cmdVars
<1>15. ASSUME OpenFails PROVE Goal
  BY <1>15 DEF OpenFails, Fail, cmdVars
<1>16. ASSUME Resolved PROVE Goal
  BY <1>16 DEF Resolved, cmdVars
<1>17. ASSUME LaunchReturns PROVE Goal
  BY <1>17 DEF LaunchReturns, cmdVars
<1>18. ASSUME LaunchFails PROVE Goal
  BY <1>18 DEF LaunchFails, Fail, cmdVars
<1>19. ASSUME Connected PROVE Goal
  BY <1>19 DEF Connected, cmdVars
<1>20. ASSUME ConnectFails PROVE Goal
  BY <1>20 DEF ConnectFails, cmdVars
<1>21. ASSUME ConnectAbandoned PROVE Goal
  BY <1>21 DEF ConnectAbandoned, cmdVars
<1>22. ASSUME NEW ok \in BOOLEAN, ReleaseReturns(ok) PROVE Goal
  BY <1>22 DEF ReleaseReturns, Fail, cmdVars
<1>23. ASSUME Spawn PROVE Goal
  BY <1>23 DEF Spawn, cmdVars
<1>24. ASSUME NEW c \in Cores, CoreExits(c) PROVE Goal
  BY <1>24 DEF CoreExits, cmdVars
<1>25. ASSUME ServerReady PROVE Goal
  BY <1>25 DEF ServerReady, cmdVars
<1>26. ASSUME NEW c \in Cores, Links(c) PROVE Goal
  BY <1>26 DEF Links, cmdVars
<1>27. ASSUME NEW c \in Cores, Unlinks(c) PROVE Goal
  BY <1>27 DEF Unlinks, cmdVars
<1>28. ASSUME TransportFails PROVE Goal
  BY <1>28 DEF TransportFails, Fail, cmdVars
<1>29. ASSUME ServerDies PROVE Goal
  BY <1>29 DEF ServerDies, cmdVars
<1>30. ASSUME ConnectionTimeout PROVE Goal
  BY <1>30 DEF ConnectionTimeout, cmdVars
<1>31. ASSUME NEW ok \in BOOLEAN, RecoveryReturns(ok) PROVE Goal
  BY <1>31 DEF RecoveryReturns, cmdVars
<1>32. CASE UNCHANGED vars
  BY <1>32 DEF vars, cmdVars
<1>. QED
  BY <1>1, <1>2, <1>3, <1>4, <1>5, <1>6, <1>7, <1>8, <1>9, <1>10, <1>11, <1>12, <1>13, <1>14, <1>15, <1>16, <1>17, <1>18, <1>19, <1>20, <1>21, <1>22, <1>23, <1>24, <1>25, <1>26, <1>27, <1>28, <1>29, <1>30, <1>31, <1>32 DEF Next, Environment, Microtask, AwaitReturns

\* An error never takes a newer command down.
THEOREM NewerSurvives == Spec => NewerCommandSurvives
<1>. DEFINE Spared == \A r \in 1..MaxRevision :
              outcome[r] = "pending" /\ outcome'[r] = "failed" => r <= intent
<1>1. BaseInv /\ [Next]_vars => Spared
  <2>. SUFFICES ASSUME BaseInv, [Next]_vars, NEW r \in 1..MaxRevision,
                       outcome[r] = "pending", outcome'[r] = "failed"
                PROVE  r <= intent
    OBVIOUS
  <2>1. CASE UNCHANGED outcome
    BY <2>1
  <2>2. ASSUME NEW t \in Targets, Submit(t) PROVE FALSE
    BY <2>2 DEF Submit, BaseInv, TypeOK
  <2>3. CASE CompleteCommands
    BY <2>3 DEF CompleteCommands, Pending
  <2>4. CASE FailCommands(intent)
    BY <2>4 DEF FailCommands, Pending
  <2>. QED
    BY <2>1, <2>2, <2>3, <2>4, AnswerCases
<1>2. BaseInv /\ [Next]_vars => [Spared]_vars
  BY <1>1
<1>. QED
  BY <1>2, BaseInductive, PTL DEF Spec, NewerCommandSurvives

\* A stop that is answered "applied" leaves neither a Core nor a session, if launchers
\* do not leak.
THEOREM StopLeavesNoCore ==
  ASSUME ~LauncherLeaks
  PROVE  Spec => StopMeansNoCore
<1>. DEFINE Stopped == \A r \in 1..MaxRevision :
              outcome[r] # "applied" /\ outcome'[r] = "applied" /\ target[r] = "stopped"
                => Alive = {} /\ session = NoCore
<1>1. LifecycleInv /\ [Next]_vars => Stopped
  <2>. SUFFICES ASSUME LifecycleInv, [Next]_vars, NEW r \in 1..MaxRevision,
                       outcome[r] # "applied", outcome'[r] = "applied", target[r] = "stopped"
                PROVE  Alive = {} /\ session = NoCore
    OBVIOUS
  <2>. USE DEF LifecycleInv
  <2>0. BaseInv
    BY DEF BaseInv
  <2>1. CASE UNCHANGED outcome
    BY <2>1
  <2>2. ASSUME NEW t \in Targets, Submit(t) PROVE FALSE
    BY <2>2 DEF Submit, TypeOK
  <2>3. CASE Settle /\ Satisfies(achieved, Desired) /\ CompleteCommands
    <3>1. r = revision /\ pc = "settle"
      BY <2>3 DEF CompleteCommands, Settle
    <3>2. Desired = "stopped" /\ achieved = "idle"
      BY <2>3, <3>1 DEF Satisfies, Desired
    <3>3. session = NoCore /\ lease = NoCore /\ unconfirmed = NoCore /\ recovery = NoCore
      BY <3>1, <3>2 DEF OwnerInv, LeasePcs
    <3>4. Alive \subseteq {NoCore}
      BY <3>2, <3>3 DEF HeldInv, TerminalRequested
    <3>5. NoCore \notin Alive
      BY DEF Alive
    <3>. QED
      BY <3>3, <3>4, <3>5
  <2>4. CASE FailCommands(intent)
    BY <2>4 DEF FailCommands, Pending
  <2>. QED
    BY <2>0, <2>1, <2>2, <2>3, <2>4, AnswerCases
<1>2. LifecycleInv /\ [Next]_vars => [Stopped]_vars
  BY <1>1
<1>. QED
  BY <1>2, Inductive, PTL DEF Spec, StopMeansNoCore

-----------------------------------------------------------------------------
\* The peer is recorded while the waiter watches, and only then.
PeerInv ==
  /\ waiter # "off" => pc \in {"launching", "connecting"}
  /\ VerifyPeerPid /\ phase = "running" => peer = session

\* The connection the waiter saw is still up.
LinkInv ==
  /\ waiter = "connected" => conn = peer /\ conn # NoCore
  /\ phase = "running" => conn = peer /\ conn # NoCore

\* Only a checked connection is published.
LEMMA PeerStep ==
  ASSUME TypeOK, OwnerInv, PeerInv, [Next]_vars
  PROVE  PeerInv'
<1>. USE DEF TypeOK, OwnerInv, PeerInv, CoreOrNone, LeasePcs, Pcs, cmdVars, stateVars, workVars, linkVars
<1>1. ASSUME NEW t \in Targets, Submit(t)
      PROVE  PeerInv'
  BY <1>1 DEF Submit
<1>2. ASSUME Capture
      PROVE  PeerInv'
  BY <1>2 DEF Capture, Dispatch, Abandon, Achieve
<1>3. ASSUME Settle
      PROVE  PeerInv'
  BY <1>3 DEF Settle, CompleteCommands
<1>4. ASSUME NEW ok \in BOOLEAN, UnconfirmedStopReturns(ok)
      PROVE  PeerInv'
  BY <1>4 DEF UnconfirmedStopReturns, Dispatch, Abandon, Achieve, Fail, FailCommands
<1>5. ASSUME NEW ok \in BOOLEAN, SessionStopReturns(ok)
      PROVE  PeerInv'
  BY <1>5 DEF SessionStopReturns, ClearSession, AfterStop, Abandon, Achieve, Fail, FailCommands
<1>6. ASSUME DisconnectSeen
      PROVE  PeerInv'
  BY <1>6 DEF DisconnectSeen, ClearSession, AfterStop, Abandon, Achieve
<1>7. ASSUME DisconnectMissed
      PROVE  PeerInv'
  BY <1>7 DEF DisconnectMissed, ClearSession, AfterStop, Abandon, Achieve, CloseTransport
<1>8. ASSUME NEW ok \in BOOLEAN, ReplaceAfterStopReturns(ok)
      PROVE  PeerInv'
  BY <1>8 DEF ReplaceAfterStopReturns, AfterStop, Abandon, Achieve, Fail, FailCommands
<1>9. ASSUME CloseBegins
      PROVE  PeerInv'
  BY <1>9 DEF CloseBegins, CloseTransport
<1>10. ASSUME NEW ok \in BOOLEAN, CloseReturns(ok)
      PROVE  PeerInv'
  BY <1>10 DEF CloseReturns, Achieve, Fail, FailCommands
<1>11. ASSUME Prepare
      PROVE  PeerInv'
  BY <1>11 DEF Prepare, CloseTransport
<1>12. ASSUME NEW ok \in BOOLEAN, ReplaceToStartReturns(ok)
      PROVE  PeerInv'
  BY <1>12 DEF ReplaceToStartReturns, Fail, FailCommands
<1>13. ASSUME Opened
      PROVE  PeerInv'
  BY <1>13 DEF Opened
<1>14. ASSUME OpenAbandoned
      PROVE  PeerInv'
  BY <1>14 DEF OpenAbandoned, Abandon, Achieve
<1>15. ASSUME OpenFails
      PROVE  PeerInv'
  BY <1>15 DEF OpenFails, Fail, FailCommands
<1>16. ASSUME Resolved
      PROVE  PeerInv'
  BY <1>16 DEF Resolved, Abandon, Achieve
<1>17. ASSUME LaunchReturns
      PROVE  PeerInv'
  BY <1>17 DEF LaunchReturns, Release
<1>18. ASSUME LaunchFails
      PROVE  PeerInv'
  BY <1>18 DEF LaunchFails, Fail, FailCommands
<1>19. ASSUME Connected
      PROVE  PeerInv'
  BY <1>19 DEF Connected, Release, Achieve
<1>20. ASSUME ConnectFails
      PROVE  PeerInv'
  BY <1>20 DEF ConnectFails, Release
<1>21. ASSUME ConnectAbandoned
      PROVE  PeerInv'
  BY <1>21 DEF ConnectAbandoned, Release
<1>22. ASSUME NEW ok \in BOOLEAN, ReleaseReturns(ok)
      PROVE  PeerInv'
  BY <1>22 DEF ReleaseReturns, Abandon, Achieve, Fail, FailCommands
<1>23. ASSUME Spawn
      PROVE  PeerInv'
  BY <1>23 DEF Spawn
<1>24. ASSUME NEW c \in Cores, CoreExits(c)
      PROVE  PeerInv'
  BY <1>24 DEF CoreExits
<1>25. ASSUME ServerReady
      PROVE  PeerInv'
  BY <1>25 DEF ServerReady
<1>26. ASSUME NEW c \in Cores, Links(c)
      PROVE  PeerInv'
  BY <1>26 DEF Links
<1>27. ASSUME NEW c \in Cores, Unlinks(c)
      PROVE  PeerInv'
  BY <1>27 DEF Unlinks, OnDisconnected, RecordDisconnect, Crash
<1>28. ASSUME TransportFails
      PROVE  PeerInv'
  BY <1>28 DEF TransportFails, OnFailed, Crash
<1>29. ASSUME ServerDies
      PROVE  PeerInv'
  BY <1>29 DEF ServerDies, Crash, RecordDisconnect
<1>30. ASSUME ConnectionTimeout
      PROVE  PeerInv'
  BY <1>30 DEF ConnectionTimeout
<1>31. ASSUME NEW ok \in BOOLEAN, RecoveryReturns(ok)
      PROVE  PeerInv'
  BY <1>31 DEF RecoveryReturns
<1>32. CASE UNCHANGED vars
  BY <1>32 DEF vars
<1>. QED
  BY <1>1, <1>2, <1>3, <1>4, <1>5, <1>6, <1>7, <1>8, <1>9, <1>10, <1>11, <1>12, <1>13, <1>14, <1>15, <1>16, <1>17, <1>18, <1>19, <1>20, <1>21, <1>22, <1>23, <1>24, <1>25, <1>26, <1>27, <1>28, <1>29, <1>30, <1>31, <1>32
     DEF Next, Environment, Microtask, AwaitReturns

\* A link that goes down takes the running phase with it.
LEMMA LinkStep ==
  ASSUME ~LossWhileLaunching, TypeOK, OwnerInv, PeerInv, LinkInv, [Next]_vars
  PROVE  LinkInv'
<1>. USE DEF TypeOK, OwnerInv, PeerInv, LinkInv, CoreOrNone, LeasePcs, Pcs, cmdVars, stateVars, workVars, linkVars, Quiet, WorkerRuns
<1>1. ASSUME NEW t \in Targets, Submit(t)
      PROVE  LinkInv'
  BY <1>1 DEF Submit
<1>2. ASSUME Capture
      PROVE  LinkInv'
  BY <1>2 DEF Capture, Dispatch, Abandon, Achieve
<1>3. ASSUME Settle
      PROVE  LinkInv'
  BY <1>3 DEF Settle, CompleteCommands
<1>4. ASSUME NEW ok \in BOOLEAN, UnconfirmedStopReturns(ok)
      PROVE  LinkInv'
  BY <1>4 DEF UnconfirmedStopReturns, Dispatch, Abandon, Achieve, Fail, FailCommands
<1>5. ASSUME NEW ok \in BOOLEAN, SessionStopReturns(ok)
      PROVE  LinkInv'
  BY <1>5 DEF SessionStopReturns, ClearSession, AfterStop, Abandon, Achieve, Fail, FailCommands
<1>6. ASSUME DisconnectSeen
      PROVE  LinkInv'
  BY <1>6 DEF DisconnectSeen, ClearSession, AfterStop, Abandon, Achieve
<1>7. ASSUME DisconnectMissed
      PROVE  LinkInv'
  BY <1>7 DEF DisconnectMissed, ClearSession, AfterStop, Abandon, Achieve, CloseTransport
<1>8. ASSUME NEW ok \in BOOLEAN, ReplaceAfterStopReturns(ok)
      PROVE  LinkInv'
  BY <1>8 DEF ReplaceAfterStopReturns, AfterStop, Abandon, Achieve, Fail, FailCommands
<1>9. ASSUME CloseBegins
      PROVE  LinkInv'
  BY <1>9 DEF CloseBegins, CloseTransport
<1>10. ASSUME NEW ok \in BOOLEAN, CloseReturns(ok)
      PROVE  LinkInv'
  BY <1>10 DEF CloseReturns, Achieve, Fail, FailCommands
<1>11. ASSUME Prepare
      PROVE  LinkInv'
  BY <1>11 DEF Prepare, CloseTransport
<1>12. ASSUME NEW ok \in BOOLEAN, ReplaceToStartReturns(ok)
      PROVE  LinkInv'
  BY <1>12 DEF ReplaceToStartReturns, Fail, FailCommands
<1>13. ASSUME Opened
      PROVE  LinkInv'
  BY <1>13 DEF Opened
<1>14. ASSUME OpenAbandoned
      PROVE  LinkInv'
  BY <1>14 DEF OpenAbandoned, Abandon, Achieve
<1>15. ASSUME OpenFails
      PROVE  LinkInv'
  BY <1>15 DEF OpenFails, Fail, FailCommands
<1>16. ASSUME Resolved
      PROVE  LinkInv'
  BY <1>16 DEF Resolved, Abandon, Achieve
<1>17. ASSUME LaunchReturns
      PROVE  LinkInv'
  BY <1>17 DEF LaunchReturns, Release
<1>18. ASSUME LaunchFails
      PROVE  LinkInv'
  BY <1>18 DEF LaunchFails, Fail, FailCommands
<1>19. ASSUME Connected
      PROVE  LinkInv'
  BY <1>19 DEF Connected, Release, Achieve
<1>20. ASSUME ConnectFails
      PROVE  LinkInv'
  BY <1>20 DEF ConnectFails, Release
<1>21. ASSUME ConnectAbandoned
      PROVE  LinkInv'
  BY <1>21 DEF ConnectAbandoned, Release
<1>22. ASSUME NEW ok \in BOOLEAN, ReleaseReturns(ok)
      PROVE  LinkInv'
  BY <1>22 DEF ReleaseReturns, Abandon, Achieve, Fail, FailCommands
<1>23. ASSUME Spawn
      PROVE  LinkInv'
  BY <1>23 DEF Spawn
<1>24. ASSUME NEW c \in Cores, CoreExits(c)
      PROVE  LinkInv'
  BY <1>24 DEF CoreExits
<1>25. ASSUME ServerReady
      PROVE  LinkInv'
  BY <1>25 DEF ServerReady
<1>26. ASSUME NEW c \in Cores, Links(c)
      PROVE  LinkInv'
  BY <1>26 DEF Links
<1>27. ASSUME NEW c \in Cores, Unlinks(c)
      PROVE  LinkInv'
  BY <1>27 DEF Unlinks, OnDisconnected, RecordDisconnect, Crash
<1>28. ASSUME TransportFails
      PROVE  LinkInv'
  BY <1>28 DEF TransportFails, OnFailed, Crash
<1>29. ASSUME ServerDies
      PROVE  LinkInv'
  BY <1>29 DEF ServerDies, Crash, RecordDisconnect
<1>30. ASSUME ConnectionTimeout
      PROVE  LinkInv'
  BY <1>30 DEF ConnectionTimeout
<1>31. ASSUME NEW ok \in BOOLEAN, RecoveryReturns(ok)
      PROVE  LinkInv'
  BY <1>31 DEF RecoveryReturns
<1>32. CASE UNCHANGED vars
  BY <1>32 DEF vars
<1>. QED
  BY <1>1, <1>2, <1>3, <1>4, <1>5, <1>6, <1>7, <1>8, <1>9, <1>10, <1>11, <1>12, <1>13, <1>14, <1>15, <1>16, <1>17, <1>18, <1>19, <1>20, <1>21, <1>22, <1>23, <1>24, <1>25, <1>26, <1>27, <1>28, <1>29, <1>30, <1>31, <1>32
     DEF Next, Environment, Microtask, AwaitReturns

\* On Windows a session only ever talks to its own Core, whatever Cores a
\* launcher left behind.
THEOREM PeerIsVerified ==
  ASSUME VerifyPeerPid
  PROVE  Spec => []PeerIsOwn
<1>1. Init => PeerInv
  BY DEF Init, PeerInv
<1>2. BaseInv /\ PeerInv /\ [Next]_vars => PeerInv'
  BY PeerStep DEF BaseInv
<1>3. PeerInv => PeerIsOwn
  BY DEF PeerInv, PeerIsOwn
<1>. QED
  BY <1>1, <1>2, <1>3, BaseInductive, PTL DEF Spec

\* A session that is published as running has its connection, provided that no
\* connection is lost before the launcher has answered.
THEOREM RunningHasItsLink ==
  ASSUME ~LossWhileLaunching
  PROVE  Spec => []RunningIsConnected
<1>1. Init => PeerInv /\ LinkInv
  BY DEF Init, PeerInv, LinkInv
<1>2. BaseInv /\ PeerInv /\ LinkInv /\ [Next]_vars => PeerInv' /\ LinkInv'
  BY PeerStep, LinkStep DEF BaseInv
<1>3. BaseInv /\ LinkInv => RunningIsConnected
  BY DEF BaseInv, OwnerInv, LinkInv, RunningIsConnected
<1>. QED
  BY <1>1, <1>2, <1>3, BaseInductive, PTL DEF Spec

-----------------------------------------------------------------------------
\* While an intent is served, it and the latest one are unanswered.
LEMMA ServedIsPending ==
  ASSUME BaseInv, pc \notin {"off", "loop"}
  PROVE  intent \in Pending /\ revision \in Pending
<1>1. intent \in 1..revision /\ revision \in 1..MaxRevision /\ outcome[intent] = "pending"
  BY DEF BaseInv, TypeOK, CommandInv
<1>2. intent # revision => intent < revision
  BY <1>1
<1>3. outcome[revision] = "pending"
  BY <1>1, <1>2 DEF BaseInv, CommandInv, SettledInOrder
<1>. QED
  BY <1>1, <1>3 DEF Pending

\* The running Cores and the commands change as the promise allows.
LEMMA PromiseStep ==
  ASSUME LifecycleInv, [Next]_vars
  PROVE  [Promise!Next]_Promise!vars
<1>. USE DEF Promise!Unanswered, Promise!Targets, Promise!Starts
<1>0. BaseInv /\ TypeOK /\ OwnerInv /\ IntentInv /\ HeldInv
  BY DEF LifecycleInv, BaseInv
<1>1. ASSUME NEW t \in Targets, Submit(t) PROVE Promise!Submit(t)
  <2>1. Alive' = Alive
    BY <1>0, <1>1, AliveStep DEF Submit, linkVars
  <2>. QED
    BY <1>1, <2>1 DEF Submit, Promise!Submit, TerminalRequested, Desired
<1>2. CASE Settle /\ Satisfies(achieved, Desired) /\ CompleteCommands
  <2>1. Alive' = Alive /\ UNCHANGED <<revision, target>> /\ pc = "settle"
    BY <1>0, <1>2, AliveStep DEF Settle, linkVars
  <2>2. revision \in Promise!Unanswered
    BY <1>0, <2>1, ServedIsPending DEF Pending
  <2>3. ASSUME target[revision] = "stopped" PROVE Alive = {}
    <3>1. achieved = "idle"
      BY <1>2, <2>3 DEF Satisfies, Desired
    <3>2. session = NoCore /\ lease = NoCore /\ unconfirmed = NoCore /\ recovery = NoCore
      BY <1>0, <2>1, <3>1 DEF OwnerInv, LeasePcs
    <3>3. Alive \subseteq {NoCore} /\ NoCore \notin Alive
      BY <1>0, <2>3, <3>2 DEF HeldInv, TerminalRequested, Desired, Alive
    <3>. QED
      BY <3>3
  <2>4. outcome' = [r \in 1..MaxRevision |->
           CASE r \notin Promise!Unanswered -> outcome[r]
             [] r = revision -> "applied"
             [] r \in Promise!Unanswered /\ r # revision ->
                  IF target[r] = target[revision] \/ {target[r], target[revision]} \subseteq Promise!Starts
                  THEN "coalesced" ELSE "superseded"]
    BY <1>2, <2>2 DEF CompleteCommands, Pending, Coalesce, Desired, Starts
  <2>5. Promise!Apply
    BY <2>1, <2>2, <2>3, <2>4 DEF Promise!Apply
  <2>. QED
    BY <2>5 DEF Promise!Next
<1>3. CASE pc \notin {"off", "loop", "settle"} /\ FailCommands(intent) /\ Alive' = Alive
             /\ UNCHANGED <<revision, target>>
  <2>1. intent \in Pending
    BY <1>0, <1>3, ServedIsPending
  <2>2. intent \in 1..MaxRevision /\ \E r \in Promise!Unanswered : r <= intent
    BY <2>1 DEF Pending
  <2>3. Promise!FailUpTo(intent)
    BY <1>3, <2>2 DEF Promise!FailUpTo, FailCommands, Pending
  <2>. QED
    BY <2>2, <2>3 DEF Promise!Next
<1>4. CASE Spawn
  <2>1. Alive' = Alive \cup {lease} /\ lease \notin Alive /\ lease \in Cores
    BY <1>0, <1>4, AliveStep DEF Spawn, TypeOK, OwnerInv, LeasePcs, CoreOrNone
  <2>2. Alive \subseteq {session, lease, unconfirmed, recovery}
    BY <1>0, <1>4 DEF Spawn, HeldInv, IntentInv, StartPcs, LeasePcs, Starts
  <2>3. session = NoCore /\ unconfirmed = NoCore /\ recovery = NoCore /\ NoCore \notin Alive
    BY <1>0, <1>4 DEF Spawn, OwnerInv, LeasePcs, Alive
  <2>4. Alive = {} /\ Alive' = {lease}
    BY <2>1, <2>2, <2>3
  <2>5. intent \in Promise!Unanswered /\ target[intent] \in Promise!Starts
    BY <1>0, <1>4, ServedIsPending DEF Spawn, Pending, IntentInv, StartPcs, LeasePcs, Starts
  <2>6. Promise!CoreStarts(lease)
    BY <1>4, <2>4, <2>5 DEF Spawn, cmdVars, Promise!CoreStarts
  <2>. QED
    BY <2>1, <2>6 DEF Promise!Next
<1>5. ASSUME NEW c \in Cores, CoreExits(c) PROVE Promise!CoreEnds(c)
  <2>1. Alive' = Alive \ {c}
    BY <1>0, <1>5, AliveStep
  <2>. QED
    BY <1>5, <2>1 DEF CoreExits, cmdVars, Promise!CoreEnds
<1>6. CASE UNCHANGED <<revision, target, outcome>> /\ Alive' = Alive
  BY <1>6 DEF Promise!vars
<1>7. \/ UNCHANGED <<revision, target>> /\ Alive' = Alive
      \/ \E t \in Targets : Submit(t)
      \/ Spawn
      \/ \E c \in Cores : CoreExits(c)
  <2>. DEFINE Same == UNCHANGED <<revision, target>> /\ Alive' = Alive
  <2>. USE AliveStep, <1>0
  <2>1. ASSUME Capture PROVE Same
    BY <2>1 DEF Capture, cmdVars, linkVars
  <2>2. ASSUME Settle PROVE Same
    BY <2>2 DEF Settle, cmdVars, linkVars
  <2>3. ASSUME NEW ok \in BOOLEAN, UnconfirmedStopReturns(ok) PROVE Same
    BY <2>3 DEF UnconfirmedStopReturns, cmdVars, linkVars
  <2>4. ASSUME NEW ok \in BOOLEAN, SessionStopReturns(ok) PROVE Same
    BY <2>4 DEF SessionStopReturns, cmdVars, linkVars
  <2>5. ASSUME DisconnectSeen PROVE Same
    BY <2>5 DEF DisconnectSeen, cmdVars, linkVars
  <2>6. ASSUME DisconnectMissed PROVE Same
    BY <2>6 DEF DisconnectMissed, cmdVars, linkVars
  <2>7. ASSUME NEW ok \in BOOLEAN, ReplaceAfterStopReturns(ok) PROVE Same
    BY <2>7 DEF ReplaceAfterStopReturns, cmdVars, linkVars
  <2>8. ASSUME CloseBegins PROVE Same
    BY <2>8 DEF CloseBegins, cmdVars, linkVars
  <2>9. ASSUME NEW ok \in BOOLEAN, CloseReturns(ok) PROVE Same
    BY <2>9 DEF CloseReturns, cmdVars, linkVars
  <2>10. ASSUME Prepare PROVE Same
    BY <2>10 DEF Prepare, cmdVars, linkVars
  <2>11. ASSUME NEW ok \in BOOLEAN, ReplaceToStartReturns(ok) PROVE Same
    BY <2>11 DEF ReplaceToStartReturns, cmdVars, linkVars
  <2>12. ASSUME Opened PROVE Same
    BY <2>12 DEF Opened, cmdVars, linkVars
  <2>13. ASSUME OpenAbandoned PROVE Same
    BY <2>13 DEF OpenAbandoned, cmdVars, linkVars
  <2>14. ASSUME OpenFails PROVE Same
    BY <2>14 DEF OpenFails, cmdVars, linkVars
  <2>15. ASSUME Resolved PROVE Same
    BY <2>15 DEF Resolved, cmdVars, linkVars
  <2>16. ASSUME LaunchReturns PROVE Same
    BY <2>16 DEF LaunchReturns, cmdVars, linkVars
  <2>17. ASSUME LaunchFails PROVE Same
    BY <2>17 DEF LaunchFails, cmdVars, linkVars
  <2>18. ASSUME Connected PROVE Same
    BY <2>18 DEF Connected, cmdVars, linkVars
  <2>19. ASSUME ConnectFails PROVE Same
    BY <2>19 DEF ConnectFails, cmdVars, linkVars
  <2>20. ASSUME ConnectAbandoned PROVE Same
    BY <2>20 DEF ConnectAbandoned, cmdVars, linkVars
  <2>21. ASSUME NEW ok \in BOOLEAN, ReleaseReturns(ok) PROVE Same
    BY <2>21 DEF ReleaseReturns, cmdVars, linkVars
  <2>22. ASSUME ServerReady PROVE Same
    BY <2>22 DEF ServerReady, cmdVars, linkVars
  <2>23. ASSUME NEW c \in Cores, Links(c) PROVE Same
    BY <2>23 DEF Links, cmdVars, linkVars
  <2>24. ASSUME NEW c \in Cores, Unlinks(c) PROVE Same
    BY <2>24 DEF Unlinks, cmdVars, linkVars
  <2>25. ASSUME TransportFails PROVE Same
    BY <2>25 DEF TransportFails, cmdVars, linkVars
  <2>26. ASSUME ServerDies PROVE Same
    BY <2>26 DEF ServerDies, cmdVars, linkVars
  <2>27. ASSUME ConnectionTimeout PROVE Same
    BY <2>27 DEF ConnectionTimeout, cmdVars, linkVars
  <2>28. ASSUME NEW ok \in BOOLEAN, RecoveryReturns(ok) PROVE Same
    BY <2>28 DEF RecoveryReturns, cmdVars, linkVars
  <2>29. CASE UNCHANGED vars
    BY <2>29 DEF vars, cmdVars, linkVars
  <2>. QED
    BY <2>1, <2>2, <2>3, <2>4, <2>5, <2>6, <2>7, <2>8, <2>9, <2>10, <2>11, <2>12, <2>13, <2>14, <2>15, <2>16, <2>17, <2>18, <2>19, <2>20, <2>21, <2>22, <2>23, <2>24, <2>25, <2>26, <2>27, <2>28, <2>29 DEF Next, Environment, Microtask, AwaitReturns
<1>8. CASE \E t \in Targets : Submit(t)
  BY <1>1, <1>8 DEF Promise!Next, Targets
<1>9. CASE \E c \in Cores : CoreExits(c)
  BY <1>5, <1>9 DEF Promise!Next
<1>10. CASE UNCHANGED <<revision, target>> /\ Alive' = Alive
  BY <1>0, <1>2, <1>3, <1>6, <1>8, <1>10, AnswerCases
<1>. QED
  BY <1>4, <1>7, <1>8, <1>9, <1>10

\* The reconciler implements the promise made to its callers, if launchers do not leak.
THEOREM ImplementsPromise ==
  ASSUME ~LauncherLeaks
  PROVE  Spec => KeepsPromise
<1>1. Init => Promise!Init
  BY DEF Init, Promise!Init, Alive
<1>2. LifecycleInv /\ [Next]_vars => [Promise!Next]_Promise!vars
  BY PromiseStep
<1>. QED
  BY <1>1, <1>2, Inductive, PTL DEF Spec, KeepsPromise, Promise!Spec

=============================================================================
