----------------------------- MODULE Helper_proofs -----------------------------
(***************************************************************************)
(* Type correctness and safety of HelperService, for any number of         *)
(* requests, sessions and processes, on both platforms.  The server around *)
(* the request threads, HelperFront, implements HelperService, so every    *)
(* theorem about the threads holds of it; what the drained shutdown adds;  *)
(* and the app as its client, HelperLaunch, whose leases are over when it  *)
(* is told that they are.  Last the commands that install and remove the   *)
(* Helper on either platform, for any number of them, of service processes *)
(* and of accounts, and for any number of faults.                          *)
(***************************************************************************)
EXTENDS HelperLaunch, ScmService, UnitInstall, TLAPS

USE HelperAssumption

-----------------------------------------------------------------------------
Critical == {"release", "graceful", "killing", "verify", "socket", "spawn", "adopt"}

\* The threads inside the critical section are the one that holds the lock.
LockInv == \A r \in Threads : pc[r] \in Critical <=> lock = r

\* What the holder of the lock knows of the managed Core and of the child.
HolderInv ==
  /\ \A r \in Threads :
       /\ pc[r] \in {"verify", "socket", "spawn", "adopt"} => managed = NoPid
       /\ pc[r] \in {"graceful", "killing"} => managed # NoPid
       /\ pc[r] = "adopt" <=> child # NoPid /\ lock = r
  /\ child # NoPid => lock \in Threads

\* The Cores that live and are confined are the managed one and the child.
CoreInv ==
  /\ running \cap confined \subseteq {managed, child}
  /\ \A p \in Pids : p \in confined \/ p = child => owner[p] # NoSession
  /\ JobObject => child \notin confined

\* Only a start spawns, and it has a session to spawn for.
RequestInv ==
  /\ kind[Main] = "shutdown"
  /\ \A r \in Requests : pc[r] # "idle" => session[r] # NoSession
  /\ \A r \in Threads : pc[r] \in {"verify", "socket", "spawn", "adopt"} => kind[r] = "start"

\* A dead Helper has no thread.
DownInv ==
  helper = "down" => \A r \in Threads : pc[r] \in {"idle", "done"}

\* On Linux a Core is in the service's control group from birth.
CgroupInv ==
  ~JobObject => /\ running \subseteq confined
                /\ helper = "down" => running = {}

HelperInv ==
  /\ TypeOK
  /\ LockInv
  /\ HolderInv
  /\ CoreInv
  /\ RequestInv
  /\ DownInv
  /\ CgroupInv
  /\ StopKeepsToItsSession

-----------------------------------------------------------------------------
LEMMA InitInv == Init => HelperInv
BY DEF Init, HelperInv, TypeOK, LockInv, HolderInv, CoreInv, RequestInv, DownInv,
       CgroupInv, StopKeepsToItsSession, Threads, Kinds, Pcs, Replies, Critical

\* A successful release either goes on to verify, for a start, or answers.
LEMMA AfterReleaseCases ==
  ASSUME TypeOK, NEW r \in Threads, AfterRelease(r)
  PROVE  \/ kind[r] = "start" /\ Goto(r, "verify") /\ UNCHANGED <<lock, reply>>
         \/ kind[r] = "stop" /\ Finish(r, "stopped")
         \/ kind[r] = "shutdown" /\ Finish(r, "released")
<1>1. kind[r] \in {"start", "stop", "shutdown"}
  BY DEF TypeOK, Kinds
<1>. QED
  BY <1>1 DEF AfterRelease

\* Type correctness needs to know that a child being adopted exists.
LEMMA TypeStep ==
  ASSUME TypeOK, HolderInv, [Next]_vars
  PROVE  TypeOK'
<1>. USE DEF TypeOK, Threads, Kinds, Pcs, Replies, Goto, Active, procVars, reqVars, HolderInv
<1>1. ASSUME NEW r \in Requests, NEW k \in {"start", "stop"}, NEW s \in Sessions,
             NEW valid \in BOOLEAN, Arrive(r, k, s, valid)
      PROVE  TypeOK'
  BY <1>1 DEF Arrive
<1>2. ASSUME BeginShutdown
      PROVE  TypeOK'
  BY <1>2 DEF BeginShutdown
<1>3. ASSUME ShutdownRelease
      PROVE  TypeOK'
  BY <1>3 DEF ShutdownRelease
<1>4. ASSUME NEW r \in Threads, Acquire(r)
      PROVE  TypeOK'
  BY <1>4 DEF Acquire, Finish, StopDecision
<1>5. ASSUME NEW r \in Threads, Release(r)
      PROVE  TypeOK'
  BY <1>5, AfterReleaseCases DEF Release, Finish
<1>6. ASSUME NEW r \in Threads, ExitObserved(r)
      PROVE  TypeOK'
  BY <1>6, AfterReleaseCases DEF ExitObserved, Finish
<1>7. ASSUME NEW r \in Threads, GracePeriodOver(r)
      PROVE  TypeOK'
  BY <1>7 DEF GracePeriodOver
<1>8. ASSUME NEW r \in Threads, TerminateFailed(r)
      PROVE  TypeOK'
  BY <1>8 DEF TerminateFailed, Finish
<1>9. ASSUME NEW r \in Threads, Verify(r)
      PROVE  TypeOK'
  BY <1>9 DEF Verify, Finish
<1>9a. ASSUME NEW r \in Threads, CheckSocket(r)
      PROVE  TypeOK'
  BY <1>9a DEF CheckSocket, Finish
<1>10. ASSUME NEW r \in Threads, Spawn(r)
      PROVE  TypeOK'
  BY <1>10 DEF Spawn, Finish
<1>11. ASSUME NEW r \in Threads, Adopt(r)
      PROVE  TypeOK'
  BY <1>11 DEF Adopt, Finish
<1>12. ASSUME NEW p \in Pids, CoreExit(p)
      PROVE  TypeOK'
  BY <1>12 DEF CoreExit
<1>13. ASSUME Crash
      PROVE  TypeOK'
  BY <1>13 DEF Crash, Die
<1>14. ASSUME Exit
      PROVE  TypeOK'
  BY <1>14 DEF Exit, Die
<1>15. ASSUME Restart
      PROVE  TypeOK'
  BY <1>15 DEF Restart
<1>16. CASE UNCHANGED vars
  BY <1>16 DEF vars, procVars, reqVars
<1>. QED
  BY <1>1, <1>2, <1>3, <1>4, <1>5, <1>6, <1>7, <1>8, <1>9, <1>9a, <1>10, <1>11, <1>12, <1>13, <1>14, <1>15, <1>16 DEF Next, Thread

\* The lock is taken on the way in and dropped on every way out.
LEMMA LockStep ==
  ASSUME TypeOK, LockInv, [Next]_vars
  PROVE  LockInv'
<1>. USE DEF TypeOK, Threads, Kinds, Pcs, Replies, Goto, Active, procVars, reqVars, LockInv, Critical
<1>1. ASSUME NEW r \in Requests, NEW k \in {"start", "stop"}, NEW s \in Sessions,
             NEW valid \in BOOLEAN, Arrive(r, k, s, valid)
      PROVE  LockInv'
  BY <1>1 DEF Arrive
<1>2. ASSUME BeginShutdown
      PROVE  LockInv'
  BY <1>2 DEF BeginShutdown
<1>3. ASSUME ShutdownRelease
      PROVE  LockInv'
  BY <1>3 DEF ShutdownRelease
<1>4. ASSUME NEW r \in Threads, Acquire(r)
      PROVE  LockInv'
  BY <1>4 DEF Acquire, Finish, StopDecision
<1>5. ASSUME NEW r \in Threads, Release(r)
      PROVE  LockInv'
  BY <1>5, AfterReleaseCases DEF Release, Finish
<1>6. ASSUME NEW r \in Threads, ExitObserved(r)
      PROVE  LockInv'
  BY <1>6, AfterReleaseCases DEF ExitObserved, Finish
<1>7. ASSUME NEW r \in Threads, GracePeriodOver(r)
      PROVE  LockInv'
  BY <1>7 DEF GracePeriodOver
<1>8. ASSUME NEW r \in Threads, TerminateFailed(r)
      PROVE  LockInv'
  BY <1>8 DEF TerminateFailed, Finish
<1>9. ASSUME NEW r \in Threads, Verify(r)
      PROVE  LockInv'
  BY <1>9 DEF Verify, Finish
<1>9a. ASSUME NEW r \in Threads, CheckSocket(r)
      PROVE  LockInv'
  BY <1>9a DEF CheckSocket, Finish
<1>10. ASSUME NEW r \in Threads, Spawn(r)
      PROVE  LockInv'
  BY <1>10 DEF Spawn, Finish
<1>11. ASSUME NEW r \in Threads, Adopt(r)
      PROVE  LockInv'
  BY <1>11 DEF Adopt, Finish
<1>12. ASSUME NEW p \in Pids, CoreExit(p)
      PROVE  LockInv'
  BY <1>12 DEF CoreExit
<1>13. ASSUME Crash
      PROVE  LockInv'
  BY <1>13 DEF Crash, Die
<1>14. ASSUME Exit
      PROVE  LockInv'
  BY <1>14 DEF Exit, Die
<1>15. ASSUME Restart
      PROVE  LockInv'
  BY <1>15 DEF Restart
<1>16. CASE UNCHANGED vars
  BY <1>16 DEF vars, procVars, reqVars
<1>. QED
  BY <1>1, <1>2, <1>3, <1>4, <1>5, <1>6, <1>7, <1>8, <1>9, <1>9a, <1>10, <1>11, <1>12, <1>13, <1>14, <1>15, <1>16 DEF Next, Thread

\* Nobody else touches the Core while the holder works on it.
LEMMA HolderStep ==
  ASSUME TypeOK, LockInv, HolderInv, [Next]_vars
  PROVE  HolderInv'
<1>. USE DEF TypeOK, Threads, Kinds, Pcs, Replies, Goto, Active, procVars, reqVars, LockInv, HolderInv, Critical
<1>1. ASSUME NEW r \in Requests, NEW k \in {"start", "stop"}, NEW s \in Sessions,
             NEW valid \in BOOLEAN, Arrive(r, k, s, valid)
      PROVE  HolderInv'
  BY <1>1 DEF Arrive
<1>2. ASSUME BeginShutdown
      PROVE  HolderInv'
  BY <1>2 DEF BeginShutdown
<1>3. ASSUME ShutdownRelease
      PROVE  HolderInv'
  BY <1>3 DEF ShutdownRelease
<1>4. ASSUME NEW r \in Threads, Acquire(r)
      PROVE  HolderInv'
  BY <1>4 DEF Acquire, Finish, StopDecision
<1>5. ASSUME NEW r \in Threads, Release(r)
      PROVE  HolderInv'
  BY <1>5, AfterReleaseCases DEF Release, Finish
<1>6. ASSUME NEW r \in Threads, ExitObserved(r)
      PROVE  HolderInv'
  BY <1>6, AfterReleaseCases DEF ExitObserved, Finish
<1>7. ASSUME NEW r \in Threads, GracePeriodOver(r)
      PROVE  HolderInv'
  BY <1>7 DEF GracePeriodOver
<1>8. ASSUME NEW r \in Threads, TerminateFailed(r)
      PROVE  HolderInv'
  BY <1>8 DEF TerminateFailed, Finish
<1>9. ASSUME NEW r \in Threads, Verify(r)
      PROVE  HolderInv'
  BY <1>9 DEF Verify, Finish
<1>9a. ASSUME NEW r \in Threads, CheckSocket(r)
      PROVE  HolderInv'
  BY <1>9a DEF CheckSocket, Finish
<1>10. ASSUME NEW r \in Threads, Spawn(r)
      PROVE  HolderInv'
  BY <1>10 DEF Spawn, Finish
<1>11. ASSUME NEW r \in Threads, Adopt(r)
      PROVE  HolderInv'
  BY <1>11 DEF Adopt, Finish
<1>12. ASSUME NEW p \in Pids, CoreExit(p)
      PROVE  HolderInv'
  BY <1>12 DEF CoreExit
<1>13. ASSUME Crash
      PROVE  HolderInv'
  BY <1>13 DEF Crash, Die
<1>14. ASSUME Exit
      PROVE  HolderInv'
  BY <1>14 DEF Exit, Die
<1>15. ASSUME Restart
      PROVE  HolderInv'
  BY <1>15 DEF Restart
<1>16. CASE UNCHANGED vars
  BY <1>16 DEF vars, procVars, reqVars
<1>. QED
  BY <1>1, <1>2, <1>3, <1>4, <1>5, <1>6, <1>7, <1>8, <1>9, <1>9a, <1>10, <1>11, <1>12, <1>13, <1>14, <1>15, <1>16 DEF Next, Thread

\* A Core is spawned only when no confined one is left.
LEMMA CoreStep ==
  ASSUME TypeOK, LockInv, HolderInv, CoreInv, RequestInv, [Next]_vars
  PROVE  CoreInv'
<1>. USE DEF TypeOK, Threads, Kinds, Pcs, Replies, Goto, Active, procVars, reqVars, LockInv, HolderInv, CoreInv, RequestInv, Critical
<1>1. ASSUME NEW r \in Requests, NEW k \in {"start", "stop"}, NEW s \in Sessions,
             NEW valid \in BOOLEAN, Arrive(r, k, s, valid)
      PROVE  CoreInv'
  BY <1>1 DEF Arrive
<1>2. ASSUME BeginShutdown
      PROVE  CoreInv'
  BY <1>2 DEF BeginShutdown
<1>3. ASSUME ShutdownRelease
      PROVE  CoreInv'
  BY <1>3 DEF ShutdownRelease
<1>4. ASSUME NEW r \in Threads, Acquire(r)
      PROVE  CoreInv'
  BY <1>4 DEF Acquire, Finish, StopDecision
<1>5. ASSUME NEW r \in Threads, Release(r)
      PROVE  CoreInv'
  BY <1>5, AfterReleaseCases DEF Release, Finish
<1>6. ASSUME NEW r \in Threads, ExitObserved(r)
      PROVE  CoreInv'
  BY <1>6, AfterReleaseCases DEF ExitObserved, Finish
<1>7. ASSUME NEW r \in Threads, GracePeriodOver(r)
      PROVE  CoreInv'
  BY <1>7 DEF GracePeriodOver
<1>8. ASSUME NEW r \in Threads, TerminateFailed(r)
      PROVE  CoreInv'
  BY <1>8 DEF TerminateFailed, Finish
<1>9. ASSUME NEW r \in Threads, Verify(r)
      PROVE  CoreInv'
  BY <1>9 DEF Verify, Finish
<1>9a. ASSUME NEW r \in Threads, CheckSocket(r)
      PROVE  CoreInv'
  BY <1>9a DEF CheckSocket, Finish
<1>10. ASSUME NEW r \in Threads, Spawn(r)
      PROVE  CoreInv'
  BY <1>10 DEF Spawn, Finish
<1>11. ASSUME NEW r \in Threads, Adopt(r)
      PROVE  CoreInv'
  BY <1>11 DEF Adopt, Finish
<1>12. ASSUME NEW p \in Pids, CoreExit(p)
      PROVE  CoreInv'
  BY <1>12 DEF CoreExit
<1>13. ASSUME Crash
      PROVE  CoreInv'
  BY <1>13 DEF Crash, Die
<1>14. ASSUME Exit
      PROVE  CoreInv'
  BY <1>14 DEF Exit, Die
<1>15. ASSUME Restart
      PROVE  CoreInv'
  BY <1>15 DEF Restart
<1>16. CASE UNCHANGED vars
  BY <1>16 DEF vars, procVars, reqVars
<1>. QED
  BY <1>1, <1>2, <1>3, <1>4, <1>5, <1>6, <1>7, <1>8, <1>9, <1>9a, <1>10, <1>11, <1>12, <1>13, <1>14, <1>15, <1>16 DEF Next, Thread

\* What a thread serves does not change under way.
LEMMA RequestStep ==
  ASSUME TypeOK, RequestInv, [Next]_vars
  PROVE  RequestInv'
<1>. USE DEF TypeOK, Threads, Kinds, Pcs, Replies, Goto, Active, procVars, reqVars, RequestInv
<1>1. ASSUME NEW r \in Requests, NEW k \in {"start", "stop"}, NEW s \in Sessions,
             NEW valid \in BOOLEAN, Arrive(r, k, s, valid)
      PROVE  RequestInv'
  BY <1>1 DEF Arrive
<1>2. ASSUME BeginShutdown
      PROVE  RequestInv'
  BY <1>2 DEF BeginShutdown
<1>3. ASSUME ShutdownRelease
      PROVE  RequestInv'
  BY <1>3 DEF ShutdownRelease
<1>4. ASSUME NEW r \in Threads, Acquire(r)
      PROVE  RequestInv'
  BY <1>4 DEF Acquire, Finish, StopDecision
<1>5. ASSUME NEW r \in Threads, Release(r)
      PROVE  RequestInv'
  BY <1>5, AfterReleaseCases DEF Release, Finish
<1>6. ASSUME NEW r \in Threads, ExitObserved(r)
      PROVE  RequestInv'
  BY <1>6, AfterReleaseCases DEF ExitObserved, Finish
<1>7. ASSUME NEW r \in Threads, GracePeriodOver(r)
      PROVE  RequestInv'
  BY <1>7 DEF GracePeriodOver
<1>8. ASSUME NEW r \in Threads, TerminateFailed(r)
      PROVE  RequestInv'
  BY <1>8 DEF TerminateFailed, Finish
<1>9. ASSUME NEW r \in Threads, Verify(r)
      PROVE  RequestInv'
  BY <1>9 DEF Verify, Finish
<1>9a. ASSUME NEW r \in Threads, CheckSocket(r)
      PROVE  RequestInv'
  BY <1>9a DEF CheckSocket, Finish
<1>10. ASSUME NEW r \in Threads, Spawn(r)
      PROVE  RequestInv'
  BY <1>10 DEF Spawn, Finish
<1>11. ASSUME NEW r \in Threads, Adopt(r)
      PROVE  RequestInv'
  BY <1>11 DEF Adopt, Finish
<1>12. ASSUME NEW p \in Pids, CoreExit(p)
      PROVE  RequestInv'
  BY <1>12 DEF CoreExit
<1>13. ASSUME Crash
      PROVE  RequestInv'
  BY <1>13 DEF Crash, Die
<1>14. ASSUME Exit
      PROVE  RequestInv'
  BY <1>14 DEF Exit, Die
<1>15. ASSUME Restart
      PROVE  RequestInv'
  BY <1>15 DEF Restart
<1>16. CASE UNCHANGED vars
  BY <1>16 DEF vars, procVars, reqVars
<1>. QED
  BY <1>1, <1>2, <1>3, <1>4, <1>5, <1>6, <1>7, <1>8, <1>9, <1>9a, <1>10, <1>11, <1>12, <1>13, <1>14, <1>15, <1>16 DEF Next, Thread

\* No thread survives the process.
LEMMA DownStep ==
  ASSUME TypeOK, DownInv, [Next]_vars
  PROVE  DownInv'
<1>. USE DEF TypeOK, Threads, Kinds, Pcs, Replies, Goto, Active, procVars, reqVars, DownInv
<1>1. ASSUME NEW r \in Requests, NEW k \in {"start", "stop"}, NEW s \in Sessions,
             NEW valid \in BOOLEAN, Arrive(r, k, s, valid)
      PROVE  DownInv'
  BY <1>1 DEF Arrive
<1>2. ASSUME BeginShutdown
      PROVE  DownInv'
  BY <1>2 DEF BeginShutdown
<1>3. ASSUME ShutdownRelease
      PROVE  DownInv'
  BY <1>3 DEF ShutdownRelease
<1>4. ASSUME NEW r \in Threads, Acquire(r)
      PROVE  DownInv'
  BY <1>4 DEF Acquire, Finish, StopDecision
<1>5. ASSUME NEW r \in Threads, Release(r)
      PROVE  DownInv'
  BY <1>5, AfterReleaseCases DEF Release, Finish
<1>6. ASSUME NEW r \in Threads, ExitObserved(r)
      PROVE  DownInv'
  BY <1>6, AfterReleaseCases DEF ExitObserved, Finish
<1>7. ASSUME NEW r \in Threads, GracePeriodOver(r)
      PROVE  DownInv'
  BY <1>7 DEF GracePeriodOver
<1>8. ASSUME NEW r \in Threads, TerminateFailed(r)
      PROVE  DownInv'
  BY <1>8 DEF TerminateFailed, Finish
<1>9. ASSUME NEW r \in Threads, Verify(r)
      PROVE  DownInv'
  BY <1>9 DEF Verify, Finish
<1>9a. ASSUME NEW r \in Threads, CheckSocket(r)
      PROVE  DownInv'
  BY <1>9a DEF CheckSocket, Finish
<1>10. ASSUME NEW r \in Threads, Spawn(r)
      PROVE  DownInv'
  BY <1>10 DEF Spawn, Finish
<1>11. ASSUME NEW r \in Threads, Adopt(r)
      PROVE  DownInv'
  BY <1>11 DEF Adopt, Finish
<1>12. ASSUME NEW p \in Pids, CoreExit(p)
      PROVE  DownInv'
  BY <1>12 DEF CoreExit
<1>13. ASSUME Crash
      PROVE  DownInv'
  BY <1>13 DEF Crash, Die
<1>14. ASSUME Exit
      PROVE  DownInv'
  BY <1>14 DEF Exit, Die
<1>15. ASSUME Restart
      PROVE  DownInv'
  BY <1>15 DEF Restart
<1>16. CASE UNCHANGED vars
  BY <1>16 DEF vars, procVars, reqVars
<1>. QED
  BY <1>1, <1>2, <1>3, <1>4, <1>5, <1>6, <1>7, <1>8, <1>9, <1>9a, <1>10, <1>11, <1>12, <1>13, <1>14, <1>15, <1>16 DEF Next, Thread

\* The control group holds every Core and dies with the Helper.
LEMMA CgroupStep ==
  ASSUME TypeOK, DownInv, CgroupInv, [Next]_vars
  PROVE  CgroupInv'
<1>. USE DEF TypeOK, Threads, Kinds, Pcs, Replies, Goto, Active, procVars, reqVars, DownInv, CgroupInv
<1>1. ASSUME NEW r \in Requests, NEW k \in {"start", "stop"}, NEW s \in Sessions,
             NEW valid \in BOOLEAN, Arrive(r, k, s, valid)
      PROVE  CgroupInv'
  BY <1>1 DEF Arrive
<1>2. ASSUME BeginShutdown
      PROVE  CgroupInv'
  BY <1>2 DEF BeginShutdown
<1>3. ASSUME ShutdownRelease
      PROVE  CgroupInv'
  BY <1>3 DEF ShutdownRelease
<1>4. ASSUME NEW r \in Threads, Acquire(r)
      PROVE  CgroupInv'
  BY <1>4 DEF Acquire, Finish, StopDecision
<1>5. ASSUME NEW r \in Threads, Release(r)
      PROVE  CgroupInv'
  BY <1>5, AfterReleaseCases DEF Release, Finish
<1>6. ASSUME NEW r \in Threads, ExitObserved(r)
      PROVE  CgroupInv'
  BY <1>6, AfterReleaseCases DEF ExitObserved, Finish
<1>7. ASSUME NEW r \in Threads, GracePeriodOver(r)
      PROVE  CgroupInv'
  BY <1>7 DEF GracePeriodOver
<1>8. ASSUME NEW r \in Threads, TerminateFailed(r)
      PROVE  CgroupInv'
  BY <1>8 DEF TerminateFailed, Finish
<1>9. ASSUME NEW r \in Threads, Verify(r)
      PROVE  CgroupInv'
  BY <1>9 DEF Verify, Finish
<1>9a. ASSUME NEW r \in Threads, CheckSocket(r)
      PROVE  CgroupInv'
  BY <1>9a DEF CheckSocket, Finish
<1>10. ASSUME NEW r \in Threads, Spawn(r)
      PROVE  CgroupInv'
  BY <1>10 DEF Spawn, Finish
<1>11. ASSUME NEW r \in Threads, Adopt(r)
      PROVE  CgroupInv'
  BY <1>11 DEF Adopt, Finish
<1>12. ASSUME NEW p \in Pids, CoreExit(p)
      PROVE  CgroupInv'
  BY <1>12 DEF CoreExit
<1>13. ASSUME Crash
      PROVE  CgroupInv'
  BY <1>13 DEF Crash, Die
<1>14. ASSUME Exit
      PROVE  CgroupInv'
  BY <1>14 DEF Exit, Die
<1>15. ASSUME Restart
      PROVE  CgroupInv'
  BY <1>15 DEF Restart
<1>16. CASE UNCHANGED vars
  BY <1>16 DEF vars, procVars, reqVars
<1>. QED
  BY <1>1, <1>2, <1>3, <1>4, <1>5, <1>6, <1>7, <1>8, <1>9, <1>9a, <1>10, <1>11, <1>12, <1>13, <1>14, <1>15, <1>16 DEF Next, Thread

\* The session check and the kill are one critical section.
LEMMA StopStep ==
  ASSUME TypeOK, LockInv, StopKeepsToItsSession, [Next]_vars
  PROVE  StopKeepsToItsSession'
<1>. USE DEF TypeOK, Threads, Kinds, Pcs, Replies, Goto, Active, procVars, reqVars, LockInv, Critical, StopKeepsToItsSession
<1>1. ASSUME NEW r \in Requests, NEW k \in {"start", "stop"}, NEW s \in Sessions,
             NEW valid \in BOOLEAN, Arrive(r, k, s, valid)
      PROVE  StopKeepsToItsSession'
  BY <1>1 DEF Arrive
<1>2. ASSUME BeginShutdown
      PROVE  StopKeepsToItsSession'
  BY <1>2 DEF BeginShutdown
<1>3. ASSUME ShutdownRelease
      PROVE  StopKeepsToItsSession'
  BY <1>3 DEF ShutdownRelease
<1>4. ASSUME NEW r \in Threads, Acquire(r)
      PROVE  StopKeepsToItsSession'
  BY <1>4 DEF Acquire, Finish, StopDecision
<1>5. ASSUME NEW r \in Threads, Release(r)
      PROVE  StopKeepsToItsSession'
  BY <1>5, AfterReleaseCases DEF Release, Finish
<1>6. ASSUME NEW r \in Threads, ExitObserved(r)
      PROVE  StopKeepsToItsSession'
  BY <1>6, AfterReleaseCases DEF ExitObserved, Finish
<1>7. ASSUME NEW r \in Threads, GracePeriodOver(r)
      PROVE  StopKeepsToItsSession'
  BY <1>7 DEF GracePeriodOver
<1>8. ASSUME NEW r \in Threads, TerminateFailed(r)
      PROVE  StopKeepsToItsSession'
  BY <1>8 DEF TerminateFailed, Finish
<1>9. ASSUME NEW r \in Threads, Verify(r)
      PROVE  StopKeepsToItsSession'
  BY <1>9 DEF Verify, Finish
<1>9a. ASSUME NEW r \in Threads, CheckSocket(r)
      PROVE  StopKeepsToItsSession'
  BY <1>9a DEF CheckSocket, Finish
<1>10. ASSUME NEW r \in Threads, Spawn(r)
      PROVE  StopKeepsToItsSession'
  BY <1>10 DEF Spawn, Finish
<1>11. ASSUME NEW r \in Threads, Adopt(r)
      PROVE  StopKeepsToItsSession'
  BY <1>11 DEF Adopt, Finish
<1>12. ASSUME NEW p \in Pids, CoreExit(p)
      PROVE  StopKeepsToItsSession'
  BY <1>12 DEF CoreExit
<1>13. ASSUME Crash
      PROVE  StopKeepsToItsSession'
  BY <1>13 DEF Crash, Die
<1>14. ASSUME Exit
      PROVE  StopKeepsToItsSession'
  BY <1>14 DEF Exit, Die
<1>15. ASSUME Restart
      PROVE  StopKeepsToItsSession'
  BY <1>15 DEF Restart
<1>16. CASE UNCHANGED vars
  BY <1>16 DEF vars, procVars, reqVars
<1>. QED
  BY <1>1, <1>2, <1>3, <1>4, <1>5, <1>6, <1>7, <1>8, <1>9, <1>9a, <1>10, <1>11, <1>12, <1>13, <1>14, <1>15, <1>16 DEF Next, Thread

THEOREM Inductive == Spec => []HelperInv
<1>1. HelperInv /\ [Next]_vars => HelperInv'
  BY TypeStep, LockStep, HolderStep, CoreStep, RequestStep, DownStep, CgroupStep,
     StopStep DEF HelperInv
<1>. QED
  BY <1>1, InitInv, PTL DEF Spec

-----------------------------------------------------------------------------
\* Every variable keeps its type.
THEOREM TypeCorrect == Spec => []TypeOK
<1>1. HelperInv => TypeOK
  BY DEF HelperInv
<1>. QED
  BY <1>1, Inductive, PTL

\* The Helper never has two confined Cores running: the one it manages has
\* exited before the next is spawned, on both platforms and although a Core
\* may survive its termination.
THEOREM OneConfinedCore == Spec => []SingleConfinedCore
<1>1. HelperInv => SingleConfinedCore
  <2>. SUFFICES ASSUME HelperInv PROVE SingleConfinedCore
    OBVIOUS
  <2>1. child # NoPid => managed = NoPid
    BY DEF HelperInv, HolderInv, TypeOK
  <2>2. running \cap confined \subseteq {managed, child} /\ NoPid \notin running
    BY DEF HelperInv, CoreInv, TypeOK
  <2>. QED
    BY <2>1, <2>2 DEF SingleConfinedCore
<1>. QED
  BY <1>1, Inductive, PTL

\* A stop terminates only the Core of the session it names.
THEOREM StopIsScoped == Spec => []StopKeepsToItsSession
<1>1. HelperInv => StopKeepsToItsSession
  BY DEF HelperInv
<1>. QED
  BY <1>1, Inductive, PTL

\* A living Helper lets go of a managed Core only after it has exited.
THEOREM ManagedCoreIsKept == Spec => ManagedUntilExit
<1>. DEFINE Kept == managed # NoPid /\ managed' # managed /\ helper' # "down"
                      => managed \notin running
<1>1. HelperInv /\ [Next]_vars => Kept
  <2>. SUFFICES ASSUME HelperInv, [Next]_vars, managed' # managed, helper' # "down",
                       managed # NoPid
                PROVE  managed \notin running
    BY Zenon
  <2>1. \/ \E r \in Threads : ExitObserved(r)
        \/ \E r \in Threads : Adopt(r)
    BY DEF Next, Thread, vars, procVars, reqVars, Arrive, BeginShutdown,
           ShutdownRelease, Acquire, Release, GracePeriodOver, TerminateFailed,
           Verify, CheckSocket, Spawn, CoreExit, Crash, Exit, Die, Restart
  <2>2. ASSUME NEW r \in Threads, ExitObserved(r) PROVE managed \notin running
    BY <2>2 DEF ExitObserved
  <2>3. ASSUME NEW r \in Threads, Adopt(r) PROVE FALSE
    BY <2>3 DEF Adopt, HelperInv, HolderInv
  <2>. QED
    BY <2>1, <2>2, <2>3
<1>2. HelperInv /\ [Next]_vars => [Kept]_vars
  BY <1>1
<1>. QED
  BY <1>2, Inductive, PTL DEF Spec, ManagedUntilExit

\* Where a thread gives one of these answers it holds or could take the lock,
\* and neither a managed Core nor one being adopted is left.
LEMMA AnswerLeavesNoCore ==
  ASSUME HelperInv, [Next]_vars, NEW r \in Requests,
         NEW a \in {"stopped", "notRunning", "coreVerificationFailed", "processLaunchFailed"},
         Answers(r, a)
  PROVE  running' \cap confined' = {}
<1>. DEFINE NoCore == running' \cap confined' = {}
<1>. USE DEF Answers, Goto, HelperInv, TypeOK, Threads
<1>1. child = NoPid /\ managed = NoPid => running \cap confined = {}
  BY DEF CoreInv
<1>2. managed \notin running /\ child = NoPid => running \cap confined = {}
  BY DEF CoreInv
<1>3. \A q \in Threads : pc[q] \in Critical /\ pc[q] # "adopt" => child = NoPid
  BY DEF LockInv, HolderInv, Critical
<1>4. lock = NoRequest => child = NoPid
  BY DEF HolderInv
<1>5. ASSUME NEW q \in Threads, Acquire(q) PROVE NoCore
  BY <1>1, <1>4, <1>5 DEF Acquire, Finish, StopDecision, procVars
<1>6. ASSUME NEW q \in Threads, Release(q) PROVE NoCore
  BY <1>1, <1>3, <1>6, AfterReleaseCases DEF Release, Finish, procVars, Critical
<1>7. ASSUME NEW q \in Threads, ExitObserved(q) PROVE NoCore
  BY <1>2, <1>3, <1>7 DEF ExitObserved, Critical
<1>8. ASSUME NEW q \in Threads, TerminateFailed(q) PROVE NoCore
  BY <1>8 DEF TerminateFailed, Finish
<1>9. ASSUME NEW q \in Threads, Verify(q) PROVE NoCore
  BY <1>1, <1>3, <1>9 DEF Verify, Finish, procVars, HolderInv, Critical
<1>10. ASSUME NEW q \in Threads, CheckSocket(q) PROVE NoCore
  BY <1>10 DEF CheckSocket, Finish
<1>11. ASSUME NEW q \in Threads, Spawn(q) PROVE NoCore
  BY <1>1, <1>3, <1>11 DEF Spawn, Finish, HolderInv, Critical
<1>12. ASSUME NEW q \in Threads, Adopt(q) PROVE NoCore
  BY <1>12 DEF Adopt, Finish
<1>13. ASSUME NEW q \in Requests, NEW k \in {"start", "stop"}, NEW s \in Sessions,
              NEW valid \in BOOLEAN, Arrive(q, k, s, valid)
       PROVE  NoCore
  BY <1>13 DEF Arrive
<1>14. UNCHANGED reply => NoCore
  OBVIOUS
<1>. QED
  BY <1>5, <1>6, <1>7, <1>8, <1>9, <1>10, <1>11, <1>12, <1>13, <1>14
     DEF Next, Thread, BeginShutdown, ShutdownRelease, GracePeriodOver, CoreExit,
         Crash, Exit, Die, Restart, vars, reqVars

\* A stop answered `stopped` or `notRunning` leaves no Core of its session.
THEOREM StopIsConfirmed == Spec => StopConfirmsExit
<1>. DEFINE Confirmed ==
       \A r \in Requests :
         /\ Answers(r, "stopped") \/ Answers(r, "notRunning")
         /\ \E q \in Requests : reply[q] = "started" /\ session[q] = session[r]
         => \A p \in running' \cap confined' : owner[p] # session[r]
<1>1. HelperInv /\ [Next]_vars => Confirmed
  BY AnswerLeavesNoCore
<1>2. HelperInv /\ [Next]_vars => [Confirmed]_vars
  BY <1>1
<1>. QED
  BY <1>2, Inductive, PTL DEF Spec, StopConfirmsExit

\* A pre-spawn error leaves no Core of the Helper for a direct one to race.
THEOREM PreSpawnErrorIsClean == Spec => PreSpawnErrorOwnsNothing
<1>. DEFINE Clean ==
       \A r \in Requests :
         Answers(r, "coreVerificationFailed") \/ Answers(r, "processLaunchFailed")
           => running' \cap confined' = {}
<1>1. HelperInv /\ [Next]_vars => Clean
  BY AnswerLeavesNoCore
<1>2. HelperInv /\ [Next]_vars => [Clean]_vars
  BY <1>1
<1>. QED
  BY <1>2, Inductive, PTL DEF Spec, PreSpawnErrorOwnsNothing

\* On Linux no Core outlives the Helper, however the Helper ends.
THEOREM CoreEndsWithHelperOnLinux ==
  ASSUME ~JobObject
  PROVE  Spec => []CoreDiesWithHelper
<1>1. HelperInv => CoreDiesWithHelper
  BY DEF HelperInv, CgroupInv, CoreDiesWithHelper
<1>. QED
  BY <1>1, Inductive, PTL

-----------------------------------------------------------------------------
(* The server and its client                                                *)

USE FrontAssumption

LEMMA FrontStep == [FrontNext]_allVars => [Next]_vars
<1>. SUFFICES ASSUME [FrontNext]_allVars PROVE [Next]_vars
  OBVIOUS
<1>1. CASE Bind \/ AcceptError \/ RetryDelayOver
  BY <1>1 DEF Bind, AcceptError, RetryDelayOver
<1>2. ASSUME NEW r \in Requests, Submit(r) PROVE Next
  BY <1>2 DEF Submit, Next
<1>3. ASSUME NEW r \in Requests, Connect(r) \/ Accept(r) \/ Inform(r) \/ Respond(r) \/ HangUp(r)
      PROVE  UNCHANGED vars
  BY <1>3 DEF Connect, Accept, Inform, Respond, HangUp
<1>4. CASE FrontShutdown \/ FrontRelease \/ FrontEnd
  BY <1>4 DEF FrontShutdown, FrontRelease, FrontEnd, Next
<1>5. CASE Behind
  BY <1>5 DEF Behind, Next
<1>6. CASE UNCHANGED allVars
  BY <1>6 DEF allVars
<1>. QED
  BY <1>1, <1>2, <1>3, <1>4, <1>5, <1>6 DEF FrontNext

\* The server implements the specification of its threads.
THEOREM FrontImplementsService == FrontSpec => Spec
<1>1. FrontInit => Init
  BY DEF FrontInit
<1>. QED
  BY <1>1, FrontStep, PTL DEF FrontSpec, Spec

-----------------------------------------------------------------------------
\* Past the release a thread at work is one whose client has hung up.
DrainInv ==
  /\ listener \in {"unbound", "listening", "pausing", "closed"}
  /\ conn \in [Requests -> Conns]
  /\ helper = "draining" => listener = "closed"
  /\ helper = "down" => pc[Main] = "idle"
  /\ helper = "up" => pc[Main] = "idle"
  /\ pc[Main] # "idle" => Served = {}
  /\ \A r \in Requests : pc[r] \notin {"idle", "done"} => conn[r] \in {"asked", "gone"}
  /\ \A r \in Requests : pc[r] = "adopt" => owner[child] = session[r]

\* A confined Core that runs past the release was started late.
LateInv ==
  helper = "draining" /\ pc[Main] = "done" /\ reply[Main] = "released"
    => \A p \in running \cap confined :
         \E r \in Requests : kind[r] = "start" /\ session[r] = owner[p] /\ conn[r] = "gone"

\* A Core that runs outside a job is being adopted, or nobody waits for it any more.
OrphanInv ==
  /\ \A r \in Requests : reply[r] = "internalError" => pc[r] = "done"
  /\ \A p \in running \ confined : p = child \/ Disowned(p)

FrontInv == HelperInv /\ DrainInv /\ LateInv /\ OrphanInv

LEMMA DrainInit == FrontInit => DrainInv /\ LateInv /\ OrphanInv
BY HelperAssumption DEF FrontInit, Init, DrainInv, LateInv, OrphanInv, Conns, Threads, Served

\* What a step of a thread leaves alone, and where it may take the thread.
LEMMA ThreadStep ==
  ASSUME HelperInv, NEW r \in Threads, Thread(r)
  PROVE  /\ helper' = helper /\ UNCHANGED <<kind, session>>
         /\ \A q \in Threads \ {r} : pc'[q] = pc[q] /\ reply'[q] = reply[q]
         /\ pc[r] \notin {"idle", "done"} /\ pc'[r] # "idle"
<1>. USE DEF HelperInv, TypeOK, Goto, Finish, Threads
<1>1. CASE Acquire(r) BY <1>1 DEF Acquire
<1>2. CASE Release(r) BY <1>2, AfterReleaseCases DEF Release
<1>3. CASE ExitObserved(r) BY <1>3, AfterReleaseCases DEF ExitObserved
<1>4. CASE GracePeriodOver(r) BY <1>4 DEF GracePeriodOver
<1>5. CASE TerminateFailed(r) BY <1>5 DEF TerminateFailed
<1>6. CASE Verify(r) BY <1>6 DEF Verify
<1>7. CASE CheckSocket(r) BY <1>7 DEF CheckSocket
<1>8. CASE Spawn(r) BY <1>8 DEF Spawn
<1>9. CASE Adopt(r) BY <1>9 DEF Adopt
<1>. QED
  BY <1>1, <1>2, <1>3, <1>4, <1>5, <1>6, <1>7, <1>8, <1>9 DEF Thread

\* The session a child was spawned for is the session of its adopter.
LEMMA ThreadKeepsOwner ==
  ASSUME HelperInv, DrainInv, NEW r \in Threads, Thread(r)
  PROVE  \A q \in Requests : pc'[q] = "adopt" => owner'[child'] = session'[q]
<1>. USE DEF HelperInv, TypeOK, Goto, Finish, Threads, DrainInv, procVars
<1>1. CASE Spawn(r)
  <2>1. \A q \in Requests : pc[q] # "adopt"
    BY <1>1 DEF Spawn, LockInv, Critical
  <2>. QED
    BY <1>1, <2>1 DEF Spawn
<1>2. CASE Adopt(r)
  <2>1. \A q \in Requests : pc'[q] # "adopt"
    BY <1>2 DEF Adopt, LockInv, Critical
  <2>. QED
    BY <2>1
<1>3. CASE Acquire(r) BY <1>3 DEF Acquire
<1>4. CASE Release(r) BY <1>4, AfterReleaseCases DEF Release
<1>5. CASE ExitObserved(r) BY <1>5, AfterReleaseCases DEF ExitObserved
<1>6. CASE GracePeriodOver(r) BY <1>6 DEF GracePeriodOver
<1>7. CASE TerminateFailed(r) BY <1>7 DEF TerminateFailed
<1>8. CASE Verify(r) BY <1>8 DEF Verify
<1>9. CASE CheckSocket(r) BY <1>9 DEF CheckSocket
<1>. QED
  BY <1>1, <1>2, <1>3, <1>4, <1>5, <1>6, <1>7, <1>8, <1>9 DEF Thread

LEMMA DrainStep ==
  ASSUME HelperInv, DrainInv, [FrontNext]_allVars
  PROVE  DrainInv'
<1>. USE HelperAssumption DEF DrainInv, Served, Conns, SetConn, frontVars
<1>1. ASSUME NEW r \in Requests, Connect(r) \/ Accept(r) \/ Inform(r) \/ Respond(r) \/ HangUp(r)
      PROVE  DrainInv'
  <2>. USE DEF vars, reqVars, procVars
  <2>1. CASE Connect(r) BY <2>1 DEF Connect
  <2>2. CASE Accept(r)
    <3>1. helper # "draining"
      BY <2>2 DEF Accept
    <3>. QED
      BY <2>2, <3>1 DEF Accept, HelperInv, TypeOK
  <2>3. CASE Inform(r) BY <2>3 DEF Inform
  <2>4. CASE Respond(r) BY <2>4 DEF Respond
  <2>5. CASE HangUp(r) BY <2>5 DEF HangUp
  <2>. QED
    BY <1>1, <2>1, <2>2, <2>3, <2>4, <2>5
<1>2. ASSUME NEW r \in Requests, Submit(r) PROVE DrainInv'
  BY <1>2 DEF Submit, Arrive, Goto, HelperInv, TypeOK, Threads, procVars
<1>3. CASE Bind \/ AcceptError \/ RetryDelayOver
  BY <1>3 DEF Bind, AcceptError, RetryDelayOver, vars, reqVars, procVars
<1>4. CASE FrontShutdown
  BY <1>4 DEF FrontShutdown, BeginShutdown, reqVars, procVars
<1>5. CASE FrontRelease
  BY <1>5 DEF FrontRelease, ShutdownRelease, Goto, HelperInv, TypeOK, Threads, procVars
<1>6. CASE FrontEnd
  BY <1>6 DEF FrontEnd, Crash, Exit, Die, Active, Threads, HelperInv, TypeOK
<1>7. CASE Behind
  <2>1. ASSUME NEW r \in Threads, Thread(r) PROVE DrainInv'
    <3>1. /\ helper' = helper /\ UNCHANGED frontVars
          /\ \A q \in Threads \ {r} : pc'[q] = pc[q]
          /\ pc[r] \notin {"idle", "done"} /\ pc'[r] # "idle"
      BY <1>7, <2>1, ThreadStep DEF Behind, CoreExit, Restart, reqVars
    <3>2. \A q \in Requests : pc'[q] = "adopt" => owner'[child'] = session'[q]
      BY <2>1, ThreadKeepsOwner
    <3>. QED
      BY <3>1, <3>2 DEF Threads
  <2>2. ASSUME NEW p \in Pids, CoreExit(p) PROVE DrainInv'
    BY <1>7, <2>2 DEF Behind, CoreExit, reqVars
  <2>3. CASE Restart
    BY <1>7, <2>3 DEF Behind, Restart, reqVars, procVars
  <2>. QED
    BY <1>7, <2>1, <2>2, <2>3 DEF Behind
<1>8. CASE UNCHANGED allVars
  BY <1>8 DEF allVars, vars, reqVars, procVars
<1>. QED
  BY <1>1, <1>2, <1>3, <1>4, <1>5, <1>6, <1>7, <1>8 DEF FrontNext

\* A Core the step of a request leaves confined was so before, or is its own.
LEMMA ThreadCores ==
  ASSUME HelperInv, DrainInv, NEW r \in Requests, Thread(r), NEW p \in running' \cap confined'
  PROVE  \/ p \in running \cap confined /\ owner'[p] = owner[p]
         \/ kind[r] = "start" /\ session[r] = owner'[p]
<1>. USE DEF HelperInv, TypeOK, Threads, procVars
<1>1. CASE Spawn(r)
  BY <1>1 DEF Spawn, RequestInv
<1>2. CASE Adopt(r)
  <2>1. child \in Pids /\ owner[child] = session[r] /\ kind[r] = "start"
    BY <1>2 DEF Adopt, DrainInv, HolderInv, RequestInv
  <2>. QED
    BY <1>2, <2>1 DEF Adopt
<1>3. CASE Acquire(r) BY <1>3 DEF Acquire
<1>4. CASE Release(r) BY <1>4 DEF Release
<1>5. CASE ExitObserved(r) BY <1>5 DEF ExitObserved
<1>6. CASE GracePeriodOver(r) BY <1>6 DEF GracePeriodOver
<1>7. CASE TerminateFailed(r) BY <1>7 DEF TerminateFailed
<1>8. CASE Verify(r) BY <1>8 DEF Verify
<1>9. CASE CheckSocket(r) BY <1>9 DEF CheckSocket
<1>. QED
  BY <1>1, <1>2, <1>3, <1>4, <1>5, <1>6, <1>7, <1>8, <1>9 DEF Thread

\* The shutdown that answers `released` has let go of the last Core.
LEMMA MainReleased ==
  ASSUME HelperInv, Thread(Main), pc'[Main] = "done", reply'[Main] = "released"
  PROVE  running' \cap confined' = {}
<1>. USE HelperAssumption DEF HelperInv, TypeOK, Threads, procVars, Goto, Finish
<1>1. kind[Main] = "shutdown" /\ Main \in Threads
  BY DEF RequestInv
<1>2. child = NoPid /\ managed = NoPid => running \cap confined = {}
  BY DEF CoreInv
<1>3. child = NoPid /\ managed \notin running => running \cap confined = {}
  BY DEF CoreInv
<1>4. pc[Main] \in Critical /\ pc[Main] # "adopt" => child = NoPid
  BY <1>1 DEF LockInv, HolderInv, Critical
<1>5. CASE Acquire(Main) BY <1>1, <1>5 DEF Acquire
<1>6. CASE Release(Main) BY <1>1, <1>2, <1>4, <1>6 DEF Release, Critical
<1>7. CASE ExitObserved(Main) BY <1>3, <1>4, <1>7 DEF ExitObserved, Critical
<1>8. CASE TerminateFailed(Main) BY <1>1, <1>8 DEF TerminateFailed
<1>9. pc[Main] \notin {"verify", "socket", "spawn", "adopt"}
  BY <1>1 DEF RequestInv
<1>10. ~GracePeriodOver(Main)
  BY <1>1 DEF GracePeriodOver
<1>. QED
  BY <1>5, <1>6, <1>7, <1>8, <1>9, <1>10 DEF Thread, Verify, CheckSocket, Spawn, Adopt

\* The release answers `released` only with no confined Core left; whoever
\* starts one after it has hung up.
LEMMA ReleaseStep ==
  ASSUME HelperInv, DrainInv, LateInv, [FrontNext]_allVars
  PROVE  LateInv'
<1>. USE HelperAssumption DEF DrainInv, Served, Conns, SetConn, frontVars, LateInv
<1>1. ASSUME NEW r \in Requests, Connect(r) \/ Accept(r) \/ Inform(r) \/ Respond(r) \/ HangUp(r)
      PROVE  LateInv'
  <2>1. /\ UNCHANGED vars
        /\ \A q \in Requests : conn[q] = "gone" => conn'[q] = "gone"
    BY <1>1 DEF Connect, Accept, Inform, Respond, HangUp
  <2>. QED
    BY <2>1 DEF vars, reqVars, procVars
<1>2. ASSUME NEW r \in Requests, Submit(r) PROVE LateInv'
  BY <1>2 DEF Submit, Arrive, Goto, HelperInv, TypeOK, Threads, procVars
<1>3. CASE Bind \/ AcceptError \/ RetryDelayOver
  BY <1>3 DEF Bind, AcceptError, RetryDelayOver, vars, reqVars, procVars
<1>4. CASE FrontShutdown
  BY <1>4 DEF FrontShutdown, BeginShutdown, reqVars, procVars
<1>5. CASE FrontRelease
  BY <1>5 DEF FrontRelease, ShutdownRelease, Goto, HelperInv, TypeOK, Threads
<1>6. CASE FrontEnd
  BY <1>6 DEF FrontEnd, Crash, Exit, Die
<1>7. CASE Behind
  <2>1. ASSUME Thread(Main) PROVE LateInv'
    <3>1. Main \in Threads /\ kind[Main] = "shutdown"
      BY DEF Threads, HelperInv, RequestInv
    <3>2. pc'[Main] = "done" /\ reply'[Main] = "released" => running' \cap confined' = {}
      BY <2>1, <3>1, MainReleased
    <3>. QED
      BY <3>2
  <2>2. ASSUME NEW r \in Requests, Thread(r) PROVE LateInv'
    <3>. SUFFICES ASSUME helper' = "draining", pc'[Main] = "done", reply'[Main] = "released",
                         NEW p \in running' \cap confined'
                  PROVE  \E q \in Requests :
                           kind'[q] = "start" /\ session'[q] = owner'[p] /\ conn'[q] = "gone"
      OBVIOUS
    <3>1. /\ helper = "draining" /\ pc[Main] = "done" /\ reply[Main] = "released"
          /\ UNCHANGED <<kind, session, conn>>
          /\ pc[r] \notin {"idle", "done"}
      BY <1>7, <2>2, ThreadStep DEF Behind, CoreExit, Restart, reqVars, Threads
    <3>2. conn[r] = "gone"
      BY <3>1
    <3>3. \/ p \in running \cap confined /\ owner'[p] = owner[p]
          \/ kind[r] = "start" /\ session[r] = owner'[p]
      BY <2>2, ThreadCores
    <3>. QED
      BY <3>1, <3>2, <3>3
  <2>3. ASSUME NEW p \in Pids, CoreExit(p) PROVE LateInv'
    BY <1>7, <2>3 DEF Behind, CoreExit, reqVars
  <2>4. CASE Restart
    BY <1>7, <2>4 DEF Behind, Restart, reqVars, procVars
  <2>. QED
    BY <1>7, <2>1, <2>2, <2>3, <2>4 DEF Behind, Threads
<1>8. CASE UNCHANGED allVars
  BY <1>8 DEF allVars, vars, reqVars, procVars
<1>. QED
  BY <1>1, <1>2, <1>3, <1>4, <1>5, <1>6, <1>7, <1>8 DEF FrontNext

\* A Core that the step of a thread leaves outside a job is being adopted, was outside
\* before, or is the one whose job could not be bound.
LEMMA ThreadOrphans ==
  ASSUME HelperInv, DrainInv, OrphanInv, NEW r \in Threads, Thread(r)
  PROVE  /\ r \in Requests /\ reply'[r] = "internalError" => pc'[r] = "done"
         /\ \A p \in running' \ confined' :
              \/ p = child'
              \/ p \in running \ confined /\ p # child /\ owner'[p] = owner[p]
              \/ p = child /\ owner'[p] = session[r] /\ kind[r] = "start" /\ r \in Requests
                 /\ reply'[r] = "internalError"
<1>. USE DEF HelperInv, TypeOK, Goto, Finish, Threads, procVars
<1>0. pc[r] # "done" /\ (r \in Requests => reply[r] # "internalError")
  BY ThreadStep DEF OrphanInv
<1>1. CASE Spawn(r)
  <2>1. child = NoPid
    BY <1>1 DEF Spawn, LockInv, HolderInv, Critical
  <2>. QED
    BY <1>0, <1>1, <2>1 DEF Spawn
<1>2. CASE Adopt(r)
  <2>1. child \in Pids /\ kind[r] = "start" /\ r \in Requests
    BY <1>2 DEF Adopt, HolderInv, RequestInv
  <2>2. owner[child] = session[r]
    BY <1>2, <2>1 DEF Adopt, DrainInv
  <2>. QED
    BY <1>0, <1>2, <2>1, <2>2 DEF Adopt
<1>3. ASSUME pc[r] # "adopt", lock = r PROVE child = NoPid
  BY <1>3 DEF HolderInv
<1>4. CASE Acquire(r)
  BY <1>0, <1>4 DEF Acquire, StopDecision, HolderInv
<1>5. CASE Release(r) BY <1>0, <1>3, <1>5, AfterReleaseCases DEF Release, LockInv, Critical
<1>6. CASE ExitObserved(r) BY <1>0, <1>3, <1>6, AfterReleaseCases DEF ExitObserved, LockInv, Critical
<1>7. CASE GracePeriodOver(r) BY <1>0, <1>3, <1>7 DEF GracePeriodOver, LockInv, Critical
<1>8. CASE TerminateFailed(r) BY <1>0, <1>3, <1>8 DEF TerminateFailed, LockInv, Critical
<1>9. CASE Verify(r) BY <1>0, <1>3, <1>9 DEF Verify, LockInv, Critical
<1>10. CASE CheckSocket(r) BY <1>0, <1>3, <1>10 DEF CheckSocket, LockInv, Critical
<1>. QED
  BY <1>1, <1>2, <1>4, <1>5, <1>6, <1>7, <1>8, <1>9, <1>10 DEF Thread

\* Nobody begins to wait for a Core that was left outside a job: a connection that is
\* gone and a request that was answered stay so.
LEMMA OrphanStep ==
  ASSUME HelperInv, DrainInv, OrphanInv, [FrontNext]_allVars
  PROVE  OrphanInv'
<1>. USE HelperAssumption
<1>1. ASSUME NEW r \in Requests, Connect(r) \/ Accept(r) \/ Inform(r) \/ Respond(r) \/ HangUp(r)
      PROVE  OrphanInv'
  <2>1. /\ UNCHANGED vars
        /\ \A q \in Requests : conn[q] = "gone" => conn'[q] = "gone"
    BY <1>1 DEF Connect, Accept, Inform, Respond, HangUp, SetConn, DrainInv
  <2>. QED
    BY <2>1 DEF vars, reqVars, procVars, OrphanInv, Disowned
<1>2. ASSUME NEW r \in Requests, Submit(r) PROVE OrphanInv'
  <2>1. /\ UNCHANGED procVars /\ conn[r] = "open" /\ pc[r] = "idle"
        /\ \A q \in Requests \ {r} : /\ kind'[q] = kind[q] /\ session'[q] = session[q]
                                     /\ conn'[q] = conn[q] /\ reply'[q] = reply[q] /\ pc'[q] = pc[q]
        /\ reply'[r] \in {reply[r], "invalidRequest"}
    BY <1>2 DEF Submit, Arrive, Goto, SetConn, HelperInv, TypeOK, DrainInv, Threads
  <2>2. reply'[r] # "internalError"
    BY <2>1 DEF OrphanInv
  <2>. QED
    BY <2>1, <2>2 DEF OrphanInv, Disowned, procVars
<1>3. CASE Bind \/ AcceptError \/ RetryDelayOver
  BY <1>3 DEF Bind, AcceptError, RetryDelayOver, vars, reqVars, procVars, OrphanInv, Disowned
<1>4. CASE FrontShutdown
  <2>1. /\ UNCHANGED <<procVars, reqVars>>
        /\ \A q \in Requests : conn[q] = "gone" => conn'[q] = "gone"
    BY <1>4 DEF FrontShutdown, BeginShutdown, DrainInv
  <2>. QED
    BY <2>1 DEF reqVars, procVars, OrphanInv, Disowned
<1>5. CASE FrontRelease
  <2>1. /\ UNCHANGED <<procVars, kind, session, reply, conn>>
        /\ \A q \in Requests : pc'[q] = pc[q]
    BY <1>5 DEF FrontRelease, ShutdownRelease, Goto, frontVars, HelperInv, TypeOK, Threads
  <2>. QED
    BY <2>1 DEF procVars, OrphanInv, Disowned
<1>6. CASE FrontEnd
  <2>1. /\ running' \subseteq running /\ UNCHANGED <<owner, confined, kind, session, reply>>
        /\ \A q \in Requests : conn[q] = "gone" => conn'[q] = "gone"
        /\ \A q \in Requests : pc[q] = "done" => pc'[q] = "done"
        /\ \A q \in Requests : pc[q] \notin {"idle", "done"} => conn'[q] = "gone"
    BY <1>6 DEF FrontEnd, Crash, Exit, Die, Active, Threads, DrainInv, HelperInv, TypeOK
  <2>2. ASSUME NEW p \in running, p = child PROVE Disowned(p)'
    <3>1. PICK q \in Threads : pc[q] = "adopt" /\ kind[q] = "start"
      BY <2>2 DEF HelperInv, HolderInv, RequestInv, TypeOK
    <3>2. q \in Requests /\ owner[p] = session[q]
      BY <2>2, <3>1 DEF HelperInv, RequestInv, Threads, DrainInv
    <3>. QED
      BY <2>1, <3>1, <3>2 DEF Disowned
  <2>3. ASSUME NEW p \in running \ confined, p # child PROVE Disowned(p)'
    BY <2>1, <2>3 DEF OrphanInv, Disowned
  <2>. QED
    BY <2>1, <2>2, <2>3 DEF OrphanInv
<1>7. CASE Behind
  <2>1. ASSUME NEW r \in Threads, Thread(r) PROVE OrphanInv'
    <3>1. /\ UNCHANGED <<kind, session, conn>>
          /\ \A q \in Threads \ {r} : pc'[q] = pc[q] /\ reply'[q] = reply[q]
          /\ pc[r] \notin {"idle", "done"}
      BY <1>7, <2>1, ThreadStep DEF Behind, CoreExit, Restart, reqVars, frontVars
    <3>2. /\ r \in Requests /\ reply'[r] = "internalError" => pc'[r] = "done"
          /\ \A p \in running' \ confined' :
               \/ p = child'
               \/ p \in running \ confined /\ p # child /\ owner'[p] = owner[p]
               \/ p = child /\ owner'[p] = session[r] /\ kind[r] = "start" /\ r \in Requests
                  /\ reply'[r] = "internalError"
      BY <2>1, <3>1, ThreadOrphans
    <3>. QED
      BY <3>1, <3>2 DEF OrphanInv, Disowned, Threads
  <2>2. ASSUME NEW p \in Pids, CoreExit(p) PROVE OrphanInv'
    BY <1>7, <2>2 DEF Behind, CoreExit, reqVars, frontVars, OrphanInv, Disowned
  <2>3. CASE Restart
    BY <1>7, <2>3 DEF Behind, Restart, reqVars, procVars, frontVars, OrphanInv, Disowned
  <2>. QED
    BY <1>7, <2>1, <2>2, <2>3 DEF Behind
<1>8. CASE UNCHANGED allVars
  BY <1>8 DEF allVars, vars, reqVars, procVars, frontVars, OrphanInv, Disowned
<1>. QED
  BY <1>1, <1>2, <1>3, <1>4, <1>5, <1>6, <1>7, <1>8 DEF FrontNext

\* The shutdown leaves behind no Core that a client has been given: whatever still runs was
\* started late, by a Helper that died, or left outside a job and answered so.
THEOREM ShutdownReleasesForGood == FrontSpec => []ReleasedForGood
<1>1. FrontInit => FrontInv
  BY DrainInit, InitInv DEF FrontInit, FrontInv
<1>2. FrontInv /\ [FrontNext]_allVars => FrontInv'
  <2>1. HelperInv /\ [Next]_vars => HelperInv'
    BY TypeStep, LockStep, HolderStep, CoreStep, RequestStep, DownStep, CgroupStep,
       StopStep DEF HelperInv
  <2>. QED
    BY <2>1, FrontStep, DrainStep, ReleaseStep, OrphanStep DEF FrontInv
<1>3. FrontInv => ReleasedForGood
  <2>. SUFFICES ASSUME FrontInv, helper = "draining", pc[Main] = "done", reply[Main] = "released",
                       NEW p \in running
                PROVE  Disowned(p)
    BY DEF ReleasedForGood
  <2>1. CASE p \in confined
    BY <2>1 DEF FrontInv, LateInv, Disowned
  <2>2. CASE p \notin confined /\ p = child
    <3>1. PICK q \in Threads : pc[q] = "adopt" /\ kind[q] = "start"
      BY <2>2 DEF FrontInv, HelperInv, HolderInv, RequestInv, TypeOK
    <3>2. q \in Requests /\ owner[child] = session[q] /\ conn[q] \in {"asked", "gone"}
      BY <3>1 DEF FrontInv, HelperInv, RequestInv, Threads, DrainInv
    <3>3. conn[q] = "gone"
      BY <3>2 DEF FrontInv, DrainInv, Served
    <3>. QED
      BY <2>2, <3>1, <3>2, <3>3 DEF Disowned
  <2>3. CASE p \notin confined /\ p # child
    BY <2>3 DEF FrontInv, OrphanInv
  <2>. QED
    BY <2>1, <2>2, <2>3
<1>. QED
  BY <1>1, <1>2, <1>3, PTL DEF FrontSpec

\* On the server as on its threads: never two confined Cores.
COROLLARY FrontOneConfinedCore == FrontSpec => []SingleConfinedCore
BY FrontImplementsService, OneConfinedCore, PTL

-----------------------------------------------------------------------------
(* The app as the client of the server                                      *)

launchAll == <<allVars, launchVars>>

\* A thread has answered before its client can read the answer, and no thread is
\* at work for a connection without a request.
AnswerInv ==
  /\ status \in [Requests -> Replies]
  /\ \A r \in Requests : pc[r] # "done" => reply[r] = "none"
  /\ \A r \in Requests : conn[r] \in {"none", "backlog", "open", "refused"} => pc[r] = "idle"
  /\ \A r \in Requests : conn[r] = "answered" => pc[r] = "done" /\ status[r] = reply[r]
  /\ \A r \in Requests : conn[r] \in {"asked", "answered"} /\ pc[r] = "done" => reply[r] # "none"
  /\ \A r \in Requests : pc[r] = "idle" => session[r] = NoSession

\* The request in flight serves the call the app is in, the others are over; a start
\* has a session of its own, and no lease beside it.
ClientInv ==
  /\ LaunchTypeOK
  /\ Asking => sid \in Sessions
  /\ \A r \in Requests : conn[r] \in {"backlog", "open", "asked"} => r = call
  /\ call # NoRequest =>
       /\ Asking
       /\ pc[call] # "idle" =>
            session[call] = sid /\ kind[call] = (IF at = "starting" THEN "start" ELSE "stop")
  /\ at = "starting" => \A r \in Requests : session[r] = sid => r = call
  /\ at \in {"resolved", "starting", "releasing", "direct"} => lease = "none"
  /\ \A r, q \in Requests :
       kind[r] = "start" /\ kind[q] = "start" /\ session[r] = session[q]
         /\ session[r] # NoSession => r = q

\* What became of the Core of a start.
Began(r, p) == kind[r] = "start" /\ session[r] = owner[p]
BornInv ==
  \A p \in Pids : owner[p] # NoSession =>
    \E r \in Requests :
      /\ Began(r, p)
      /\ \/ pc[r] = "adopt" /\ p = child
         \/ pc[r] = "done" /\ reply[r] = "started" /\ p \in confined
         \/ pc[r] = "done" /\ reply[r] = "internalError" /\ p \notin confined
         \/ pc[r] = "done" /\ reply[r] = "none"

\* A Core of the Helper's is the one being started, the leased one, or was asked for
\* by a start that was given up.
KnownInv ==
  \A p \in running \cap (confined \cup {child}) :
    \E r \in Requests :
      /\ Began(r, p)
      /\ \/ conn[r] = "gone"
         \/ at = "starting" /\ r = call
         \/ lease = "helper" /\ session[r] = sid

\* A lease was started, and a stop that was told it is over leaves no Core of it.
LeaseInv ==
  lease = "helper" =>
    /\ sid \in Sessions
    /\ \E q \in Requests : /\ kind[q] = "start" /\ session[q] = sid
                           /\ pc[q] = "done" /\ reply[q] = "started"
    /\ \A r \in Requests :
         kind[r] = "stop" /\ session[r] = sid /\ reply[r] \in {"stopped", "notRunning"}
           => \A p \in running : owner[p] # sid

\* A start the app falls back from was answered, and before it spawned a Core.
FallbackInv ==
  /\ at = "direct" => error = "none" \/ error \in PreSpawnHelperErrors
  /\ at \in {"releasing", "direct"} /\ error \in PreSpawnHelperErrors =>
       /\ sid \in Sessions
       /\ \E q \in Requests : /\ kind[q] = "start" /\ session[q] = sid
                              /\ pc[q] = "done" /\ reply[q] = error

LaunchInv ==
  /\ FrontInv
  /\ AnswerInv
  /\ ClientInv
  /\ BornInv
  /\ KnownInv
  /\ LeaseInv
  /\ FallbackInv

-----------------------------------------------------------------------------
\* What the app does is a step of the server's clients, or nothing to them.
LEMMA LaunchStep ==
  ASSUME ClientInv, [LaunchNext]_launchAll
  PROVE  [FrontNext]_allVars
<1>1. CASE Dial
  BY <1>1 DEF Dial, FrontNext
<1>2. CASE Post
  <2>1. call \in Requests /\ sid \in Sessions
    BY <1>2 DEF Post, ClientInv, LaunchTypeOK
  <2>2. Submit(call)
    BY <1>2, <2>1 DEF Post, Submit
  <2>. QED
    BY <2>1, <2>2 DEF FrontNext
<1>3. CASE Deadline
  BY <1>3 DEF Deadline, FrontNext, ClientInv, LaunchTypeOK
<1>4. CASE Answered \/ Unreachable \/ Resolve \/ StartSession \/ LaunchDirect \/ StopLease
           \/ Probe \/ StopDirect \/ DirectExits
  BY <1>4 DEF Answered, Unreachable, Resolve, StartSession, LaunchDirect, StopLease,
              Probe, StopDirect, DirectExits
<1>5. CASE Helper
  BY <1>5 DEF Helper, FrontNext, CloseIdle
<1>6. CASE UNCHANGED launchAll
  BY <1>6 DEF launchAll
<1>. QED
  BY <1>1, <1>2, <1>3, <1>4, <1>5, <1>6 DEF LaunchNext, App

LEMMA LaunchStart == LaunchInit => LaunchInv
<1>. SUFFICES ASSUME LaunchInit PROVE LaunchInv
  OBVIOUS
<1>1. FrontInv
  BY DrainInit, InitInv DEF LaunchInit, FrontInit, FrontInv
<1>. USE HelperAssumption DEF LaunchInit, FrontInit, Init
<1>2. AnswerInv
  BY DEF AnswerInv, Threads, Replies
<1>3. ClientInv
  BY DEF ClientInv, LaunchTypeOK, Asking, Codes, Replies, Threads
<1>4. BornInv /\ KnownInv /\ LeaseInv /\ FallbackInv
  BY DEF BornInv, KnownInv, LeaseInv, FallbackInv
<1>. QED
  BY <1>1, <1>2, <1>3, <1>4 DEF LaunchInv

\* What a step of a thread does to the Cores and to its answer.
LEMMA ThreadEffect ==
  ASSUME FrontInv, AnswerInv, NEW r \in Threads, Thread(r)
  PROVE  \/ /\ UNCHANGED <<owner, confined, running, child>>
            /\ pc[r] # "adopt" /\ pc'[r] # "adopt"
            /\ \/ pc'[r] # "done" /\ reply'[r] = reply[r]
               \/ pc'[r] = "done" /\ reply'[r] \in Replies \ {"none", "started", "internalError"}
         \/ /\ r \in Requests /\ kind[r] = "start" /\ pc[r] = "spawn" /\ child = NoPid
            /\ pc' = [pc EXCEPT ![r] = "adopt"] /\ UNCHANGED reply
            /\ \E p \in Pids :
                 /\ owner[p] = NoSession /\ owner' = [owner EXCEPT ![p] = session[r]]
                 /\ child' = p /\ running' = running \cup {p}
                 /\ confined \subseteq confined' /\ confined' \subseteq confined \cup {p}
         \/ /\ r \in Requests /\ kind[r] = "start" /\ pc[r] = "adopt"
            /\ child \in Pids /\ owner[child] = session[r]
            /\ pc' = [pc EXCEPT ![r] = "done"] /\ child' = NoPid
            /\ UNCHANGED <<owner, running>>
            /\ \/ /\ reply' = [reply EXCEPT ![r] = "started"]
                  /\ confined' = confined \cup {child}
               \/ /\ reply' = [reply EXCEPT ![r] = "internalError"]
                  /\ confined' = confined /\ child \notin confined
<1>. USE DEF FrontInv, HelperInv, TypeOK, Goto, Finish, Threads, procVars
<1>1. CASE Acquire(r) BY <1>1 DEF Acquire, StopDecision, Replies
<1>2. CASE Release(r) BY <1>2, AfterReleaseCases DEF Release, Replies
<1>3. CASE ExitObserved(r) BY <1>3, AfterReleaseCases DEF ExitObserved, Replies
<1>4. CASE GracePeriodOver(r) BY <1>4 DEF GracePeriodOver
<1>5. CASE TerminateFailed(r) BY <1>5 DEF TerminateFailed, Replies
<1>6. CASE Verify(r) BY <1>6 DEF Verify, Replies
<1>7. CASE CheckSocket(r) BY <1>7 DEF CheckSocket, Replies
<1>8. CASE Spawn(r)
  <2>1. r \in Requests /\ kind[r] = "start" /\ child = NoPid
    BY <1>8 DEF Spawn, RequestInv, HolderInv, LockInv, Critical
  <2>. QED
    BY <1>8, <2>1 DEF Spawn, Replies
<1>9. CASE Adopt(r)
  <2>1. r \in Requests /\ kind[r] = "start" /\ child \in Pids /\ owner[child] = session[r]
    BY <1>9 DEF Adopt, RequestInv, HolderInv, DrainInv
  <2>. QED
    BY <1>9, <2>1 DEF Adopt, CoreInv
<1>. QED
  BY <1>1, <1>2, <1>3, <1>4, <1>5, <1>6, <1>7, <1>8, <1>9 DEF Thread

\* A leased session has no start at work, and its Core is confined.
LEMMA LeasedIsConfined ==
  ASSUME LaunchInv, lease = "helper", NEW p \in Pids, owner[p] = sid
  PROVE  p \in confined
<1>1. PICK q \in Requests : /\ kind[q] = "start" /\ session[q] = sid
                            /\ pc[q] = "done" /\ reply[q] = "started"
  BY DEF LaunchInv, LeaseInv
<1>2. sid # NoSession
  BY HelperAssumption DEF LaunchInv, LeaseInv
<1>3. PICK r \in Requests :
        /\ Began(r, p)
        /\ \/ pc[r] = "adopt"
           \/ pc[r] = "done" /\ reply[r] = "started" /\ p \in confined
           \/ pc[r] = "done" /\ reply[r] # "started"
  BY <1>2 DEF LaunchInv, BornInv
<1>4. r = q
  BY <1>1, <1>2, <1>3 DEF LaunchInv, ClientInv, Began
<1>. QED
  BY <1>1, <1>3, <1>4

\* The step of a thread, of which the front and the app see nothing yet.
LEMMA ThreadLaunch ==
  ASSUME LaunchInv, NEW r \in Threads, Thread(r), UNCHANGED <<frontVars, launchVars>>
  PROVE  AnswerInv' /\ ClientInv' /\ BornInv' /\ KnownInv' /\ LeaseInv' /\ FallbackInv'
<1>. DEFINE Quiet == /\ UNCHANGED <<owner, confined, running, child>>
                     /\ pc[r] # "adopt" /\ pc'[r] # "adopt"
                     /\ \/ pc'[r] # "done" /\ reply'[r] = reply[r]
                        \/ pc'[r] = "done" /\ reply'[r] \in Replies \ {"none", "started", "internalError"}
            Spawns(p) == /\ r \in Requests /\ kind[r] = "start" /\ pc[r] = "spawn" /\ child = NoPid
                         /\ pc' = [pc EXCEPT ![r] = "adopt"] /\ UNCHANGED reply
                         /\ owner[p] = NoSession /\ owner' = [owner EXCEPT ![p] = session[r]]
                         /\ child' = p /\ running' = running \cup {p}
                         /\ confined \subseteq confined' /\ confined' \subseteq confined \cup {p}
            Adopts == /\ r \in Requests /\ kind[r] = "start" /\ pc[r] = "adopt"
                      /\ child \in Pids /\ owner[child] = session[r]
                      /\ pc' = [pc EXCEPT ![r] = "done"] /\ child' = NoPid
                      /\ UNCHANGED <<owner, running>>
                      /\ \/ /\ reply' = [reply EXCEPT ![r] = "started"]
                            /\ confined' = confined \cup {child}
                         \/ /\ reply' = [reply EXCEPT ![r] = "internalError"]
                            /\ confined' = confined /\ child \notin confined
<1>1. Quiet \/ (\E p \in Pids : Spawns(p)) \/ Adopts
  BY ThreadEffect, Zenon DEF LaunchInv
<1>2. /\ helper' = helper /\ UNCHANGED <<kind, session>>
      /\ \A q \in Threads \ {r} : pc'[q] = pc[q] /\ reply'[q] = reply[q]
      /\ pc[r] \notin {"idle", "done"} /\ pc'[r] # "idle"
  BY ThreadStep DEF LaunchInv, FrontInv
<1>3. /\ conn' = conn /\ status' = status /\ UNCHANGED launchVars
      /\ at' = at /\ sid' = sid /\ call' = call /\ error' = error /\ lease' = lease
  BY DEF frontVars, launchVars
<1>4. /\ \A q \in Requests : pc[q] = "done" => q # r /\ pc'[q] = "done" /\ reply'[q] = reply[q]
      /\ Requests \subseteq Threads
  BY <1>2 DEF Threads
<1>5. /\ reply \in [Threads -> Replies] /\ pc \in [Threads -> Pcs]
      /\ owner \in [Pids -> Sessions \cup {NoSession}]
  BY DEF LaunchInv, FrontInv, HelperInv, TypeOK
<1>6. AnswerInv'
  <2>1. reply'[r] = "none" => pc'[r] # "done"
    BY <1>1, <1>4, <1>5 DEF LaunchInv, AnswerInv
  <2>2. r \in Requests /\ pc'[r] # "done" => reply'[r] = "none"
    BY <1>1, <1>2, <1>5 DEF LaunchInv, AnswerInv
  <2>. QED
    BY <1>2, <1>3, <1>4, <2>1, <2>2 DEF LaunchInv, AnswerInv
<1>7. ClientInv'
  <2>. USE DEF LaunchInv, ClientInv
  <2>1. LaunchTypeOK' /\ (Asking' <=> Asking)
    BY <1>3 DEF LaunchTypeOK, Asking, launchVars
  <2>2. call # NoRequest => call \in Requests /\ (pc'[call] # "idle" => pc[call] # "idle")
    BY <1>2, <1>4 DEF LaunchTypeOK
  <2>. QED
    BY <1>2, <1>3, <2>1, <2>2
<1>8. BornInv'
  <2>. SUFFICES ASSUME NEW p \in Pids, owner'[p] # NoSession
                PROVE  \E q \in Requests :
                         /\ Began(q, p)'
                         /\ \/ pc'[q] = "adopt" /\ p = child'
                            \/ pc'[q] = "done" /\ reply'[q] = "started" /\ p \in confined'
                            \/ pc'[q] = "done" /\ reply'[q] = "internalError" /\ p \notin confined'
                            \/ pc'[q] = "done" /\ reply'[q] = "none"
    BY DEF BornInv
  <2>. USE DEF Began
  <2>1. ASSUME owner[p] # NoSession
        PROVE \E q \in Requests :
                /\ Began(q, p)
                /\ \/ pc[q] = "adopt" /\ p = child
                   \/ pc[q] = "done" /\ reply[q] = "started" /\ p \in confined
                   \/ pc[q] = "done" /\ reply[q] = "internalError" /\ p \notin confined
                   \/ pc[q] = "done" /\ reply[q] = "none"
    BY <2>1 DEF LaunchInv, BornInv
  <2>2. CASE Quiet
    BY <1>2, <1>4, <2>1, <2>2
  <2>3. ASSUME NEW c \in Pids, Spawns(c)
        PROVE  \E q \in Requests :
                 /\ Began(q, p)'
                 /\ \/ pc'[q] = "adopt" /\ p = child'
                    \/ pc'[q] = "done" /\ reply'[q] = "started" /\ p \in confined'
                    \/ pc'[q] = "done" /\ reply'[q] = "internalError" /\ p \notin confined'
                    \/ pc'[q] = "done" /\ reply'[q] = "none"
    <3>1. CASE p = c
      BY <1>2, <1>4, <1>5, <2>3, <3>1
    <3>2. CASE p # c
      <4>1. owner'[p] = owner[p] /\ p # child /\ (p \in confined' <=> p \in confined)
        BY <1>5, <2>3, <3>2, HelperAssumption
      <4>. QED
        BY <1>2, <1>4, <2>1, <4>1
    <3>. QED
      BY <3>1, <3>2
  <2>4. CASE Adopts
    <3>1. CASE p = child
      BY <1>2, <1>4, <1>5, <2>4, <3>1
    <3>2. CASE p # child
      BY <1>2, <1>4, <2>1, <2>4, <3>2
    <3>. QED
      BY <3>1, <3>2
  <2>. QED
    BY <1>1, <2>2, <2>3, <2>4
<1>9. KnownInv'
  <2>. SUFFICES ASSUME NEW p \in running' \cap (confined' \cup {child'})
                PROVE  \E q \in Requests :
                         /\ Began(q, p)'
                         /\ \/ conn'[q] = "gone"
                            \/ at' = "starting" /\ q = call'
                            \/ lease' = "helper" /\ session'[q] = sid'
    BY DEF KnownInv
  <2>. USE DEF Began
  <2>1. ASSUME p \in running \cap (confined \cup {child}), owner'[p] = owner[p]
        PROVE  \E q \in Requests :
                 /\ Began(q, p)'
                 /\ \/ conn'[q] = "gone"
                    \/ at' = "starting" /\ q = call'
                    \/ lease' = "helper" /\ session'[q] = sid'
    BY <1>2, <1>3, <2>1 DEF LaunchInv, KnownInv
  <2>2. CASE Quiet
    BY <2>1, <2>2
  <2>3. ASSUME NEW c \in Pids, Spawns(c)
        PROVE  \E q \in Requests :
                 /\ Began(q, p)'
                 /\ \/ conn'[q] = "gone"
                    \/ at' = "starting" /\ q = call'
                    \/ lease' = "helper" /\ session'[q] = sid'
    <3>1. CASE p = c
      <4>1. conn[r] = "gone" \/ (r = call /\ at = "starting")
        BY <2>3, HelperAssumption DEF LaunchInv, FrontInv, DrainInv, ClientInv, LaunchTypeOK
      <4>2. owner'[p] = session[r]
        BY <1>5, <2>3, <3>1
      <4>. QED
        BY <1>2, <1>3, <2>3, <4>1, <4>2
    <3>2. CASE p # c
      BY <1>5, <2>1, <2>3, <3>2 DEF LaunchInv, FrontInv, HelperInv, TypeOK
    <3>. QED
      BY <3>1, <3>2
  <2>4. CASE Adopts
    <3>1. p \in running \cap (confined \cup {child})
      BY <2>4, HelperAssumption DEF LaunchInv, FrontInv, HelperInv, TypeOK
    <3>. QED
      BY <2>1, <2>4, <3>1
  <2>. QED
    BY <1>1, <2>2, <2>3, <2>4
<1>10. LeaseInv'
  <2>. SUFFICES ASSUME lease = "helper" PROVE LeaseInv'
    BY <1>3 DEF LeaseInv
  <2>1. PICK q \in Requests : /\ kind[q] = "start" /\ session[q] = sid
                              /\ pc[q] = "done" /\ reply[q] = "started"
    BY DEF LaunchInv, LeaseInv
  <2>2. \A s \in Requests : kind[s] = "start" /\ session[s] = sid => s = q
    BY <2>1, HelperAssumption DEF LaunchInv, LeaseInv, ClientInv
  <2>3. \A p \in Pids : p \in running' /\ owner'[p] = sid => p \in running /\ owner[p] = sid /\ p \in confined'
    <3>. SUFFICES ASSUME NEW p \in Pids, p \in running', owner'[p] = sid
                  PROVE  p \in running /\ owner[p] = sid /\ p \in confined'
      OBVIOUS
    <3>1. CASE Quiet
      BY <3>1, LeasedIsConfined
    <3>2. ASSUME NEW c \in Pids, Spawns(c) PROVE p \in running /\ owner[p] = sid /\ p \in confined'
      <4>1. p # c
        BY <1>4, <1>5, <2>1, <2>2, <3>2
      <4>. QED
        BY <1>5, <3>2, <4>1, LeasedIsConfined
    <3>3. CASE Adopts
      BY <3>3, LeasedIsConfined
    <3>. QED
      BY <1>1, <3>1, <3>2, <3>3
  <2>4. ASSUME NEW s \in Requests, kind[s] = "stop", session[s] = sid,
               reply'[s] \in {"stopped", "notRunning"}
        PROVE  \A p \in running' : owner'[p] # sid
    <3>. running' \subseteq Pids
      BY <1>1 DEF LaunchInv, FrontInv, HelperInv, TypeOK
    <3>1. CASE reply[s] = reply'[s]
      BY <2>3, <2>4, <3>1 DEF LaunchInv, LeaseInv
    <3>2. CASE reply[s] # reply'[s]
      <4>1. running' \cap confined' = {}
        <5>1. [Next]_vars
          BY DEF Next
        <5>. QED
          BY <2>4, <3>2, <5>1, AnswerLeavesNoCore DEF LaunchInv, FrontInv, Answers
      <4>. QED
        BY <2>3, <4>1
    <3>. QED
      BY <3>1, <3>2
  <2>. QED
    BY <1>2, <1>3, <1>4, <2>1, <2>4 DEF LaunchInv, LeaseInv
<1>11. FallbackInv'
  BY <1>2, <1>3, <1>4 DEF LaunchInv, FallbackInv
<1>. QED
  BY <1>6, <1>7, <1>8, <1>9, <1>10, <1>11

\* A Core exits, the Helper dies or comes back: no answer is given.
LEMMA OutsideLaunch ==
  ASSUME LaunchInv, UNCHANGED launchVars,
         \/ FrontEnd
         \/ UNCHANGED frontVars /\ (Restart \/ \E p \in Pids : CoreExit(p))
  PROVE  AnswerInv' /\ ClientInv' /\ BornInv' /\ KnownInv' /\ LeaseInv' /\ FallbackInv'
<1>1. /\ kind' = kind /\ session' = session /\ reply' = reply
      /\ owner' = owner /\ confined' = confined /\ running' \subseteq running
      /\ at' = at /\ sid' = sid /\ call' = call /\ error' = error /\ lease' = lease
      /\ \A r \in Requests : \/ conn'[r] = conn[r] /\ status'[r] = status[r]
                             \/ conn'[r] = "gone" /\ conn[r] \in {"backlog", "open", "asked"}
      /\ \A r \in Requests : conn'[r] \in {"backlog", "open", "asked"} => conn'[r] = conn[r]
      /\ status' = status
  BY DEF FrontEnd, Crash, Exit, Die, Restart, CoreExit, reqVars, procVars, frontVars, launchVars,
         LaunchInv, FrontInv, DrainInv, Conns
<1>2. /\ \A r \in Requests :
           \/ /\ pc'[r] = pc[r]
              /\ pc[r] \notin {"idle", "done"} => child' = child
           \/ pc[r] \notin {"idle", "done"} /\ pc'[r] = "done"
      /\ \/ child' = child
         \/ running' \cap confined' = {} /\ child' = NoPid
      /\ \A r \in Requests : conn'[r] = "asked" => pc'[r] = pc[r]
  <2>. USE DEF LaunchInv, FrontInv, HelperInv, TypeOK, Threads
  <2>1. CASE FrontEnd
    <3>1. /\ \A r \in Requests : pc'[r] = IF pc[r] \notin {"idle", "done"} THEN "done" ELSE pc[r]
          /\ child' = NoPid /\ running' = running \ confined /\ confined' = confined
      BY <2>1, HelperAssumption DEF FrontEnd, Crash, Exit, Die, Active
    <3>2. \A r \in Requests : conn'[r] # "asked"
      BY <2>1 DEF FrontEnd, DrainInv
    <3>. QED
      BY <3>1, <3>2
  <2>2. CASE UNCHANGED frontVars /\ (Restart \/ \E p \in Pids : CoreExit(p))
    <3>1. pc' = pc /\ child' = child
      BY <2>2 DEF Restart, CoreExit, reqVars, procVars
    <3>. QED
      BY <3>1
  <2>. QED
    BY <2>1, <2>2
<1>3. AnswerInv'
  BY <1>1, <1>2 DEF LaunchInv, AnswerInv
<1>4. ClientInv'
  <2>. USE DEF LaunchInv, ClientInv
  <2>1. LaunchTypeOK' /\ (Asking' <=> Asking)
    BY DEF LaunchTypeOK, Asking, launchVars
  <2>2. call # NoRequest => call \in Requests /\ (pc'[call] # "idle" => pc[call] # "idle")
    BY <1>2 DEF LaunchTypeOK
  <2>. QED
    BY <1>1, <2>1, <2>2
<1>5. BornInv'
  <2>. SUFFICES ASSUME NEW p \in Pids, owner[p] # NoSession
                PROVE  \E r \in Requests :
                         /\ Began(r, p)
                         /\ \/ pc'[r] = "adopt" /\ p = child'
                            \/ pc'[r] = "done" /\ reply[r] = "started" /\ p \in confined
                            \/ pc'[r] = "done" /\ reply[r] = "internalError" /\ p \notin confined
                            \/ pc'[r] = "done" /\ reply[r] = "none"
    BY <1>1 DEF BornInv, Began
  <2>1. PICK r \in Requests :
          /\ Began(r, p)
          /\ \/ pc[r] = "adopt" /\ p = child
             \/ pc[r] = "done" /\ reply[r] = "started" /\ p \in confined
             \/ pc[r] = "done" /\ reply[r] = "internalError" /\ p \notin confined
             \/ pc[r] = "done" /\ reply[r] = "none"
    BY DEF LaunchInv, BornInv
  <2>2. pc[r] # "done" => reply[r] = "none"
    BY DEF LaunchInv, AnswerInv
  <2>. QED
    BY <1>2, <2>1, <2>2
<1>6. KnownInv'
  <2>. SUFFICES ASSUME NEW p \in running' \cap (confined' \cup {child'})
                PROVE  \E r \in Requests :
                         /\ Began(r, p)
                         /\ \/ conn'[r] = "gone"
                            \/ at = "starting" /\ r = call
                            \/ lease = "helper" /\ session[r] = sid
    BY <1>1 DEF KnownInv, Began
  <2>1. p \in running \cap (confined \cup {child})
    BY <1>1, <1>2, HelperAssumption DEF LaunchInv, FrontInv, HelperInv, TypeOK
  <2>. QED
    BY <1>1, <2>1 DEF LaunchInv, KnownInv
<1>7. LeaseInv'
  BY <1>1, <1>2 DEF LaunchInv, LeaseInv
<1>8. FallbackInv'
  BY <1>1, <1>2 DEF LaunchInv, FallbackInv
<1>. QED
  BY <1>3, <1>4, <1>5, <1>6, <1>7, <1>8

\* The listener and the handlers: connections move on, and an answer goes out.
LEMMA ServerLaunch ==
  ASSUME LaunchInv, UNCHANGED launchVars,
         \/ Bind \/ AcceptError \/ RetryDelayOver \/ FrontShutdown \/ FrontRelease
         \/ \E r \in Requests : Accept(r) \/ Respond(r) \/ CloseIdle(r)
  PROVE  AnswerInv' /\ ClientInv' /\ BornInv' /\ KnownInv' /\ LeaseInv' /\ FallbackInv'
<1>1. /\ UNCHANGED <<kind, session, reply, owner, confined, running, child>>
      /\ at' = at /\ sid' = sid /\ call' = call /\ error' = error /\ lease' = lease
      /\ \A r \in Requests : pc'[r] = pc[r]
  BY HelperAssumption
     DEF Bind, AcceptError, RetryDelayOver, FrontShutdown, BeginShutdown, FrontRelease,
         ShutdownRelease, Goto, Accept, Respond, CloseIdle, HangUp, SetConn,
         vars, reqVars, procVars, launchVars, LaunchInv, FrontInv, HelperInv, TypeOK, Threads
<1>. DEFINE Moves(r) ==
       \/ conn'[r] = conn[r] /\ status'[r] = status[r]
       \/ /\ conn[r] \in {"backlog", "open"} /\ conn'[r] \in {"open", "refused", "gone"}
          /\ (conn[r] = "open" => conn'[r] = "gone") /\ status'[r] = status[r]
       \/ /\ conn[r] = "asked" /\ conn'[r] = "answered" /\ pc[r] = "done"
          /\ status'[r] = reply[r]
<1>2. (\A r \in Requests : Moves(r)) /\ status' \in [Requests -> Replies]
  <2>. conn \in [Requests -> Conns] /\ status \in [Requests -> Replies]
       /\ reply \in [Threads -> Replies] /\ Requests \subseteq Threads
    BY DEF LaunchInv, FrontInv, DrainInv, AnswerInv, HelperInv, TypeOK, Threads
  <2>1. CASE Bind \/ AcceptError \/ RetryDelayOver \/ FrontRelease
    BY <2>1 DEF Bind, AcceptError, RetryDelayOver, FrontRelease, frontVars
  <2>2. CASE FrontShutdown
    BY <2>2 DEF FrontShutdown
  <2>3. ASSUME NEW q \in Requests, Accept(q)
        PROVE  (\A r \in Requests : Moves(r)) /\ status' \in [Requests -> Replies]
    BY <2>3 DEF Accept, SetConn
  <2>4. ASSUME NEW q \in Requests, CloseIdle(q)
        PROVE  (\A r \in Requests : Moves(r)) /\ status' \in [Requests -> Replies]
    BY <2>4 DEF CloseIdle, HangUp, SetConn
  <2>5. ASSUME NEW q \in Requests, Respond(q)
        PROVE  (\A r \in Requests : Moves(r)) /\ status' \in [Requests -> Replies]
    BY <2>5 DEF Respond, SetConn
  <2>. QED
    BY <2>1, <2>2, <2>3, <2>4, <2>5
<1>3. AnswerInv'
  BY <1>1, <1>2 DEF LaunchInv, AnswerInv
<1>4. ClientInv'
  <2>. USE DEF LaunchInv, ClientInv
  <2>1. LaunchTypeOK' /\ (Asking' <=> Asking)
    BY DEF LaunchTypeOK, Asking, launchVars
  <2>2. call # NoRequest => call \in Requests
    BY DEF LaunchTypeOK
  <2>. QED
    BY <1>1, <1>2, <2>1, <2>2
<1>5. BornInv'
  BY <1>1 DEF LaunchInv, BornInv, Began
<1>6. KnownInv'
  BY <1>1, <1>2 DEF LaunchInv, KnownInv, Began
<1>7. LeaseInv' /\ FallbackInv'
  BY <1>1 DEF LaunchInv, LeaseInv, FallbackInv
<1>. QED
  BY <1>3, <1>4, <1>5, <1>6, <1>7

\* A request goes out, and its session belongs to the call the app is in.
LEMMA RequestLaunch ==
  ASSUME LaunchInv, Dial \/ Post
  PROVE  AnswerInv' /\ ClientInv' /\ BornInv' /\ KnownInv' /\ LeaseInv' /\ FallbackInv'
<1>. conn \in [Requests -> Conns] /\ Requests \subseteq Threads
     /\ kind \in [Threads -> Kinds] /\ session \in [Threads -> Sessions \cup {NoSession}]
     /\ pc \in [Threads -> Pcs]
  BY DEF LaunchInv, FrontInv, DrainInv, HelperInv, TypeOK, Threads
<1>1. CASE Dial
  <2>. PICK r \in Requests : Connect(r) /\ call' = r
    BY <1>1 DEF Dial
  <2>1. /\ UNCHANGED <<kind, session, reply, pc, owner, confined, running, child, status>>
        /\ at' = at /\ sid' = sid /\ call' = r /\ error' = error /\ lease' = lease
        /\ direct' = direct /\ Asking /\ call = NoRequest
        /\ conn[r] = "none" /\ conn' = [conn EXCEPT ![r] = "backlog"]
    BY <1>1 DEF Dial, Connect, SetConn, vars, reqVars, procVars
  <2>2. AnswerInv'
    BY <2>1 DEF LaunchInv, AnswerInv
  <2>3. ClientInv'
    <3>1. pc[r] = "idle" /\ session[r] = NoSession
      BY <2>1 DEF LaunchInv, AnswerInv
    <3>2. \A q \in Requests : conn[q] \notin {"backlog", "open", "asked"}
      BY <2>1, HelperAssumption DEF LaunchInv, ClientInv
    <3>. QED
      BY <2>1, <3>1, <3>2, HelperAssumption DEF LaunchInv, ClientInv, LaunchTypeOK, Asking
  <2>4. BornInv'
    BY <2>1 DEF LaunchInv, BornInv, Began
  <2>5. KnownInv'
    BY <2>1, HelperAssumption DEF LaunchInv, KnownInv, Began
  <2>6. LeaseInv' /\ FallbackInv'
    BY <2>1 DEF LaunchInv, LeaseInv, FallbackInv
  <2>. QED
    BY <2>2, <2>3, <2>4, <2>5, <2>6
<1>2. CASE Post
  <2>1. /\ call \in Requests /\ sid \in Sessions /\ Asking /\ conn[call] = "open"
        /\ pc[call] = "idle" /\ session[call] = NoSession
    BY <1>2 DEF Post, LaunchInv, ClientInv, LaunchTypeOK, AnswerInv
  <2>2. /\ kind' = [kind EXCEPT ![call] = IF at = "starting" THEN "start" ELSE "stop"]
        /\ session' = [session EXCEPT ![call] = sid] /\ pc' = [pc EXCEPT ![call] = "waiting"]
        /\ UNCHANGED <<reply, owner, confined, running, child, status>>
        /\ at' = at /\ sid' = sid /\ call' = call /\ error' = error /\ lease' = lease
        /\ conn' = [conn EXCEPT ![call] = "asked"]
    BY <1>2 DEF Post, Arrive, SetConn, Goto, procVars, launchVars
  <2>3. AnswerInv'
    BY <2>1, <2>2 DEF LaunchInv, AnswerInv
  <2>4. ClientInv'
    <3>1. LaunchTypeOK' /\ Asking'
      BY <1>2, <2>1 DEF Post, LaunchInv, ClientInv, LaunchTypeOK, launchVars, Asking
    <3>2. \A r \in Requests : r # call => kind'[r] = kind[r] /\ session'[r] = session[r]
      BY <2>2
    <3>3. session'[call] = sid /\ kind'[call] = IF at = "starting" THEN "start" ELSE "stop"
      BY <2>1, <2>2
    <3>4. \A r \in Requests : conn'[r] \in {"backlog", "open", "asked"} => r = call
      BY <2>1, <2>2 DEF LaunchInv, ClientInv
    <3>. QED
      BY <2>1, <2>2, <3>1, <3>2, <3>3, <3>4, HelperAssumption DEF LaunchInv, ClientInv
  <2>5. \A r \in Requests, p \in Pids :
          owner[p] # NoSession /\ Began(r, p) => Began(r, p)' /\ r # call /\ pc'[r] = pc[r]
    BY <2>1, <2>2 DEF Began
  <2>6. BornInv'
    BY <2>2, <2>5 DEF LaunchInv, BornInv
  <2>7. KnownInv'
    <3>1. \A p \in running \cap (confined \cup {child}) : p \in Pids /\ owner[p] # NoSession
      BY HelperAssumption DEF LaunchInv, FrontInv, HelperInv, TypeOK, CoreInv
    <3>. QED
      BY <2>1, <2>2, <2>5, <3>1, HelperAssumption DEF LaunchInv, KnownInv
  <2>8. LeaseInv'
    <3>1. \A r \in Requests : reply[r] # "none" => r # call
      BY <2>1 DEF LaunchInv, AnswerInv
    <3>. QED
      BY <2>1, <2>2, <3>1 DEF LaunchInv, LeaseInv
  <2>9. FallbackInv'
    BY <2>1, <2>2 DEF LaunchInv, FallbackInv
  <2>. QED
    BY <2>3, <2>4, <2>6, <2>7, <2>8, <2>9
<1>. QED
  BY <1>1, <1>2

\* A request comes to an end: the app knows the answer, or that it may not.
LEMMA ReturnLaunch ==
  ASSUME LaunchInv, Answered \/ Unreachable \/ Deadline
  PROVE  AnswerInv' /\ ClientInv' /\ BornInv' /\ KnownInv' /\ LeaseInv' /\ FallbackInv'
<1>. /\ conn \in [Requests -> Conns] /\ Requests \subseteq Threads
     /\ reply \in [Threads -> Replies] /\ status \in [Requests -> Replies]
     /\ call \in Requests \cup {NoRequest}
  BY DEF LaunchInv, FrontInv, DrainInv, HelperInv, TypeOK, Threads, AnswerInv, ClientInv, LaunchTypeOK
<1>. DEFINE Known(code) == /\ call \in Requests /\ conn[call] = "answered"
                           /\ pc[call] = "done" /\ code = reply[call] /\ code # "none"
            Lost == call = NoRequest \/ conn'[call] = "gone" \/ conn[call] = "refused"
<1>1. PICK code : /\ Return(code) /\ code \in Codes
                  /\ Known(code) \/ (code = "transportError" /\ Lost)
  <2>1. CASE Answered
    BY <2>1 DEF Answered, LaunchInv, AnswerInv, Codes
  <2>2. CASE Unreachable
    BY <2>2 DEF Unreachable, Codes, allVars, frontVars
  <2>3. CASE Deadline
    <3>1. call \in Requests /\ conn'[call] = "gone"
      BY <2>3 DEF Deadline, HangUp, SetConn
    <3>2. Return("transportError")
      BY <2>3 DEF Deadline
    <3>. QED
      BY <3>1, <3>2 DEF Codes
  <2>. QED
    BY <2>1, <2>2, <2>3
<1>2. /\ UNCHANGED <<kind, session, reply, pc, owner, confined, running, child, status>>
      /\ call' = NoRequest /\ sid' = sid /\ direct' = direct
  BY <1>1 DEF Answered, Unreachable, Deadline, HangUp, Return, allVars, frontVars, vars, reqVars, procVars
<1>3. /\ \A r \in Requests : conn'[r] = conn[r] \/ (r = call /\ conn'[r] = "gone" /\ conn[r] \in {"backlog", "open", "asked"})
      /\ call # NoRequest => conn'[call] \notin {"backlog", "open", "asked"}
  BY DEF Answered, Unreachable, Deadline, HangUp, SetConn, allVars, frontVars
<1>4. AnswerInv'
  BY <1>2, <1>3 DEF LaunchInv, AnswerInv
<1>5. /\ at' \in {"idle", "releasing", "direct", "probing"} /\ error' \in Codes
      /\ \/ at = "starting" /\ code = "started" /\ at' = "idle" /\ lease' = "helper" /\ error' = error
         \/ at = "starting" /\ code # "started" /\ at' = "releasing" /\ lease' = lease /\ error' = code
         \/ /\ at = "releasing" /\ lease' = lease /\ error' = error
            /\ at' \in {"idle", "direct"} /\ (at' = "direct" => error \in PreSpawnHelperErrors)
         \/ /\ at = "stopping" /\ at' \in {"idle", "probing"} /\ error' = error
            /\ code \in {"stopped", "notRunning"} => lease' = "none"
            /\ code \notin {"stopped", "notRunning"} => lease' = lease
  <2>1. error \in Codes
    BY DEF LaunchInv, ClientInv, LaunchTypeOK
  <2>2. CASE Started(code)
    BY <1>1, <2>1, <2>2 DEF Started
  <2>3. CASE Released
    BY <2>1, <2>3 DEF Released, MayFallBack
  <2>4. CASE Stopped(code)
    BY <2>1, <2>4 DEF Stopped
  <2>. QED
    BY <1>1, <2>2, <2>3, <2>4 DEF Return
<1>6. ClientInv'
  <2>1. LaunchTypeOK'
    BY <1>2, <1>5 DEF LaunchInv, ClientInv, LaunchTypeOK
  <2>2. Asking /\ sid \in Sessions
    BY <1>5 DEF Asking, LaunchInv, ClientInv
  <2>3. \A r \in Requests : conn'[r] \notin {"backlog", "open", "asked"}
    BY <1>3, HelperAssumption DEF LaunchInv, ClientInv
  <2>4. at' \in {"releasing", "direct"} => lease' = "none"
    BY <1>5 DEF LaunchInv, ClientInv
  <2>. QED
    BY <1>2, <1>5, <2>1, <2>2, <2>3, <2>4 DEF LaunchInv, ClientInv
<1>7. BornInv'
  BY <1>2 DEF LaunchInv, BornInv, Began
<1>8. KnownInv'
  <2>. SUFFICES ASSUME NEW p \in running \cap (confined \cup {child})
                PROVE  \E r \in Requests :
                         /\ Began(r, p)
                         /\ \/ conn'[r] = "gone"
                            \/ lease' = "helper" /\ session[r] = sid
    BY <1>2 DEF KnownInv, Began
  <2>1. PICK r \in Requests :
          /\ Began(r, p)
          /\ \/ conn[r] = "gone"
             \/ at = "starting" /\ r = call
             \/ lease = "helper" /\ session[r] = sid
    BY DEF LaunchInv, KnownInv
  <2>2. p \in Pids /\ owner[p] # NoSession
    BY HelperAssumption DEF LaunchInv, FrontInv, HelperInv, TypeOK, CoreInv
  <2>3. CASE conn[r] = "gone"
    BY <1>3, <2>1, <2>3
  <2>4. CASE at = "starting" /\ r = call
    <3>1. pc[r] # "idle" /\ session[r] = sid
      BY <2>1, <2>2, <2>4, HelperAssumption DEF Began, LaunchInv, AnswerInv, ClientInv
    <3>2. CASE conn'[call] = "gone"
      BY <2>1, <2>4, <3>2
    <3>3. CASE code = "started"
      BY <1>5, <2>1, <2>4, <3>1, <3>3
    <3>4. CASE Known(code) /\ code # "started"
      <4>1. PICK q \in Requests :
              /\ Began(q, p)
              /\ \/ pc[q] = "adopt"
                 \/ pc[q] = "done" /\ reply[q] = "started"
                 \/ pc[q] = "done" /\ reply[q] = "internalError" /\ p \notin confined
                 \/ pc[q] = "done" /\ reply[q] = "none"
        BY <2>2 DEF LaunchInv, BornInv
      <4>2. q = r
        BY <2>1, <2>2, <4>1 DEF LaunchInv, ClientInv, Began
      <4>3. p # child
        <5>1. p = child => \E s \in Requests : pc[s] = "adopt" /\ Began(s, p)
          BY <2>2, HelperAssumption
             DEF LaunchInv, FrontInv, HelperInv, HolderInv, RequestInv, DrainInv, TypeOK, Threads, Began
        <5>2. \A s \in Requests : Began(s, p) => s = r
          BY <2>1, <2>2 DEF LaunchInv, ClientInv, Began
        <5>. QED
          BY <2>4, <3>4, <5>1, <5>2
      <4>. QED
        BY <2>4, <3>4, <4>1, <4>2, <4>3
    <3>5. ~(call = NoRequest) /\ conn[call] # "refused"
      BY <2>4, <3>1, HelperAssumption DEF LaunchInv, AnswerInv
    <3>. QED
      BY <1>1, <3>2, <3>3, <3>4, <3>5
  <2>5. CASE lease = "helper" /\ session[r] = sid
    <3>1. CASE lease' = "helper"
      BY <2>1, <2>5, <3>1
    <3>2. CASE lease' # "helper"
      <4>1. at = "stopping" /\ code \in {"stopped", "notRunning"}
        BY <1>5, <2>5, <3>2 DEF LaunchInv, ClientInv
      <4>2. Known(code)
        BY <1>1, <4>1
      <4>3. kind[call] = "stop" /\ session[call] = sid
        BY <4>1, <4>2, HelperAssumption DEF LaunchInv, ClientInv
      <4>4. owner[p] # sid
        BY <2>5, <4>1, <4>2, <4>3 DEF LaunchInv, LeaseInv
      <4>. QED
        BY <2>1, <2>5, <4>4 DEF Began
    <3>. QED
      BY <3>1, <3>2
  <2>. QED
    BY <2>1, <2>3, <2>4, <2>5
<1>9. LeaseInv'
  <2>1. CASE lease = "helper"
    BY <1>2, <1>5, <2>1 DEF LaunchInv, LeaseInv
  <2>2. CASE lease # "helper" /\ lease' = "helper"
    <3>1. at = "starting" /\ code = "started" /\ Known(code)
      BY <1>1, <1>5, <2>2
    <3>2. kind[call] = "start" /\ session[call] = sid /\ sid \in Sessions
      BY <3>1, HelperAssumption DEF LaunchInv, ClientInv, Asking
    <3>3. \A r \in Requests : session[r] = sid => kind[r] # "stop"
      BY <3>1, <3>2 DEF LaunchInv, ClientInv
    <3>. QED
      BY <1>2, <3>1, <3>2, <3>3 DEF LeaseInv
  <2>. QED
    BY <2>1, <2>2 DEF LeaseInv
<1>10. FallbackInv'
  <2>1. CASE at = "starting" /\ at' = "releasing" /\ error' \in PreSpawnHelperErrors
    <3>1. error' = code /\ Known(code)
      BY <1>1, <1>5, <2>1 DEF PreSpawnHelperErrors
    <3>2. kind[call] = "start" /\ session[call] = sid /\ sid \in Sessions
      BY <2>1, <3>1, HelperAssumption DEF LaunchInv, ClientInv, Asking
    <3>. QED
      BY <1>2, <2>1, <3>1, <3>2 DEF FallbackInv
  <2>2. CASE at = "releasing"
    BY <1>2, <1>5, <2>2 DEF LaunchInv, FallbackInv
  <2>. QED
    BY <1>5, <2>1, <2>2 DEF FallbackInv
<1>. QED
  BY <1>4, <1>6, <1>7, <1>8, <1>9, <1>10

\* The calls of the lifecycle, of which the server sees nothing yet.
LEMMA LifecycleLaunch ==
  ASSUME LaunchInv,
         \/ Resolve \/ StartSession \/ LaunchDirect \/ StopLease \/ Probe \/ StopDirect
         \/ DirectExits \/ UNCHANGED launchAll
  PROVE  AnswerInv' /\ ClientInv' /\ BornInv' /\ KnownInv' /\ LeaseInv' /\ FallbackInv'
<1>1. /\ UNCHANGED <<kind, session, reply, pc, owner, confined, running, child, conn, status>>
      /\ call' = call
  BY DEF Resolve, StartSession, LaunchDirect, StopLease, Probe, StopDirect, DirectExits,
         launchAll, launchVars, allVars, frontVars, vars, reqVars, procVars
<1>2. AnswerInv' /\ BornInv'
  BY <1>1 DEF LaunchInv, AnswerInv, BornInv, Began
<1>3. CASE StartSession
  <2>1. /\ at = "resolved" /\ at' = "starting" /\ sid' \in Sessions /\ sid' # sid
        /\ \A r \in Requests : session[r] # sid'
        /\ error' = error /\ lease' = lease /\ direct' = direct
    BY <1>3 DEF StartSession, Threads
  <2>2. call = NoRequest /\ lease = "none"
    BY <2>1 DEF LaunchInv, ClientInv, Asking
  <2>3. ClientInv'
    BY <1>1, <2>1, <2>2 DEF LaunchInv, ClientInv, LaunchTypeOK, Asking
  <2>4. KnownInv'
    BY <1>1, <2>1, <2>2 DEF LaunchInv, KnownInv, Began
  <2>5. LeaseInv' /\ FallbackInv'
    BY <2>1, <2>2 DEF LeaseInv, FallbackInv
  <2>. QED
    BY <1>2, <2>3, <2>4, <2>5
<1>4. CASE Probe
  <2>1. /\ at = "probing" /\ at' = "idle" /\ sid' = sid /\ error' = error /\ direct' = direct
        /\ \/ lease' = lease
           \/ lease' = "none" /\ \A p \in running : owner[p] # sid
    BY <1>4 DEF Probe
  <2>2. call = NoRequest
    BY <2>1 DEF LaunchInv, ClientInv, Asking
  <2>3. ClientInv'
    BY <1>1, <2>1, <2>2 DEF LaunchInv, ClientInv, LaunchTypeOK, Asking
  <2>4. KnownInv'
    BY <1>1, <2>1, <2>2 DEF LaunchInv, KnownInv, Began
  <2>5. LeaseInv' /\ FallbackInv'
    BY <1>1, <2>1 DEF LaunchInv, LeaseInv, FallbackInv
  <2>. QED
    BY <1>2, <2>3, <2>4, <2>5
<1>5. CASE Resolve \/ LaunchDirect \/ StopLease \/ StopDirect \/ DirectExits \/ UNCHANGED launchAll
  <2>1. /\ sid' = sid
        /\ \/ at = "idle" /\ at' \in {"resolved", "direct"} /\ lease = "none" /\ error' = "none"
           \/ at = "direct" /\ at' = "idle" /\ lease' \in {"direct", "none"} /\ error' = error
           \/ at = "idle" /\ lease = "helper" /\ at' = "stopping" /\ error' = error
           \/ at = "idle" /\ lease = "direct" /\ at' = "idle" /\ lease' = "none" /\ error' = error
           \/ at' = at /\ lease' = lease /\ error' = error
        /\ at' = at \/ at' = "idle" \/ lease' = lease
        /\ direct' \in BOOLEAN
    BY <1>5 DEF Resolve, LaunchDirect, StopLease, StopDirect, DirectExits, launchAll, launchVars,
                LaunchInv, ClientInv, LaunchTypeOK
  <2>2. lease' = lease \/ (lease # "helper" /\ lease' \in {"direct", "none"})
    BY <1>5 DEF Resolve, LaunchDirect, StopLease, StopDirect, DirectExits, launchAll, launchVars,
                LaunchInv, ClientInv
  <2>3. ClientInv'
    <3>1. LaunchTypeOK'
      BY <1>1, <2>1, <2>2 DEF LaunchInv, ClientInv, LaunchTypeOK, Codes, Replies
    <3>2. Asking' => sid \in Sessions
      BY <2>1 DEF LaunchInv, ClientInv, LeaseInv, Asking
    <3>3. Asking => at' = at
      BY <2>1 DEF Asking
    <3>4. at' = "starting" => at = "starting"
      BY <2>1
    <3>5. at' \in {"resolved", "starting", "releasing", "direct"} => lease' = "none"
      BY <2>1, <2>2 DEF LaunchInv, ClientInv
    <3>. QED
      BY <1>1, <2>1, <3>1, <3>2, <3>3, <3>4, <3>5 DEF LaunchInv, ClientInv, Asking
  <2>4. KnownInv'
    BY <1>1, <2>1, <2>2 DEF LaunchInv, KnownInv, Began
  <2>5. LeaseInv'
    BY <1>1, <2>1, <2>2 DEF LaunchInv, LeaseInv
  <2>6. FallbackInv'
    BY <1>1, <2>1 DEF LaunchInv, FallbackInv, PreSpawnHelperErrors
  <2>. QED
    BY <1>2, <2>3, <2>4, <2>5, <2>6
<1>. QED
  BY <1>3, <1>4, <1>5

LEMMA LaunchKeeps == LaunchInv /\ [LaunchNext]_launchAll => LaunchInv'
<1>. SUFFICES ASSUME LaunchInv, [LaunchNext]_launchAll PROVE LaunchInv'
  OBVIOUS
<1>1. FrontInv'
  <2>1. [FrontNext]_allVars
    BY LaunchStep DEF LaunchInv
  <2>2. HelperInv'
    <3>. [Next]_vars
      BY <2>1, FrontStep
    <3>. QED
      BY TypeStep, LockStep, HolderStep, CoreStep, RequestStep, DownStep, CgroupStep,
         StopStep DEF HelperInv, LaunchInv, FrontInv
  <2>. QED
    BY <2>1, <2>2, DrainStep, ReleaseStep, OrphanStep DEF LaunchInv, FrontInv
<1>2. AnswerInv' /\ ClientInv' /\ BornInv' /\ KnownInv' /\ LeaseInv' /\ FallbackInv'
  <2>1. CASE Dial \/ Post
    BY <2>1, RequestLaunch
  <2>2. CASE Answered \/ Unreachable \/ Deadline
    BY <2>2, ReturnLaunch
  <2>3. CASE \/ Resolve \/ StartSession \/ LaunchDirect \/ StopLease \/ Probe \/ StopDirect
             \/ DirectExits \/ UNCHANGED launchAll
    BY <2>3, LifecycleLaunch
  <2>4. CASE Helper
    <3>1. CASE \/ Bind \/ AcceptError \/ RetryDelayOver \/ FrontShutdown \/ FrontRelease
               \/ \E r \in Requests : Accept(r) \/ Respond(r) \/ CloseIdle(r)
      BY <2>4, <3>1, ServerLaunch DEF Helper
    <3>2. CASE FrontEnd \/ Behind
      BY <2>4, <3>2, ThreadLaunch, OutsideLaunch DEF Helper, Behind
    <3>. QED
      BY <2>4, <3>1, <3>2 DEF Helper
  <2>. QED
    BY <2>1, <2>2, <2>3, <2>4 DEF LaunchNext, App
<1>. QED
  BY <1>1, <1>2 DEF LaunchInv

LEMMA LaunchInductive == LaunchSpec => []LaunchInv
BY LaunchStart, LaunchKeeps, PTL DEF LaunchSpec, launchAll

\* With the app as its client the Helper behaves as it does with any.
THEOREM LaunchImplementsFront == LaunchSpec => FrontSpec
<1>1. LaunchInit => FrontInit
  BY DEF LaunchInit
<1>2. LaunchInv /\ [LaunchNext]_launchAll => [FrontNext]_allVars
  BY LaunchStep DEF LaunchInv
<1>. QED
  BY <1>1, <1>2, LaunchInductive, PTL DEF LaunchSpec, FrontSpec, launchAll

\* A lease the app gives up as stopped has no Core left: the answer it was given
\* says so, or the operating system.
THEOREM LeaseIsOver == LaunchSpec => ConfirmedMeansExited
<1>1. ASSUME LaunchInv, [LaunchNext]_launchAll, lease = "helper", lease' = "none"
      PROVE  \A p \in running' : owner[p] # sid
  <2>1. CASE Answered \/ Unreachable \/ Deadline
    <3>1. PICK code : Stopped(code) /\ (code = "transportError" \/ (Answered /\ code = status[call]))
      BY <1>1, <2>1
         DEF Answered, Unreachable, Deadline, Return, Started, Released, LaunchInv, ClientInv
    <3>2. code \in {"stopped", "notRunning"} /\ Answered /\ code = status[call] /\ at = "stopping"
      BY <1>1, <3>1 DEF Stopped
    <3>3. call \in Requests /\ reply[call] = code /\ pc[call] # "idle"
      BY <1>1, <3>2 DEF Answered, LaunchInv, AnswerInv, ClientInv, LaunchTypeOK
    <3>4. kind[call] = "stop" /\ session[call] = sid
      BY <1>1, <3>2, <3>3, HelperAssumption DEF LaunchInv, ClientInv
    <3>5. running' = running
      BY <3>2 DEF Answered, allVars, vars, procVars
    <3>. QED
      BY <1>1, <3>2, <3>3, <3>4, <3>5 DEF LaunchInv, LeaseInv
  <2>2. CASE Probe
    BY <1>1, <2>2 DEF Probe, allVars, vars, procVars
  <2>3. CASE LaunchDirect
    BY <1>1, <2>3 DEF LaunchDirect, LaunchInv, ClientInv
  <2>4. CASE StopDirect
    BY <1>1, <2>4 DEF StopDirect
  <2>5. CASE Dial \/ Post \/ Resolve \/ StartSession \/ StopLease \/ DirectExits \/ Helper
             \/ UNCHANGED launchAll
    BY <1>1, <2>5 DEF Dial, Post, Resolve, StartSession, StopLease, DirectExits, Helper,
                      launchVars, launchAll
  <2>. QED
    BY <1>1, <2>1, <2>2, <2>3, <2>4, <2>5 DEF LaunchNext, App
<1>. DEFINE Confirms == lease = "helper" /\ lease' = "none" => \A p \in running' : owner[p] # sid
<1>2. LaunchInv /\ [LaunchNext]_launchAll => [Confirms]_launchAll
  BY <1>1
<1>. QED
  BY <1>2, LaunchInductive, PTL DEF LaunchSpec, ConfirmedMeansExited, launchAll

\* The app starts a Core of its own only beside Cores of starts it had given up.
THEOREM FallbackIsSafe == LaunchSpec => []FallbackIsAlone
<1>1. LaunchInv => FallbackIsAlone
  <2>. SUFFICES ASSUME LaunchInv, at = "direct", error # "none", NEW p \in running \cap confined
                PROVE  \E r \in Requests : /\ kind[r] = "start" /\ conn[r] = "gone"
                                           /\ session[r] = owner[p] /\ session[r] # sid
    BY DEF FallbackIsAlone
  <2>1. p \in Pids /\ owner[p] # NoSession
    BY HelperAssumption DEF LaunchInv, FrontInv, HelperInv, TypeOK, CoreInv
  <2>2. lease = "none"
    BY DEF LaunchInv, ClientInv
  <2>3. PICK r \in Requests : Began(r, p) /\ conn[r] = "gone"
    BY <2>2 DEF LaunchInv, KnownInv
  <2>4. PICK q \in Requests : /\ kind[q] = "start" /\ session[q] = sid /\ sid \in Sessions
                               /\ pc[q] = "done" /\ reply[q] \in PreSpawnHelperErrors
    BY DEF LaunchInv, FallbackInv
  <2>5. PICK s \in Requests : Began(s, p) /\ (pc[s] # "done" \/ reply[s] \notin PreSpawnHelperErrors)
    BY <2>1 DEF LaunchInv, BornInv, PreSpawnHelperErrors
  <2>6. session[r] # sid
    BY <2>1, <2>3, <2>4, <2>5, HelperAssumption DEF LaunchInv, ClientInv, Began
  <2>. QED
    BY <2>3, <2>6 DEF Began
<1>. QED
  BY <1>1, LaunchInductive, PTL

-----------------------------------------------------------------------------
USE ScmAssumption, UnitAssumption

-----------------------------------------------------------------------------
(* The installation on Windows                                              *)

Live(p) == proc[p] \notin {"none", "ended"}

\* A process that has not ended is the one the manager takes the status of, and its
\* status tells where it is; and a status other than Stopped is that of such a process.
StatusInv ==
  /\ \A p \in Procs : Live(p) => attached = p /\ record # "absent"
  /\ \A p \in Procs :
       /\ proc[p] \in {"launched", "registered"} => state = "startPending"
       /\ proc[p] = "running" => state = "running"
       /\ proc[p] \in {"draining", "released"} => state = "stopPending"
  /\ state # "stopped" => attached \in Procs /\ Live(attached)

ScmInv == ScmTypeOK /\ StatusInv

\* The manager knows of no service at first.
LEMMA ScmInitInv == ScmInit => ScmInv
<1>1. ScmInit => ScmTypeOK
  <2>. SUFFICES ASSUME ScmInit PROVE ScmTypeOK
    OBVIOUS
  <2>1. proc \in [Procs -> ProcAt] /\ stopAsked \subseteq Procs
    BY DEF ScmInit, ProcAt
  <2>2. /\ command \in [Commands -> {"install", "uninstall"}] /\ step \in [Commands -> Steps]
        /\ answer \in [Commands -> {"none", "ok", "failed"}]
    BY DEF ScmInit, Steps
  <2>3. crashes \in 0..MaxCrashes
    BY DEF ScmInit
  <2>4. /\ record \in {"absent", "present", "marked"} /\ state \in States
        /\ attached \in Procs \cup {NoProc} /\ restartDue \in BOOLEAN
    BY DEF ScmInit, States
  <2>. QED
    BY <2>1, <2>2, <2>3, <2>4 DEF ScmTypeOK
<1>2. ScmInit => StatusInv
  BY DEF ScmInit, StatusInv, Live
<1>. QED
  BY <1>1, <1>2 DEF ScmInv

\* A command that goes on or returns keeps its type.
LEMMA CommandMoves ==
  ASSUME ScmTypeOK, NEW c \in Commands,
         \/ \E s \in Steps : Continue(c, s)
         \/ \E r \in {"ok", "failed"} : CommandReturns(c, r)
         \/ UNCHANGED commandVars
  PROVE  /\ command' \in [Commands -> {"install", "uninstall"}]
         /\ step' \in [Commands -> Steps]
         /\ answer' \in [Commands -> {"none", "ok", "failed"}]
<1>1. ASSUME NEW s \in Steps, Continue(c, s)
      PROVE  step' \in [Commands -> Steps] /\ UNCHANGED <<command, answer>>
  BY <1>1 DEF ScmTypeOK, Continue
<1>2. ASSUME NEW r \in {"ok", "failed"}, CommandReturns(c, r)
      PROVE  /\ step' \in [Commands -> Steps] /\ UNCHANGED command
             /\ answer' \in [Commands -> {"none", "ok", "failed"}]
  BY <1>2 DEF ScmTypeOK, CommandReturns, Steps
<1>. QED
  BY <1>1, <1>2 DEF ScmTypeOK, commandVars

\* A process is launched only when the service is stopped, so that none lives.
LEMMA ProcessInv ==
  ASSUME ScmInv, Launch, state = "stopped", record = "present",
         UNCHANGED commandVars \/ \E c \in Commands : Continue(c, "await")
  PROVE  ScmInv'
<1>1. \A p \in Procs : ~Live(p)
  BY DEF ScmInv, StatusInv, Live, ScmTypeOK, ProcAt
<1>2. PICK p \in Procs : /\ proc' = [proc EXCEPT ![p] = "launched"] /\ attached' = p
                         /\ stopAsked' = stopAsked \ {p}
  BY DEF Launch
<1>3. /\ proc'[p] = "launched" /\ \A q \in Procs : q # p => proc'[q] \in {"none", "ended"}
      /\ proc' \in [Procs -> ProcAt]
  BY <1>1, <1>2 DEF ScmInv, ScmTypeOK, ProcAt, Live
<1>4. ScmTypeOK'
  <2>1. /\ command' \in [Commands -> {"install", "uninstall"}] /\ step' \in [Commands -> Steps]
        /\ answer' \in [Commands -> {"none", "ok", "failed"}]
    BY CommandMoves DEF ScmInv, Steps, ScmTypeOK, commandVars
  <2>. QED
    BY <1>2, <1>3, <2>1 DEF Launch, ScmInv, ScmTypeOK, States
<1>5. StatusInv'
  BY <1>2, <1>3 DEF Launch, StatusInv, Live
<1>. QED
  BY <1>4, <1>5 DEF ScmInv

\* A call that leaves the service and the manager alone.
LEMMA CommandInv ==
  ASSUME ScmInv, NEW c \in Commands, CommandStep(c) \/ CallFails(c)
  PROVE  ScmInv'
<1>. USE DEF At, Removed
<1>1. CASE UNCHANGED <<scmVars, processVars>>
  <2>1. \/ \E s \in Steps : Continue(c, s)
        \/ \E r \in {"ok", "failed"} : CommandReturns(c, r)
        \/ UNCHANGED commandVars
    BY DEF CommandStep, Open, StopRound, Delete, WaitForDeletion, Create, Configure, Start,
           AwaitRunning, Timeout, CallFails, Steps
  <2>. QED
    BY <1>1, <2>1, CommandMoves DEF ScmInv, ScmTypeOK, StatusInv, Live, scmVars, processVars
<1>2. CASE StopRound(c)
  <2>1. \/ \E s \in Steps : Continue(c, s)
        \/ UNCHANGED commandVars
    BY <1>2 DEF StopRound, Steps
  <2>2. stopAsked' \subseteq Procs
    BY <1>2 DEF StopRound, ScmInv, ScmTypeOK, StatusInv
  <2>. QED
    BY <1>2, <2>1, <2>2, CommandMoves DEF StopRound, ScmInv, ScmTypeOK, StatusInv, Live, scmVars
<1>3. CASE Delete(c)
  <2>1. \E s \in Steps : Continue(c, s)
    BY <1>3 DEF Delete, Steps
  <2>. QED
    BY <1>3, <2>1, CommandMoves DEF Delete, ScmInv, ScmTypeOK, StatusInv, Live, processVars
<1>4. CASE Create(c) /\ record = "absent"
  <2>1. \E s \in Steps : Continue(c, s)
    BY <1>4 DEF Create, Steps
  <2>2. \A p \in Procs : ~Live(p)
    BY <1>4 DEF ScmInv, StatusInv
  <2>. QED
    BY <1>4, <2>1, <2>2, CommandMoves DEF Create, ScmInv, ScmTypeOK, StatusInv, Live, processVars, States
<1>5. CASE Start(c) /\ record = "present" /\ state = "stopped"
  BY <1>5, ProcessInv DEF Start
<1>. QED
  BY <1>1, <1>2, <1>3, <1>4, <1>5
     DEF CommandStep, Open, WaitForDeletion, Create, Configure, Start, AwaitRunning, Timeout,
         CallFails, scmVars

\* A service process, whose reports count because it is the one attached.
LEMMA ProcInv ==
  ASSUME ScmInv, NEW p \in Procs, ProcStep(p) \/ ProcessDies(p)
  PROVE  ScmInv'
<1>1. PICK s \in ProcAt : proc' = [proc EXCEPT ![p] = s]
  BY DEF ProcStep, Register, Serve, StartupFails, NoticeStop, ReleaseCore, ReportStopped, ProcessExit,
         ProcessDies, Move, ProcAt
<1>2. /\ proc'[p] = s /\ \A q \in Procs : q # p => proc'[q] = proc[q]
      /\ proc' \in [Procs -> ProcAt]
  BY <1>1 DEF ScmInv, ScmTypeOK
<1>3. UNCHANGED <<record, attached, stopAsked, commandVars>>
  BY DEF ProcStep, Register, Serve, StartupFails, NoticeStop, ReleaseCore, ReportStopped, ProcessExit,
         ProcessDies, scmVars
<1>4. CASE Register(p)
  BY <1>1, <1>2, <1>3, <1>4
     DEF Register, Move, Report, ScmInv, ScmTypeOK, StatusInv, Live, States, commandVars
<1>5. CASE Serve(p)
  BY <1>1, <1>2, <1>3, <1>5
     DEF Serve, Move, Report, ScmInv, ScmTypeOK, StatusInv, Live, States, commandVars
<1>6. CASE StartupFails(p)
  BY <1>1, <1>2, <1>3, <1>6
     DEF StartupFails, Move, Report, ScmInv, ScmTypeOK, StatusInv, Live, States, commandVars
<1>7. CASE NoticeStop(p)
  BY <1>1, <1>2, <1>3, <1>7
     DEF NoticeStop, Move, Report, ScmInv, ScmTypeOK, StatusInv, Live, States, commandVars
<1>8. CASE ReleaseCore(p)
  BY <1>1, <1>2, <1>3, <1>8
     DEF ReleaseCore, Move, ScmInv, ScmTypeOK, StatusInv, Live, States, commandVars, scmVars
<1>9. CASE ReportStopped(p)
  BY <1>1, <1>2, <1>3, <1>9
     DEF ReportStopped, Move, Report, ScmInv, ScmTypeOK, StatusInv, Live, States, commandVars
<1>10. CASE ProcessExit(p)
  BY <1>1, <1>2, <1>3, <1>10
     DEF ProcessExit, Move, ScmInv, ScmTypeOK, StatusInv, Live, States, commandVars, scmVars
<1>11. CASE ProcessDies(p)
  <2>1. Live(p) /\ attached = p
    BY <1>11 DEF ProcessDies, ScmInv, StatusInv, Live
  <2>2. /\ proc'[p] = "none" /\ state' = "stopped" /\ restartDue' \in BOOLEAN
        /\ crashes' \in 0..MaxCrashes
    BY <1>11, <2>1 DEF ProcessDies, ScmInv, ScmTypeOK
  <2>3. ScmTypeOK'
    BY <1>2, <1>3, <2>2 DEF ScmInv, ScmTypeOK, States, commandVars
  <2>4. \A q \in Procs : ~Live(q)'
    BY <1>2, <2>1, <2>2 DEF ScmInv, StatusInv, Live
  <2>5. StatusInv'
    BY <2>2, <2>4 DEF StatusInv, Live
  <2>. QED
    BY <2>3, <2>5 DEF ScmInv
<1>. QED
  BY <1>4, <1>5, <1>6, <1>7, <1>8, <1>9, <1>10, <1>11 DEF ProcStep

\* The invariant is inductive.
LEMMA ScmStepInv ==
  ASSUME ScmInv, [ScmNext]_serviceVars
  PROVE  ScmInv'
<1>1. ASSUME NEW c \in Commands, NEW what \in {"install", "uninstall"}, Begin(c, what) PROVE ScmInv'
  BY <1>1 DEF Begin, ScmInv, ScmTypeOK, StatusInv, Live, scmVars, processVars, Steps
<1>2. CASE Vanish
  <2>1. \A q \in Procs : ~Live(q)
    BY <1>2 DEF Vanish, ScmInv, ScmTypeOK, StatusInv, Live, ProcAt
  <2>. QED
    BY <1>2, <2>1 DEF Vanish, ScmInv, ScmTypeOK, StatusInv, Live, processVars, commandVars
<1>3. CASE FailureRestart
  <2>1. CASE record = "present" /\ state = "stopped"
    BY <1>3, <2>1, ProcessInv DEF FailureRestart
  <2>2. CASE ~(record = "present" /\ state = "stopped")
    BY <1>3, <2>2 DEF FailureRestart, ScmInv, ScmTypeOK, StatusInv, Live, processVars, commandVars
  <2>. QED
    BY <2>1, <2>2
<1>4. CASE UNCHANGED serviceVars
  BY <1>4 DEF serviceVars, ScmInv, ScmTypeOK, StatusInv, Live, scmVars, processVars, commandVars
<1>. QED
  BY <1>1, <1>2, <1>3, <1>4, CommandInv, ProcInv DEF ScmNext

\* One Helper at a time on Windows, and the manager's status of it is true, however
\* many installers, uninstallers and crashes interleave (windows.rs:76-258).
THEOREM OneHelperOnWindows == ScmSpec => []OneHelper
<1>1. ScmInv => OneHelper
  BY DEF ScmInv, ScmTypeOK, StatusInv, OneHelper, Owns, Live, ProcAt
<1>2. ScmInv /\ [ScmNext]_serviceVars => ScmInv'
  BY ScmStepInv
<1>. QED
  BY <1>1, <1>2, ScmInitInv, PTL DEF ScmSpec

-----------------------------------------------------------------------------
(* The installation on Linux                                                *)

\* From ensure_unit_is_free_for on an install is one of an owner.
Installing == {"free", "truncate", "write", "secure", "enable", "restart"}

Reinstalls(i) == place[i] = "reload" /\ job[i] = "install"

JobInv ==
  \A i \in Installers :
    /\ place[i] \in {"check", "owner"} \cup Installing => job[i] = "install"
    /\ place[i] \in {"disable", "remove"} => job[i] = "uninstall"
    /\ place[i] \in Installing \/ Reinstalls(i) => asker[i] \in Owners

\* Where the commands have not overlapped, one is in progress, and the file and systemd
\* are where its calls have brought them.
AloneAt(i) ==
  /\ place[i] = "write" => unit = Partial
  /\ place[i] \in {"secure", "enable", "restart"} \/ Reinstalls(i) => unit = asker[i]
  /\ place[i] \in {"enable", "restart"} \/ Reinstalls(i) => secured
  /\ place[i] \in {"enable", "restart"} => loaded = asker[i]
  /\ place[i] = "restart" => enabled

AloneInv ==
  \A i \in Installers : i \in InProgress /\ alone[i] => InProgress = {i} /\ AloneAt(i)

\* And where no `disable` has failed either, a unit that is gone left no Helper behind.
CleanInv ==
  ~messy =>
    /\ \A i \in Installers : alone[i]
    /\ unit = Absent => ~enabled /\ active = Absent
    /\ \A i \in Installers : place[i] = "remove" => ~enabled /\ active = Absent
    /\ \A i \in Installers : place[i] = "reload" /\ job[i] = "uninstall" => unit = Absent

\* And where no write was cut short, the Helper that runs is that of the unit.
OwnerInv ==
  ~messy /\ ~torn =>
    /\ active # Absent => loaded = active
    /\ active # Absent => unit = active \/ (\E i \in Installers : place[i] = "write" /\ asker[i] = active)
    /\ unit = Partial => \E i \in Installers : place[i] = "write"
    /\ \A i \in Installers : place[i] = "truncate" => unit \in {Absent, asker[i]}

UnitInv == UnitTypeOK /\ JobInv /\ AloneInv /\ CleanInv /\ OwnerInv

\* No unit is installed at first.
LEMMA UnitInitInv == UnitInit => UnitInv
<1>. SUFFICES ASSUME UnitInit PROVE UnitInv
  OBVIOUS
<1>1. /\ job \in [Installers -> {"install", "uninstall"}]
      /\ asker \in [Installers -> Owners \cup {Absent}]
      /\ place \in [Installers -> Calls]
      /\ outcome \in [Installers -> {"none", "ok", "failed", "killed"}]
      /\ alone \in [Installers -> BOOLEAN]
  BY DEF UnitInit, Calls
<1>2. UnitTypeOK
  <2>1. faults \in 0..MaxFaults
    BY DEF UnitInit
  <2>2. /\ unit \in Owners \cup {Absent, Partial} /\ secured \in BOOLEAN
        /\ loaded \in Owners \cup {Absent, Partial} /\ enabled \in BOOLEAN
        /\ active \in Owners \cup {Absent} /\ messy \in BOOLEAN /\ torn \in BOOLEAN
    BY DEF UnitInit
  <2>. QED
    BY <1>1, <2>1, <2>2 DEF UnitTypeOK
<1>3. JobInv /\ AloneInv /\ CleanInv /\ OwnerInv
  BY DEF UnitInit, Reinstalls, AloneAt, JobInv, AloneInv, CleanInv, OwnerInv, Installing, InProgress
<1>. QED
  BY <1>2, <1>3 DEF UnitInv
\* A command that moves on is the only one, if it is alone, and the others stay where
\* they are.
OnlyMoves(i, to) ==
  /\ place' \in [Installers -> Calls] /\ place'[i] = to
  /\ \A j \in Installers : j # i => place'[j] = place[j] /\ (j \in InProgress => ~alone[j])
  /\ i \in InProgress' /\ alone[i] => InProgress' = {i}
  /\ (i \in InProgress' /\ alone[i] => AloneAt(i)') => AloneInv'
  /\ job' = job /\ asker' = asker /\ alone' = alone

LEMMA Moved ==
  ASSUME UnitInv, NEW i \in InProgress, NEW to \in Calls, place' = [place EXCEPT ![i] = to],
         UNCHANGED <<jobVars, alone>>
  PROVE  OnlyMoves(i, to)
<1>1. i \in Installers /\ place' \in [Installers -> Calls] /\ place'[i] = to
  BY DEF InProgress, UnitInv, UnitTypeOK
<1>2. \A j \in Installers : j # i => place'[j] = place[j]
  BY DEF UnitInv, UnitTypeOK
<1>3. \A j \in Installers : j # i /\ j \in InProgress => ~alone[j]
  BY DEF UnitInv, AloneInv
<1>4. i \in InProgress' /\ alone[i] => InProgress' = {i}
  <2>1. alone[i] => InProgress = {i}
    BY <1>1 DEF UnitInv, AloneInv
  <2>2. \A j \in Installers : j # i => (j \in InProgress' <=> j \in InProgress)
    BY <1>2 DEF InProgress
  <2>. QED
    BY <2>1, <2>2 DEF InProgress
<1>5. \A j \in Installers : j # i /\ j \in InProgress' => ~alone'[j]
  BY <1>2, <1>3 DEF InProgress
<1>6. (i \in InProgress' /\ alone[i] => AloneAt(i)') => AloneInv'
  BY <1>4, <1>5 DEF AloneInv
<1>. QED
  BY <1>1, <1>2, <1>3, <1>4, <1>6 DEF jobVars, OnlyMoves

\* A bundle that is refused leaves all as it was.
LEMMA EnsureRootOwnedInv ==
  ASSUME UnitInv, NEW i \in Installers, EnsureRootOwned(i)
  PROVE  UnitInv'
<1>1. PICK to \in {"owner", "done"} : place' = [place EXCEPT ![i] = to]
  BY DEF EnsureRootOwned, Proceed, EndCommand
<1>2. place[i] = "check" /\ i \in InProgress /\ to \in Calls /\ UNCHANGED <<jobVars, alone>>
  BY <1>1 DEF EnsureRootOwned, Proceed, InProgress, Calls, history
<1>3. OnlyMoves(i, to)
  BY <1>1, <1>2, Moved
<1>. USE DEF OnlyMoves
<1>4. UnitTypeOK'
  BY <1>1, <1>2, <1>3
     DEF EnsureRootOwned, Proceed, EndCommand, Fault, Startable, unitFile, systemd, history,
         UnitInv, UnitTypeOK
<1>5. JobInv'
  BY <1>1, <1>2, <1>3
     DEF EnsureRootOwned, Proceed, EndCommand, JobInv, Installing, Reinstalls, UnitInv,
         UnitTypeOK
<1>6. i \in InProgress' /\ alone[i] => AloneAt(i)'
  BY <1>1, <1>2, <1>3
     DEF EnsureRootOwned, Proceed, EndCommand, AloneAt, AloneInv, Reinstalls, InProgress,
         unitFile, systemd, UnitInv, UnitTypeOK, JobInv, Installing
<1>7. CleanInv'
  BY <1>1, <1>2, <1>3
     DEF EnsureRootOwned, Proceed, EndCommand, Startable, CleanInv, AloneInv, AloneAt, JobInv,
         Installing, InProgress, Reinstalls, unitFile, systemd, history, UnitInv,
         UnitTypeOK
<1>8. OwnerInv'
  BY <1>1, <1>2, <1>3
     DEF EnsureRootOwned, Proceed, EndCommand, Startable, InstalledOwner, OwnerInv, CleanInv,
         AloneInv, AloneAt, JobInv, Installing, InProgress, Reinstalls, unitFile, systemd,
         history, UnitInv, UnitTypeOK
<1>. QED
  BY <1>3, <1>4, <1>5, <1>6, <1>7, <1>8 DEF UnitInv

\* From here on an install has an owner.
LEMMA InvokingOwnerInv ==
  ASSUME UnitInv, NEW i \in Installers, InvokingOwner(i)
  PROVE  UnitInv'
<1>1. PICK to \in {"free", "done"} : place' = [place EXCEPT ![i] = to]
  BY DEF InvokingOwner, Proceed, EndCommand
<1>2. place[i] = "owner" /\ i \in InProgress /\ to \in Calls /\ UNCHANGED <<jobVars, alone>>
  BY <1>1 DEF InvokingOwner, Proceed, InProgress, Calls, history
<1>3. OnlyMoves(i, to)
  BY <1>1, <1>2, Moved
<1>. USE DEF OnlyMoves
<1>4. UnitTypeOK'
  BY <1>1, <1>2, <1>3
     DEF InvokingOwner, Proceed, EndCommand, Fault, Startable, unitFile, systemd, history,
         UnitInv, UnitTypeOK
<1>5. JobInv'
  BY <1>1, <1>2, <1>3
     DEF InvokingOwner, Proceed, EndCommand, JobInv, Installing, Reinstalls, UnitInv,
         UnitTypeOK
<1>6. i \in InProgress' /\ alone[i] => AloneAt(i)'
  BY <1>1, <1>2, <1>3
     DEF InvokingOwner, Proceed, EndCommand, AloneAt, AloneInv, Reinstalls, InProgress,
         unitFile, systemd, UnitInv, UnitTypeOK, JobInv, Installing
<1>7. CleanInv'
  BY <1>1, <1>2, <1>3
     DEF InvokingOwner, Proceed, EndCommand, Startable, CleanInv, AloneInv, AloneAt, JobInv,
         Installing, InProgress, Reinstalls, unitFile, systemd, history, UnitInv,
         UnitTypeOK
<1>8. OwnerInv'
  BY <1>1, <1>2, <1>3
     DEF InvokingOwner, Proceed, EndCommand, Startable, InstalledOwner, OwnerInv, CleanInv,
         AloneInv, AloneAt, JobInv, Installing, InProgress, Reinstalls, unitFile, systemd,
         history, UnitInv, UnitTypeOK
<1>. QED
  BY <1>3, <1>4, <1>5, <1>6, <1>7, <1>8 DEF UnitInv

\* The unit is nobody's or of the same owner.
LEMMA EnsureFreeInv ==
  ASSUME UnitInv, NEW i \in Installers, EnsureFree(i)
  PROVE  UnitInv'
<1>1. PICK to \in {"truncate", "done"} : place' = [place EXCEPT ![i] = to]
  BY DEF EnsureFree, Proceed, EndCommand
<1>2. place[i] = "free" /\ i \in InProgress /\ to \in Calls /\ UNCHANGED <<jobVars, alone>>
  BY <1>1 DEF EnsureFree, Proceed, InProgress, Calls, history
<1>3. OnlyMoves(i, to)
  BY <1>1, <1>2, Moved
<1>. USE DEF OnlyMoves
<1>4. UnitTypeOK'
  BY <1>1, <1>2, <1>3
     DEF EnsureFree, Proceed, EndCommand, Fault, Startable, unitFile, systemd, history,
         UnitInv, UnitTypeOK
<1>5. JobInv'
  BY <1>1, <1>2, <1>3
     DEF EnsureFree, Proceed, EndCommand, JobInv, Installing, Reinstalls, UnitInv, UnitTypeOK
<1>6. i \in InProgress' /\ alone[i] => AloneAt(i)'
  BY <1>1, <1>2, <1>3
     DEF EnsureFree, Proceed, EndCommand, AloneAt, AloneInv, Reinstalls, InProgress, unitFile,
         systemd, UnitInv, UnitTypeOK, JobInv, Installing
<1>7. CleanInv'
  BY <1>1, <1>2, <1>3
     DEF EnsureFree, Proceed, EndCommand, Startable, CleanInv, AloneInv, AloneAt, JobInv,
         Installing, InProgress, Reinstalls, unitFile, systemd, history, UnitInv,
         UnitTypeOK
<1>8. OwnerInv'
  BY <1>1, <1>2, <1>3
     DEF EnsureFree, Proceed, EndCommand, Startable, InstalledOwner, OwnerInv, CleanInv,
         AloneInv, AloneAt, JobInv, Installing, InProgress, Reinstalls, unitFile, systemd,
         history, UnitInv, UnitTypeOK
<1>. QED
  BY <1>3, <1>4, <1>5, <1>6, <1>7, <1>8 DEF UnitInv

\* The unit names nobody while it is written.
LEMMA TruncateInv ==
  ASSUME UnitInv, NEW i \in Installers, Truncate(i)
  PROVE  UnitInv'
<1>1. PICK to \in {"write"} : place' = [place EXCEPT ![i] = to]
  BY DEF Truncate, Proceed, EndCommand
<1>2. place[i] = "truncate" /\ i \in InProgress /\ to \in Calls /\ UNCHANGED <<jobVars, alone>>
  BY <1>1 DEF Truncate, Proceed, InProgress, Calls, history
<1>3. OnlyMoves(i, to)
  BY <1>1, <1>2, Moved
<1>. USE DEF OnlyMoves
<1>4. UnitTypeOK'
  BY <1>1, <1>2, <1>3
     DEF Truncate, Proceed, EndCommand, Fault, Startable, unitFile, systemd, history, UnitInv,
         UnitTypeOK
<1>5. JobInv'
  BY <1>1, <1>2, <1>3
     DEF Truncate, Proceed, EndCommand, JobInv, Installing, Reinstalls, UnitInv, UnitTypeOK
<1>6. i \in InProgress' /\ alone[i] => AloneAt(i)'
  BY <1>1, <1>2, <1>3
     DEF Truncate, Proceed, EndCommand, AloneAt, AloneInv, Reinstalls, InProgress, unitFile,
         systemd, UnitInv, UnitTypeOK, JobInv, Installing
<1>7. CleanInv'
  BY <1>1, <1>2, <1>3
     DEF Truncate, Proceed, EndCommand, Startable, CleanInv, AloneInv, AloneAt, JobInv,
         Installing, InProgress, Reinstalls, unitFile, systemd, history, UnitInv,
         UnitTypeOK
<1>8. OwnerInv'
  BY <1>1, <1>2, <1>3
     DEF Truncate, Proceed, EndCommand, Startable, InstalledOwner, OwnerInv, CleanInv,
         AloneInv, AloneAt, JobInv, Installing, InProgress, Reinstalls, unitFile, systemd,
         history, UnitInv, UnitTypeOK
<1>. QED
  BY <1>3, <1>4, <1>5, <1>6, <1>7, <1>8 DEF UnitInv

\* Now it names the owner.
LEMMA WriteInv ==
  ASSUME UnitInv, NEW i \in Installers, Write(i)
  PROVE  UnitInv'
<1>1. PICK to \in {"secure"} : place' = [place EXCEPT ![i] = to]
  BY DEF Write, Proceed, EndCommand
<1>2. place[i] = "write" /\ i \in InProgress /\ to \in Calls /\ UNCHANGED <<jobVars, alone>>
  BY <1>1 DEF Write, Proceed, InProgress, Calls, history
<1>3. OnlyMoves(i, to)
  BY <1>1, <1>2, Moved
<1>. USE DEF OnlyMoves
<1>4. UnitTypeOK'
  BY <1>1, <1>2, <1>3
     DEF Write, Proceed, EndCommand, Fault, Startable, unitFile, systemd, history, UnitInv,
         UnitTypeOK
<1>5. JobInv'
  BY <1>1, <1>2, <1>3
     DEF Write, Proceed, EndCommand, JobInv, Installing, Reinstalls, UnitInv, UnitTypeOK
<1>6. i \in InProgress' /\ alone[i] => AloneAt(i)'
  BY <1>1, <1>2, <1>3
     DEF Write, Proceed, EndCommand, AloneAt, AloneInv, Reinstalls, InProgress, unitFile,
         systemd, UnitInv, UnitTypeOK, JobInv, Installing
<1>7. CleanInv'
  BY <1>1, <1>2, <1>3
     DEF Write, Proceed, EndCommand, Startable, CleanInv, AloneInv, AloneAt, JobInv,
         Installing, InProgress, Reinstalls, unitFile, systemd, history, UnitInv,
         UnitTypeOK
<1>8. OwnerInv'
  BY <1>1, <1>2, <1>3
     DEF Write, Proceed, EndCommand, Startable, InstalledOwner, OwnerInv, CleanInv, AloneInv,
         AloneAt, JobInv, Installing, InProgress, Reinstalls, unitFile, systemd, history,
         UnitInv, UnitTypeOK
<1>. QED
  BY <1>3, <1>4, <1>5, <1>6, <1>7, <1>8 DEF UnitInv

\* The file of a lone command is still there.
LEMMA SecureInv ==
  ASSUME UnitInv, NEW i \in Installers, Secure(i)
  PROVE  UnitInv'
<1>1. PICK to \in {"reload", "done"} : place' = [place EXCEPT ![i] = to]
  BY DEF Secure, Proceed, EndCommand
<1>2. place[i] = "secure" /\ i \in InProgress /\ to \in Calls /\ UNCHANGED <<jobVars, alone>>
  BY <1>1 DEF Secure, Proceed, InProgress, Calls, history
<1>3. OnlyMoves(i, to)
  BY <1>1, <1>2, Moved
<1>. USE DEF OnlyMoves
<1>4. UnitTypeOK'
  BY <1>1, <1>2, <1>3
     DEF Secure, Proceed, EndCommand, Fault, Startable, unitFile, systemd, history, UnitInv,
         UnitTypeOK
<1>5. JobInv'
  BY <1>1, <1>2, <1>3
     DEF Secure, Proceed, EndCommand, JobInv, Installing, Reinstalls, UnitInv, UnitTypeOK
<1>6. i \in InProgress' /\ alone[i] => AloneAt(i)'
  BY <1>1, <1>2, <1>3
     DEF Secure, Proceed, EndCommand, AloneAt, AloneInv, Reinstalls, InProgress, unitFile,
         systemd, UnitInv, UnitTypeOK, JobInv, Installing
<1>7. CleanInv'
  BY <1>1, <1>2, <1>3
     DEF Secure, Proceed, EndCommand, Startable, CleanInv, AloneInv, AloneAt, JobInv,
         Installing, InProgress, Reinstalls, unitFile, systemd, history, UnitInv,
         UnitTypeOK
<1>8. OwnerInv'
  BY <1>1, <1>2, <1>3
     DEF Secure, Proceed, EndCommand, Startable, InstalledOwner, OwnerInv, CleanInv, AloneInv,
         AloneAt, JobInv, Installing, InProgress, Reinstalls, unitFile, systemd, history,
         UnitInv, UnitTypeOK
<1>. QED
  BY <1>3, <1>4, <1>5, <1>6, <1>7, <1>8 DEF UnitInv

\* systemd loads the owner of the file.
LEMMA ReloadInv ==
  ASSUME UnitInv, NEW i \in Installers, Reload(i)
  PROVE  UnitInv'
<1>1. PICK to \in {"enable", "done"} : place' = [place EXCEPT ![i] = to]
  BY DEF Reload, Proceed, EndCommand
<1>2. place[i] = "reload" /\ i \in InProgress /\ to \in Calls /\ UNCHANGED <<jobVars, alone>>
  BY <1>1 DEF Reload, Proceed, InProgress, Calls, history
<1>3. OnlyMoves(i, to)
  BY <1>1, <1>2, Moved
<1>. USE DEF OnlyMoves
<1>4. UnitTypeOK'
  BY <1>1, <1>2, <1>3
     DEF Reload, Proceed, EndCommand, Fault, Startable, unitFile, systemd, history, UnitInv,
         UnitTypeOK
<1>5. JobInv'
  BY <1>1, <1>2, <1>3
     DEF Reload, Proceed, EndCommand, JobInv, Installing, Reinstalls, UnitInv, UnitTypeOK
<1>6. i \in InProgress' /\ alone[i] => AloneAt(i)'
  BY <1>1, <1>2, <1>3
     DEF Reload, Proceed, EndCommand, AloneAt, AloneInv, Reinstalls, InProgress, unitFile,
         systemd, UnitInv, UnitTypeOK, JobInv, Installing
<1>7. CleanInv'
  BY <1>1, <1>2, <1>3
     DEF Reload, Proceed, EndCommand, Startable, CleanInv, AloneInv, AloneAt, JobInv,
         Installing, InProgress, Reinstalls, unitFile, systemd, history, UnitInv,
         UnitTypeOK
<1>8. OwnerInv'
  BY <1>1, <1>2, <1>3
     DEF Reload, Proceed, EndCommand, Startable, InstalledOwner, OwnerInv, CleanInv, AloneInv,
         AloneAt, JobInv, Installing, InProgress, Reinstalls, unitFile, systemd, history,
         UnitInv, UnitTypeOK
<1>. QED
  BY <1>3, <1>4, <1>5, <1>6, <1>7, <1>8 DEF UnitInv

\* The unit is there for whoever enables it.
LEMMA EnableInv ==
  ASSUME UnitInv, NEW i \in Installers, Enable(i)
  PROVE  UnitInv'
<1>1. PICK to \in {"restart", "done"} : place' = [place EXCEPT ![i] = to]
  BY DEF Enable, Proceed, EndCommand
<1>2. place[i] = "enable" /\ i \in InProgress /\ to \in Calls /\ UNCHANGED <<jobVars, alone>>
  BY <1>1 DEF Enable, Proceed, InProgress, Calls, history
<1>3. OnlyMoves(i, to)
  BY <1>1, <1>2, Moved
<1>. USE DEF OnlyMoves
<1>4. UnitTypeOK'
  BY <1>1, <1>2, <1>3
     DEF Enable, Proceed, EndCommand, Fault, Startable, unitFile, systemd, history, UnitInv,
         UnitTypeOK
<1>5. JobInv'
  BY <1>1, <1>2, <1>3
     DEF Enable, Proceed, EndCommand, JobInv, Installing, Reinstalls, UnitInv, UnitTypeOK
<1>6. i \in InProgress' /\ alone[i] => AloneAt(i)'
  BY <1>1, <1>2, <1>3
     DEF Enable, Proceed, EndCommand, AloneAt, AloneInv, Reinstalls, InProgress, unitFile,
         systemd, UnitInv, UnitTypeOK, JobInv, Installing
<1>7. CleanInv'
  BY <1>1, <1>2, <1>3
     DEF Enable, Proceed, EndCommand, Startable, CleanInv, AloneInv, AloneAt, JobInv,
         Installing, InProgress, Reinstalls, unitFile, systemd, history, UnitInv,
         UnitTypeOK
<1>8. OwnerInv'
  BY <1>1, <1>2, <1>3
     DEF Enable, Proceed, EndCommand, Startable, InstalledOwner, OwnerInv, CleanInv, AloneInv,
         AloneAt, JobInv, Installing, InProgress, Reinstalls, unitFile, systemd, history,
         UnitInv, UnitTypeOK
<1>. QED
  BY <1>3, <1>4, <1>5, <1>6, <1>7, <1>8 DEF UnitInv

\* The Helper that is started is that of the unit.
LEMMA RestartUnitInv ==
  ASSUME UnitInv, NEW i \in Installers, RestartUnit(i)
  PROVE  UnitInv'
<1>1. PICK to \in {"done"} : place' = [place EXCEPT ![i] = to]
  BY DEF RestartUnit, Proceed, EndCommand
<1>2. place[i] = "restart" /\ i \in InProgress /\ to \in Calls /\ UNCHANGED <<jobVars, alone>>
  BY <1>1 DEF RestartUnit, Proceed, InProgress, Calls, history
<1>3. OnlyMoves(i, to)
  BY <1>1, <1>2, Moved
<1>. USE DEF OnlyMoves
<1>4. UnitTypeOK'
  BY <1>1, <1>2, <1>3
     DEF RestartUnit, Proceed, EndCommand, Fault, Startable, unitFile, systemd, history,
         UnitInv, UnitTypeOK
<1>5. JobInv'
  BY <1>1, <1>2, <1>3
     DEF RestartUnit, Proceed, EndCommand, JobInv, Installing, Reinstalls, UnitInv, UnitTypeOK
<1>6. i \in InProgress' /\ alone[i] => AloneAt(i)'
  BY <1>1, <1>2, <1>3
     DEF RestartUnit, Proceed, EndCommand, AloneAt, AloneInv, Reinstalls, InProgress, unitFile,
         systemd, UnitInv, UnitTypeOK, JobInv, Installing
<1>7. CleanInv'
  BY <1>1, <1>2, <1>3
     DEF RestartUnit, Proceed, EndCommand, Startable, CleanInv, AloneInv, AloneAt, JobInv,
         Installing, InProgress, Reinstalls, unitFile, systemd, history, UnitInv,
         UnitTypeOK
<1>8. OwnerInv'
  BY <1>1, <1>2, <1>3
     DEF RestartUnit, Proceed, EndCommand, Startable, InstalledOwner, OwnerInv, CleanInv,
         AloneInv, AloneAt, JobInv, Installing, InProgress, Reinstalls, unitFile, systemd,
         history, UnitInv, UnitTypeOK
<1>. QED
  BY <1>3, <1>4, <1>5, <1>6, <1>7, <1>8 DEF UnitInv

\* A unit that is gone has no Helper to stop.
LEMMA DisableInv ==
  ASSUME UnitInv, NEW i \in Installers, Disable(i)
  PROVE  UnitInv'
<1>1. PICK to \in {"remove"} : place' = [place EXCEPT ![i] = to]
  BY DEF Disable, Proceed, EndCommand
<1>2. place[i] = "disable" /\ i \in InProgress /\ to \in Calls /\ UNCHANGED <<jobVars, alone>>
  BY <1>1 DEF Disable, Proceed, InProgress, Calls, history
<1>3. OnlyMoves(i, to)
  BY <1>1, <1>2, Moved
<1>. USE DEF OnlyMoves
<1>4. UnitTypeOK'
  BY <1>1, <1>2, <1>3
     DEF Disable, Proceed, EndCommand, Fault, Startable, unitFile, systemd, history, UnitInv,
         UnitTypeOK
<1>5. JobInv'
  BY <1>1, <1>2, <1>3
     DEF Disable, Proceed, EndCommand, JobInv, Installing, Reinstalls, UnitInv, UnitTypeOK
<1>6. i \in InProgress' /\ alone[i] => AloneAt(i)'
  BY <1>1, <1>2, <1>3
     DEF Disable, Proceed, EndCommand, AloneAt, AloneInv, Reinstalls, InProgress, unitFile,
         systemd, UnitInv, UnitTypeOK, JobInv, Installing
<1>7. CleanInv'
  BY <1>1, <1>2, <1>3
     DEF Disable, Proceed, EndCommand, Startable, CleanInv, AloneInv, AloneAt, JobInv,
         Installing, InProgress, Reinstalls, unitFile, systemd, history, UnitInv,
         UnitTypeOK
<1>8. OwnerInv'
  BY <1>1, <1>2, <1>3
     DEF Disable, Proceed, EndCommand, Startable, InstalledOwner, OwnerInv, CleanInv, AloneInv,
         AloneAt, JobInv, Installing, InProgress, Reinstalls, unitFile, systemd, history,
         UnitInv, UnitTypeOK
<1>. QED
  BY <1>3, <1>4, <1>5, <1>6, <1>7, <1>8 DEF UnitInv

\* The Helper is stopped before its unit goes.
LEMMA RemoveInv ==
  ASSUME UnitInv, NEW i \in Installers, Remove(i)
  PROVE  UnitInv'
<1>1. PICK to \in {"reload", "done"} : place' = [place EXCEPT ![i] = to]
  BY DEF Remove, Proceed, EndCommand
<1>2. place[i] = "remove" /\ i \in InProgress /\ to \in Calls /\ UNCHANGED <<jobVars, alone>>
  BY <1>1 DEF Remove, Proceed, InProgress, Calls, history
<1>3. OnlyMoves(i, to)
  BY <1>1, <1>2, Moved
<1>. USE DEF OnlyMoves
<1>4. UnitTypeOK'
  BY <1>1, <1>2, <1>3
     DEF Remove, Proceed, EndCommand, Fault, Startable, unitFile, systemd, history, UnitInv,
         UnitTypeOK
<1>5. JobInv'
  BY <1>1, <1>2, <1>3
     DEF Remove, Proceed, EndCommand, JobInv, Installing, Reinstalls, UnitInv, UnitTypeOK
<1>6. i \in InProgress' /\ alone[i] => AloneAt(i)'
  BY <1>1, <1>2, <1>3
     DEF Remove, Proceed, EndCommand, AloneAt, AloneInv, Reinstalls, InProgress, unitFile,
         systemd, UnitInv, UnitTypeOK, JobInv, Installing
<1>7. CleanInv'
  BY <1>1, <1>2, <1>3
     DEF Remove, Proceed, EndCommand, Startable, CleanInv, AloneInv, AloneAt, JobInv,
         Installing, InProgress, Reinstalls, unitFile, systemd, history, UnitInv,
         UnitTypeOK
<1>8. OwnerInv'
  BY <1>1, <1>2, <1>3
     DEF Remove, Proceed, EndCommand, Startable, InstalledOwner, OwnerInv, CleanInv, AloneInv,
         AloneAt, JobInv, Installing, InProgress, Reinstalls, unitFile, systemd, history,
         UnitInv, UnitTypeOK
<1>. QED
  BY <1>3, <1>4, <1>5, <1>6, <1>7, <1>8 DEF UnitInv

\* After this nothing is promised of an uninstall.
LEMMA DisableFailsInv ==
  ASSUME UnitInv, NEW i \in Installers, DisableFails(i)
  PROVE  UnitInv'
<1>1. PICK to \in {"remove"} : place' = [place EXCEPT ![i] = to]
  BY DEF DisableFails, Proceed, EndCommand
<1>2. place[i] = "disable" /\ i \in InProgress /\ to \in Calls /\ UNCHANGED <<jobVars, alone>>
  BY <1>1 DEF DisableFails, Proceed, InProgress, Calls, history
<1>3. OnlyMoves(i, to)
  BY <1>1, <1>2, Moved
<1>. USE DEF OnlyMoves
<1>4. UnitTypeOK'
  BY <1>1, <1>2, <1>3
     DEF DisableFails, Proceed, EndCommand, Fault, Startable, unitFile, systemd, history,
         UnitInv, UnitTypeOK
<1>5. JobInv'
  BY <1>1, <1>2, <1>3
     DEF DisableFails, Proceed, EndCommand, JobInv, Installing, Reinstalls, UnitInv, UnitTypeOK
<1>6. i \in InProgress' /\ alone[i] => AloneAt(i)'
  BY <1>1, <1>2, <1>3
     DEF DisableFails, Proceed, EndCommand, AloneAt, AloneInv, Reinstalls, InProgress,
         unitFile, systemd, UnitInv, UnitTypeOK, JobInv, Installing
<1>7. CleanInv'
  BY <1>1, <1>2, <1>3
     DEF DisableFails, Proceed, EndCommand, Startable, CleanInv, AloneInv, AloneAt, JobInv,
         Installing, InProgress, Reinstalls, unitFile, systemd, history, UnitInv,
         UnitTypeOK
<1>8. OwnerInv'
  BY <1>1, <1>2, <1>3
     DEF DisableFails, Proceed, EndCommand, Startable, InstalledOwner, OwnerInv, CleanInv,
         AloneInv, AloneAt, JobInv, Installing, InProgress, Reinstalls, unitFile, systemd,
         history, UnitInv, UnitTypeOK
<1>. QED
  BY <1>3, <1>4, <1>5, <1>6, <1>7, <1>8 DEF UnitInv

\* A restart nobody waits for starts the owner it was asked for.
LEMMA CallFaultInv ==
  ASSUME UnitInv, NEW i \in Installers, CallFault(i)
  PROVE  UnitInv'
<1>1. PICK to \in {"done"} : place' = [place EXCEPT ![i] = to]
  BY DEF CallFault, Proceed, EndCommand
<1>2. i \in InProgress /\ to \in Calls /\ UNCHANGED <<jobVars, alone>>
  BY <1>1 DEF CallFault, Proceed, InProgress, Calls, history
<1>3. OnlyMoves(i, to)
  BY <1>1, <1>2, Moved
<1>. USE DEF OnlyMoves
<1>4. UnitTypeOK'
  BY <1>1, <1>2, <1>3
     DEF CallFault, Proceed, EndCommand, Fault, Startable, unitFile, systemd, history, UnitInv,
         UnitTypeOK
<1>5. JobInv'
  BY <1>1, <1>2, <1>3
     DEF CallFault, Proceed, EndCommand, JobInv, Installing, Reinstalls, UnitInv, UnitTypeOK
<1>6. i \in InProgress' /\ alone[i] => AloneAt(i)'
  BY <1>1, <1>2, <1>3
     DEF CallFault, Proceed, EndCommand, AloneAt, AloneInv, Reinstalls, InProgress, unitFile,
         systemd, UnitInv, UnitTypeOK, JobInv, Installing
<1>7. CleanInv'
  BY <1>1, <1>2, <1>3
     DEF CallFault, Proceed, EndCommand, Startable, CleanInv, AloneInv, AloneAt, JobInv,
         Installing, InProgress, Reinstalls, unitFile, systemd, history, UnitInv,
         UnitTypeOK
<1>8. OwnerInv'
  BY <1>1, <1>2, <1>3
     DEF CallFault, Proceed, EndCommand, Startable, InstalledOwner, OwnerInv, CleanInv,
         AloneInv, AloneAt, JobInv, Installing, InProgress, Reinstalls, unitFile, systemd,
         history, UnitInv, UnitTypeOK
<1>. QED
  BY <1>3, <1>4, <1>5, <1>6, <1>7, <1>8 DEF UnitInv

\* A command begins beside those in progress, or alone.
LEMMA AskInv ==
  ASSUME UnitInv, NEW i \in Installers, NEW what \in {"install", "uninstall"},
         NEW o \in Owners \cup {Absent}, Ask(i, what, o)
  PROVE  UnitInv'
<1>1. /\ place'[i] = (IF what = "install" THEN "check" ELSE "disable")
      /\ job'[i] = what /\ i \notin InProgress
      /\ alone'[i] = (InProgress = {})
      /\ \A j \in Installers : j # i =>
           /\ place'[j] = place[j] /\ job'[j] = job[j] /\ asker'[j] = asker[j]
           /\ alone'[j] = (alone[j] /\ j \notin InProgress)
      /\ UNCHANGED <<unit, secured, loaded, enabled, active, torn>>
  BY DEF Ask, UnitInv, UnitTypeOK, unitFile, systemd
<1>2. UnitTypeOK'
  BY DEF Ask, Calls, UnitInv, UnitTypeOK, unitFile, systemd
<1>3. JobInv'
  BY <1>1 DEF UnitInv, JobInv, Installing, Reinstalls
<1>4. AloneInv'
  <2>1. \A j \in Installers : j # i => j \notin InProgress' \/ ~alone'[j]
    BY <1>1 DEF InProgress
  <2>2. alone'[i] => InProgress' = {i} /\ AloneAt(i)'
    <3>1. alone'[i] => InProgress' \subseteq {i}
      BY <1>1 DEF InProgress
    <3>2. i \in InProgress' /\ AloneAt(i)'
      BY <1>1 DEF InProgress, AloneAt, Reinstalls
    <3>. QED
      BY <3>1, <3>2
  <2>. QED
    BY <2>1, <2>2 DEF AloneInv
<1>5. messy' = (messy \/ InProgress # {})
  BY DEF Ask
<1>6. CleanInv'
  BY <1>1, <1>5 DEF UnitInv, CleanInv, InProgress, UnitTypeOK
<1>7. OwnerInv'
  BY <1>1, <1>5 DEF UnitInv, OwnerInv, InProgress, UnitTypeOK
<1>. QED
  BY <1>2, <1>3, <1>4, <1>6, <1>7 DEF UnitInv

\* systemd starts a Helper that died as the one it has loaded.
LEMMA CrashInv ==
  ASSUME UnitInv, HelperCrashes
  PROVE  UnitInv'
<1>1. UNCHANGED <<unit, secured, loaded, enabled, place, job, asker, outcome, alone, messy, torn>>
  BY DEF HelperCrashes, unitFile, jobVars, runVars, history
<1>2. active # Absent /\ active' \in {Absent, loaded} /\ active' \in Owners \cup {Absent}
  BY DEF HelperCrashes, Startable
<1>3. UnitTypeOK'
  BY <1>1, <1>2 DEF HelperCrashes, Fault, UnitInv, UnitTypeOK
<1>4. JobInv' /\ AloneInv'
  BY <1>1 DEF UnitInv, JobInv, AloneInv, AloneAt, Reinstalls, InProgress
<1>5. CleanInv' /\ OwnerInv'
  BY <1>1, <1>2 DEF UnitInv, CleanInv, OwnerInv, Reinstalls
<1>. QED
  BY <1>3, <1>4, <1>5 DEF UnitInv

\* The invariant is inductive.
LEMMA UnitStepInv ==
  ASSUME UnitInv, [UnitNext]_unitVars
  PROVE  UnitInv'
<1>1. CASE UNCHANGED unitVars
  BY <1>1 DEF unitVars, unitFile, systemd, jobVars, runVars, history, UnitInv, UnitTypeOK, JobInv,
              AloneInv, AloneAt, CleanInv, OwnerInv, Reinstalls, InProgress
<1>2. ASSUME NEW i \in Installers, UnitStep(i) \/ DisableFails(i) \/ CallFault(i)
      PROVE  UnitInv'
  BY <1>2, EnsureRootOwnedInv, InvokingOwnerInv, EnsureFreeInv, TruncateInv, WriteInv, SecureInv,
     ReloadInv, EnableInv, RestartUnitInv, DisableInv, RemoveInv, DisableFailsInv, CallFaultInv
     DEF UnitStep
<1>. QED
  BY <1>1, <1>2, AskInv, CrashInv DEF UnitNext

\* A lone command finds the file and systemd as its own calls left them.
THEOREM UnitInductive == UnitSpec => []UnitInv
<1>1. UnitInv /\ [UnitNext]_unitVars => UnitInv'
  BY UnitStepInv
<1>. QED
  BY <1>1, UnitInitInv, PTL DEF UnitSpec

\* What ends a command well.
LEMMA EndsWell ==
  ASSUME UnitInv, [UnitNext]_unitVars, NEW i \in Installers, outcome[i] = "none", outcome'[i] = "ok"
  PROVE  \/ RestartUnit(i) /\ loaded \in Owners
         \/ Reload(i) /\ job[i] = "uninstall"
         \/ Remove(i) /\ unit = Absent
<1>1. ~UNCHANGED outcome
  OBVIOUS
<1>2. ASSUME NEW j \in Installers, UnitStep(j) \/ DisableFails(j) \/ CallFault(j)
      PROVE  /\ j = i
             /\ \/ RestartUnit(i) /\ loaded \in Owners
                \/ Reload(i) /\ job[i] = "uninstall"
                \/ Remove(i) /\ unit = Absent
  <2>1. PICK r : outcome' = [outcome EXCEPT ![j] = r] /\ EndCommand(j, r)
    BY <1>1, <1>2 DEF UnitStep, EnsureRootOwned, InvokingOwner, EnsureFree, Truncate, Write, Secure,
          Reload, Enable, RestartUnit, Disable, Remove, DisableFails, CallFault, Proceed, EndCommand
  <2>2. j = i /\ r = "ok"
    BY <2>1 DEF UnitInv, UnitTypeOK
  <2>3. outcome'[j] = "ok" /\ job[j] \in {"install", "uninstall"}
    BY <2>2 DEF UnitInv, UnitTypeOK
  <2>4. RestartUnit(j) \/ Reload(j) \/ Remove(j)
    BY <1>1, <1>2, <2>3 DEF UnitStep, EnsureRootOwned, InvokingOwner, EnsureFree, Truncate, Write, Secure,
          Enable, Disable, DisableFails, CallFault, Proceed, EndCommand, UnitInv, UnitTypeOK
  <2>. QED
    BY <1>1, <2>2, <2>3, <2>4 DEF RestartUnit, Reload, Remove, Proceed, EndCommand, UnitInv, UnitTypeOK
<1>3. ASSUME NEW j \in Installers, NEW what \in {"install", "uninstall"},
             NEW o \in Owners \cup {Absent}, Ask(j, what, o)
      PROVE  FALSE
  BY <1>3 DEF Ask, UnitInv, UnitTypeOK
<1>4. ~HelperCrashes
  BY <1>1 DEF HelperCrashes, runVars
<1>. QED
  BY <1>1, <1>2, <1>3, <1>4 DEF UnitNext, unitVars, runVars

\* A command that ended well has done what it says, whatever the commands before it have
\* left half done (linux.rs:72-330).
THEOREM OkTellsTheTruth == UnitSpec => OkIsTrue
<1>1. ASSUME UnitInv, [UnitNext]_unitVars, NEW i \in Installers,
             outcome[i] = "none", outcome'[i] = "ok"
      PROVE  /\ job[i] = "install" /\ alone[i] => Installed(asker[i])'
             /\ job[i] = "uninstall" /\ ~messy => Gone'
  <2>1. CASE RestartUnit(i) /\ loaded \in Owners
    BY <1>1, <2>1 DEF RestartUnit, Installed, UnitInv, JobInv, AloneInv, AloneAt, InProgress, Installing,
          unitFile, jobVars
  <2>2. CASE Reload(i) /\ job[i] = "uninstall"
    BY <1>1, <2>2 DEF Reload, Gone, UnitInv, CleanInv, unitFile, jobVars
  <2>3. CASE Remove(i) /\ unit = Absent
    BY <1>1, <2>3 DEF Remove, Proceed, EndCommand, Gone, UnitInv, CleanInv, JobInv, systemd
  <2>. QED
    BY <1>1, <2>1, <2>2, <2>3, EndsWell
<1>2. UnitInv /\ [UnitNext]_unitVars =>
        [\A i \in Installers : outcome[i] = "none" /\ outcome'[i] = "ok" =>
           /\ job[i] = "install" /\ alone[i] => Installed(asker[i])'
           /\ job[i] = "uninstall" /\ ~messy => Gone']_unitVars
  BY <1>1
<1>. QED
  BY <1>2, UnitInductive, PTL DEF UnitSpec, OkIsTrue

\* The Helper of one account passes to another's only by way of an uninstall, unless
\* commands have overlapped, or a write of the unit was cut short (linux.rs:72-230).
THEOREM OwnerKeepsItsHelper == UnitSpec => HelperKeepsItsOwner
<1>1. ASSUME UnitInv, UnitNext, active # active', active # Absent, active' # Absent
      PROVE  messy' \/ torn'
  <2>1. SUFFICES ASSUME ~messy', ~torn' PROVE FALSE
    OBVIOUS
  <2>2. CASE HelperCrashes
    BY <1>1, <2>1, <2>2 DEF HelperCrashes, Startable, history, UnitInv, OwnerInv
  <2>3. ASSUME NEW i \in Installers, RestartUnit(i) PROVE FALSE
    BY <1>1, <2>1, <2>3 DEF RestartUnit, history, UnitInv, OwnerInv
  <2>4. ASSUME NEW i \in Installers, Disable(i) PROVE FALSE
    BY <1>1, <2>4 DEF Disable
  <2>5. ASSUME NEW i \in Installers, CallFault(i) PROVE FALSE
    BY <1>1, <2>1, <2>5 DEF CallFault, Startable, UnitInv, OwnerInv
  <2>6. UNCHANGED active \/ HelperCrashes \/ \E i \in Installers : RestartUnit(i) \/ Disable(i) \/ CallFault(i)
    BY <1>1 DEF UnitNext, UnitStep, EnsureRootOwned, InvokingOwner, EnsureFree, Truncate, Write, Secure,
          Reload, Enable, Remove, DisableFails, Ask, systemd
  <2>. QED
    BY <1>1, <2>2, <2>3, <2>4, <2>5, <2>6
<1>2. UnitInv /\ [UnitNext]_unitVars =>
        [active # active' /\ active # Absent /\ active' # Absent => messy' \/ torn']_unitVars
  BY <1>1
<1>. QED
  BY <1>2, UnitInductive, PTL DEF UnitSpec, HelperKeepsItsOwner
=============================================================================
