----------------------- MODULE AutomationDaemonProofs -----------------------
(***************************************************************************)
(* AutomationDaemon for any number of arrivals and failing transactions:   *)
(* what the controller row says when the daemon stops is true, and a run   *)
(* keeps the feed it talks to.                                             *)
(***************************************************************************)
EXTENDS AutomationDaemon, TLAPS

\* How far the cleanup has come.
RoleJoined == {"scheduler", "drain", "close", "done"}
LoopJoined == {"drain", "close", "done"}
ThreadsGone == {"close", "done"}

\* No more work waits than ever came or came back.
WorkCounted ==
    /\ work \in [Kinds -> Nat] /\ arrived \in 0..MaxArrivals /\ errors \in 0..MaxErrors
    /\ \A k \in Kinds : work[k] <= arrived + errors

\* The tasks run, and the admissions are open, exactly as far as the cleanup says.
CleanupInv ==
    /\ cleanup = "none" <=> main = "running"
    /\ cleanup \in RoleJoined => role \in {"ended", "failed"} /\ (role = "failed" => failure)
    /\ cleanup \in LoopJoined => scheduler = "ended"
    /\ heartbeat <=> scheduler # "ended"
    /\ readiness.accepting <=> cleanup \in {"none", "announce"}
    /\ crm.accepting <=> cleanup \notin LoopJoined
    /\ cleanup \in ThreadsGone => crm.pending = 0 /\ readiness.pending = 0
    /\ controller = "stopped" => cleanup \in ThreadsGone /\ role = "ended"
    /\ cleanup = "done" => server = "closed" \/ failure
    /\ main = "exited" => cleanup = "done"

\* The values of what a step may change, besides the counts.
Typed ==
    /\ scheduler \in {"top", "pausing", "ended"} \cup Busy
    /\ loopState \in {"active", "error"} /\ role \in {"ticking", "waiting", "ended", "failed"}
    /\ controller \in {"active", "error", "stopping", "stopped"}
    /\ main \in {"running", "shutdown", "exited"} /\ server \in {"open", "closed"}
    /\ cleanup \in {"none", "announce", "role", "scheduler", "drain", "close", "done"}

Admissions == {crm, readiness} \subseteq [accepting : BOOLEAN, pending : 0..1]
Switches == {leased, stopping, cancelled, heartbeat, failure} \subseteq BOOLEAN

DaemonInv == WorkCounted /\ Typed /\ Admissions /\ Switches /\ CleanupInv

\* The bound of the type is that of the counts.
LEMMA WorkBounded == WorkCounted => work \in [Kinds -> 0..MaxArrivals + MaxErrors]
<1> SUFFICES ASSUME WorkCounted PROVE work \in [Kinds -> 0..MaxArrivals + MaxErrors]
  OBVIOUS
<1>1. /\ work \in [Kinds -> Nat] /\ \A k \in Kinds : work[k] <= arrived + errors
      /\ arrived \in 0..MaxArrivals /\ errors \in 0..MaxErrors
  BY DEF WorkCounted
<1>2. MaxArrivals \in Nat /\ MaxErrors \in Nat
  BY DaemonConstants
<1>3. arrived + errors <= MaxArrivals + MaxErrors
  BY <1>1, <1>2
<1>4. \A k \in Kinds : work[k] \in 0..MaxArrivals + MaxErrors
  BY <1>1, <1>2, <1>3
<1> QED
  BY <1>1, <1>4

\* The type invariant of the module, by its parts.
LEMMA TypeFollows == DaemonInv => DaemonTypeOK
BY WorkBounded, Zenon DEF DaemonInv, WorkCounted, DaemonTypeOK, Typed, Admissions, Switches

LEMMA InitOK == Init => DaemonInv
<1> SUFFICES ASSUME Init PROVE DaemonInv
  OBVIOUS
<1>1. WorkCounted
  BY DaemonConstants DEF Init, WorkCounted
<1>2. CleanupInv
  BY DEF Init, CleanupInv, RoleJoined, LoopJoined, ThreadsGone
<1>3. Typed /\ Admissions
  BY DEF Init, Typed, Admissions
<1>4. Switches
  BY Zenon DEF Init, Switches
<1> QED
  BY <1>1, <1>2, <1>3, <1>4 DEF DaemonInv

-----------------------------------------------------------------------------
(* Steps *)

\* Work comes with an arrival, and comes back with an error.
LEMMA CountStep == WorkCounted /\ [Next]_daemonVars => WorkCounted'
<1> SUFFICES ASSUME WorkCounted, [Next]_daemonVars PROVE WorkCounted'
  OBVIOUS
<1> USE DEF WorkCounted
<1>1. ASSUME NEW k \in Kinds, Arrive(k) PROVE WorkCounted'
  BY <1>1, DaemonConstants DEF Arrive
<1>2. CASE Take
  BY <1>2, DaemonConstants DEF Take, Kinds, Busy
<1>3. CASE Raise
  BY <1>3, DaemonConstants DEF Raise, Kinds
<1>4. CASE UNCHANGED <<work, arrived, errors>>
  BY <1>4
<1> QED
  BY <1>1, <1>2, <1>3, <1>4
  DEF Next, Loop, Shutdown, LeaseExpires, CrmRequest, CrmReleased, Probe, ProbeReleased, Pause,
      Settle, EndLoop, Heartbeat, RoleTick, RoleWakes, Stop, CancelWait, Announce, JoinRole,
      JoinScheduler, Drained, CloseServer, Exit, daemonVars, loopVars, others

\* Every step moves every task to a place it has.
LEMMA TypedStep == Typed /\ [Next]_daemonVars => Typed'
<1> SUFFICES ASSUME Typed, [Next]_daemonVars PROVE Typed'
  OBVIOUS
<1> USE DEF Typed, loopVars, downVars, tasks
<1>1. ASSUME NEW k \in Kinds, Arrive(k) PROVE Typed'
  BY <1>1 DEF Arrive
<1>2. CASE LeaseExpires
  BY <1>2 DEF LeaseExpires
<1>3. CASE CrmRequest
  BY <1>3 DEF CrmRequest, Acquire
<1>4. CASE CrmReleased
  BY <1>4 DEF CrmReleased
<1>5. CASE Probe
  BY <1>5 DEF Probe, Acquire
<1>6. CASE ProbeReleased
  BY <1>6 DEF ProbeReleased
<1>7. CASE Take
  BY <1>7 DEF Take, Busy
<1>8. CASE Pause
  BY <1>8 DEF Pause
<1>9. CASE Settle
  BY <1>9 DEF Settle, Busy
<1>10. CASE EndLoop
  BY <1>10 DEF EndLoop
<1>11. CASE Raise
  BY <1>11 DEF Raise, Busy
<1>12. CASE Heartbeat
  BY <1>12 DEF Heartbeat
<1>13. CASE RoleTick
  BY <1>13 DEF RoleTick
<1>14. CASE RoleWakes
  BY <1>14 DEF RoleWakes
<1>15. CASE Stop
  BY <1>15 DEF Stop
<1>16. CASE CancelWait
  BY <1>16 DEF CancelWait
<1>17. CASE Announce
  BY <1>17 DEF Announce, others
<1>18. CASE JoinRole
  BY <1>18 DEF JoinRole, others
<1>19. CASE JoinScheduler
  BY <1>19 DEF JoinScheduler, others
<1>20. CASE Drained
  BY <1>20 DEF Drained, others
<1>21. CASE CloseServer
  BY <1>21 DEF CloseServer, others
<1>22. CASE Exit
  BY <1>22 DEF Exit
<1>23. CASE UNCHANGED daemonVars
  BY <1>23 DEF daemonVars
<1> QED
  BY <1>1, <1>2, <1>3, <1>4, <1>5, <1>6, <1>7, <1>8, <1>9, <1>10, <1>11, <1>12,
     <1>13, <1>14, <1>15, <1>16, <1>17, <1>18, <1>19, <1>20, <1>21, <1>22, <1>23
  DEF Next, Loop, Shutdown

\* A place is taken once and given back once.
LEMMA AdmissionsStep == Admissions /\ [Next]_daemonVars => Admissions'
<1> SUFFICES ASSUME Admissions, [Next]_daemonVars PROVE Admissions'
  OBVIOUS
<1> USE DEF Admissions, loopVars, downVars, tasks
<1>1. ASSUME NEW k \in Kinds, Arrive(k) PROVE Admissions'
  BY <1>1 DEF Arrive
<1>2. CASE LeaseExpires
  BY <1>2 DEF LeaseExpires
<1>3. CASE CrmRequest
  BY <1>3 DEF CrmRequest, Acquire
<1>4. CASE CrmReleased
  BY <1>4 DEF CrmReleased
<1>5. CASE Probe
  BY <1>5 DEF Probe, Acquire
<1>6. CASE ProbeReleased
  BY <1>6 DEF ProbeReleased
<1>7. CASE Take
  BY <1>7 DEF Take, Busy
<1>8. CASE Pause
  BY <1>8 DEF Pause
<1>9. CASE Settle
  BY <1>9 DEF Settle, Busy
<1>10. CASE EndLoop
  BY <1>10 DEF EndLoop
<1>11. CASE Raise
  BY <1>11 DEF Raise, Busy
<1>12. CASE Heartbeat
  BY <1>12 DEF Heartbeat
<1>13. CASE RoleTick
  BY <1>13 DEF RoleTick
<1>14. CASE RoleWakes
  BY <1>14 DEF RoleWakes
<1>15. CASE Stop
  BY <1>15 DEF Stop
<1>16. CASE CancelWait
  BY <1>16 DEF CancelWait
<1>17. CASE Announce
  BY <1>17 DEF Announce, others
<1>18. CASE JoinRole
  BY <1>18 DEF JoinRole, others
<1>19. CASE JoinScheduler
  BY <1>19 DEF JoinScheduler, others
<1>20. CASE Drained
  BY <1>20 DEF Drained, others
<1>21. CASE CloseServer
  BY <1>21 DEF CloseServer, others
<1>22. CASE Exit
  BY <1>22 DEF Exit
<1>23. CASE UNCHANGED daemonVars
  BY <1>23 DEF daemonVars
<1> QED
  BY <1>1, <1>2, <1>3, <1>4, <1>5, <1>6, <1>7, <1>8, <1>9, <1>10, <1>11, <1>12,
     <1>13, <1>14, <1>15, <1>16, <1>17, <1>18, <1>19, <1>20, <1>21, <1>22, <1>23
  DEF Next, Loop, Shutdown

\* The cleanup goes on only over what has ended, and nothing of that starts again.
LEMMA CleanupStep == Typed /\ Admissions /\ CleanupInv /\ [Next]_daemonVars => CleanupInv'
<1> SUFFICES ASSUME Typed /\ Admissions /\ CleanupInv, [Next]_daemonVars PROVE CleanupInv'
  OBVIOUS
<1> USE DEF CleanupInv, Typed, Admissions, RoleJoined, LoopJoined, ThreadsGone,
            loopVars, downVars, tasks
<1>1. ASSUME NEW k \in Kinds, Arrive(k) PROVE CleanupInv'
  BY <1>1 DEF Arrive
<1>2. CASE LeaseExpires
  BY <1>2 DEF LeaseExpires
<1>3. CASE CrmRequest
  BY <1>3 DEF CrmRequest, Acquire
<1>4. CASE CrmReleased
  BY <1>4 DEF CrmReleased
<1>5. CASE Probe
  BY <1>5 DEF Probe, Acquire
<1>6. CASE ProbeReleased
  BY <1>6 DEF ProbeReleased
<1>7. CASE Take
  BY <1>7 DEF Take, Busy
<1>8. CASE Pause
  BY <1>8 DEF Pause
<1>9. CASE Settle
  BY <1>9 DEF Settle, Busy
<1>10. CASE EndLoop
  BY <1>10 DEF EndLoop
<1>11. CASE Raise
  BY <1>11 DEF Raise, Busy
<1>12. CASE Heartbeat
  BY <1>12 DEF Heartbeat
<1>13. CASE RoleTick
  BY <1>13 DEF RoleTick
<1>14. CASE RoleWakes
  BY <1>14 DEF RoleWakes
<1>15. CASE Stop
  BY <1>15 DEF Stop
<1>16. CASE CancelWait
  BY <1>16 DEF CancelWait
<1>17. CASE Announce
  BY <1>17 DEF Announce, others
<1>18. CASE JoinRole
  BY <1>18 DEF JoinRole, others
<1>19. CASE JoinScheduler
  BY <1>19 DEF JoinScheduler, others
<1>20. CASE Drained
  <2>1. /\ cleanup = "drain" /\ cleanup' = "close" /\ crm.pending = 0 /\ readiness.pending = 0
        /\ UNCHANGED <<main, role, scheduler, heartbeat, server, crm, readiness>>
    BY <1>20 DEF Drained, others
  <2>2. failure => failure'
    <3>1. failure' \in {failure, TRUE}
      BY <1>20 DEF Drained
    <3> QED
      BY <3>1, Zenon
  <2>3. controller' = controller \/ (~failure /\ controller' = "stopped")
    <3>1. controller' \in IF failure THEN {controller} ELSE {controller, "stopped"}
      BY <1>20 DEF Drained
    <3> QED
      BY <3>1, Zenon
  <2> QED
    BY <2>1, <2>2, <2>3
<1>21. CASE CloseServer
  BY <1>21 DEF CloseServer, others
<1>22. CASE Exit
  BY <1>22 DEF Exit
<1>23. CASE UNCHANGED daemonVars
  BY <1>23 DEF daemonVars
<1> QED
  BY <1>1, <1>2, <1>3, <1>4, <1>5, <1>6, <1>7, <1>8, <1>9, <1>10, <1>11, <1>12,
     <1>13, <1>14, <1>15, <1>16, <1>17, <1>18, <1>19, <1>20, <1>21, <1>22, <1>23
  DEF Next, Loop, Shutdown

\* The switches of the event loop are switches.
LEMMA SwitchesStep == Switches /\ [Next]_daemonVars => Switches'
BY Zenon DEF Switches, Next, Loop, Shutdown, Arrive, LeaseExpires, CrmRequest, CrmReleased, Probe,
   ProbeReleased, Take, Pause, Settle, EndLoop, Raise, Heartbeat, RoleTick, RoleWakes, Stop,
   CancelWait, Announce, JoinRole, JoinScheduler, Drained, CloseServer, Exit,
   others, daemonVars, loopVars, downVars, tasks

LEMMA DaemonStep == DaemonInv /\ [Next]_daemonVars => DaemonInv'
BY CountStep, TypedStep, AdmissionsStep, SwitchesStep, CleanupStep, Zenon DEF DaemonInv

-----------------------------------------------------------------------------
(* Results *)

LEMMA AlwaysInv == Spec => []DaemonInv
BY InitOK, DaemonStep, PTL DEF Spec

\* Tasks, admissions, counts and the controller row keep their values, through
\* every order of arrivals, errors, probes and cancellations.
THEOREM DaemonTypeCorrect == Spec => []DaemonTypeOK
BY TypeFollows, AlwaysInv, PTL

\* "stopped" in the controller row, and the return of run(), come after the end of
\* every task and worker thread, and "stopped" never after a failed role.
THEOREM StoppedTold == Spec => []StoppedIsTrue
<1>1. DaemonInv => StoppedIsTrue
  BY DEF DaemonInv, CleanupInv, StoppedIsTrue, RoleJoined, LoopJoined, ThreadsGone
<1> QED
  BY <1>1, AlwaysInv, PTL

\* A run that started before the shutdown reaches the CRM until it is settled.
THEOREM FeedIsKept == Spec => []RunKeepsItsFeed
<1>1. DaemonInv => RunKeepsItsFeed
  BY DEF DaemonInv, CleanupInv, RunKeepsItsFeed, LoopJoined
<1> QED
  BY <1>1, AlwaysInv, PTL
=============================================================================
