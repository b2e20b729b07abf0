-------------------------- MODULE AutomationDaemon --------------------------
(***************************************************************************)
(* The automation daemon as a process (automation_daemon.py): the order of *)
(* scheduler_loop, its heartbeat task, role_loop, and the shutdown of      *)
(* run() and _finish_shutdown, which may be cancelled while they wait.     *)
(*                                                                         *)
(* The tasks share one event loop: an action is what happens between two   *)
(* awaits.  The store appears as counts of the work it would hand out;     *)
(* AutomationRuns and AutomationOutbox say what that work is.              *)
(***************************************************************************)
EXTENDS Naturals

CONSTANTS MaxArrivals, MaxErrors    \* bounds of the model

ASSUME DaemonConstants == {MaxArrivals, MaxErrors} \subseteq Nat

VARIABLES
    work,       \* revisions to apply, deliveries and runs that are due
    leased,     \* the job of the oldest revision to apply is under an active lease
    arrived, errors,    \* how often work arrived and a transaction raised
    main,       \* run()
    stopping,   \* the event a signal or a cancellation of run() sets
    cancelled,  \* run() was cancelled while it waited for the cleanup
    scheduler,  \* scheduler_loop
    loopState,  \* its controller_state, which the heartbeat task repeats
    role,       \* role_loop
    heartbeat,  \* the heartbeat task runs
    controller, \* state in the controller row
    crm, readiness,     \* the two transport admissions: accepting, and worker threads
    cleanup,    \* the task of _finish_shutdown
    failure,    \* cleanup will re-raise
    server      \* the control socket

loopVars == <<work, leased, arrived, errors, scheduler, loopState>>
downVars == <<main, stopping, cancelled, cleanup, failure, server>>
tasks == <<role, heartbeat, controller, crm, readiness>>
daemonVars == <<loopVars, downVars, tasks>>

\* What no step of the cleanup touches.
others == <<loopVars, main, stopping, cancelled, role, heartbeat>>

Kinds == {"revision", "delivery", "run"}
Busy == {"delivery", "run"}

DaemonTypeOK ==
    /\ work \in [Kinds -> 0..MaxArrivals + MaxErrors] /\ leased \in BOOLEAN
    /\ arrived \in 0..MaxArrivals /\ errors \in 0..MaxErrors
    /\ main \in {"running", "shutdown", "exited"} /\ {stopping, cancelled} \subseteq BOOLEAN
    /\ scheduler \in {"top", "pausing", "ended"} \cup Busy
    /\ loopState \in {"active", "error"}
    /\ role \in {"ticking", "waiting", "ended", "failed"}
    /\ heartbeat \in BOOLEAN
    /\ controller \in {"active", "error", "stopping", "stopped"}
    /\ {crm, readiness} \subseteq [accepting : BOOLEAN, pending : 0..1]
    /\ cleanup \in {"none", "announce", "role", "scheduler", "drain", "close", "done"}
    /\ failure \in BOOLEAN /\ server \in {"open", "closed"}

\* After seed_defaults, adopt_all_current and start: a daemon that died may have
\* left a lease behind.
Init ==
    /\ work = [k \in Kinds |-> 0] /\ leased \in BOOLEAN
    /\ arrived = 0 /\ errors = 0
    /\ main = "running" /\ stopping = FALSE /\ cancelled = FALSE
    /\ scheduler = "top" /\ loopState = "active" /\ role = "waiting" /\ heartbeat = TRUE
    /\ controller = "active"
    /\ crm = [accepting |-> TRUE, pending |-> 0]
    /\ readiness = [accepting |-> TRUE, pending |-> 0]
    /\ cleanup = "none" /\ failure = FALSE /\ server = "open"

-----------------------------------------------------------------------------
(* What comes from outside *)

Arrive(k) ==
    /\ arrived < MaxArrivals
    /\ arrived' = arrived + 1
    /\ work' = [work EXCEPT ![k] = @ + 1]
    /\ UNCHANGED <<leased, errors, scheduler, loopState, downVars, tasks>>

LeaseExpires ==
    /\ leased /\ leased' = FALSE
    /\ UNCHANGED <<work, arrived, errors, scheduler, loopState, downVars, tasks>>

\* A request of the digest run in hand, or a readiness probe of a control client,
\* takes the place of its admission; the worker thread ends when it ends, also
\* after its caller gave up.
Acquire(a) == a.accepting /\ a.pending = 0

CrmRequest ==
    /\ scheduler = "run" /\ Acquire(crm) /\ crm' = [crm EXCEPT !.pending = 1]
    /\ UNCHANGED <<loopVars, downVars, role, heartbeat, controller, readiness>>
CrmReleased ==
    /\ crm.pending = 1 /\ crm' = [crm EXCEPT !.pending = 0]
    /\ UNCHANGED <<loopVars, downVars, role, heartbeat, controller, readiness>>
Probe ==
    /\ server = "open" /\ Acquire(readiness) /\ readiness' = [readiness EXCEPT !.pending = 1]
    /\ UNCHANGED <<loopVars, downVars, role, heartbeat, controller, crm>>
ProbeReleased ==
    /\ readiness.pending = 1 /\ readiness' = [readiness EXCEPT !.pending = 0]
    /\ UNCHANGED <<loopVars, downVars, role, heartbeat, controller, crm>>

-----------------------------------------------------------------------------
(* scheduler_loop *)

\* Revisions go first, then deliveries, then runs.  A revision whose job is
\* leased is not applied, and nothing else is looked at before the next tick.
Take ==
    /\ scheduler = "top" /\ ~stopping
    /\ controller' = "active" /\ loopState' = "active"
    /\ \/ /\ work["revision"] > 0 /\ leased
          /\ scheduler' = "pausing" /\ UNCHANGED work
       \/ /\ work["revision"] > 0 /\ ~leased
          /\ work' = [work EXCEPT !["revision"] = @ - 1] /\ UNCHANGED scheduler
       \/ \E k \in Busy :
             /\ work["revision"] = 0 /\ work[k] > 0
             /\ k = "run" => work["delivery"] = 0
             /\ work' = [work EXCEPT ![k] = @ - 1] /\ scheduler' = k
       \/ /\ \A k \in Kinds : work[k] = 0
          /\ scheduler' = "pausing" /\ UNCHANGED work
    /\ UNCHANGED <<leased, arrived, errors, downVars, role, heartbeat, crm, readiness>>

\* Any transaction of an iteration may raise, also the one that records it.  A run
\* that could not be settled leaves its lease behind, a delivery comes back.
Raise ==
    /\ errors < MaxErrors /\ errors' = errors + 1
    /\ scheduler \in {"top"} \cup Busy /\ (scheduler = "top" => ~stopping)
    /\ controller' \in {controller, "error"} /\ loopState' = "error"
    /\ leased' = (leased \/ scheduler = "run")
    /\ work' = IF scheduler = "delivery" THEN [work EXCEPT !["delivery"] = @ + 1] ELSE work
    /\ scheduler' = "pausing"
    /\ UNCHANGED <<arrived, downVars, role, heartbeat, crm, readiness>>

Pause_UntilStop ==
    /\ scheduler = "pausing" /\ stopping
    /\ scheduler' = "top"
    /\ UNCHANGED <<work, leased, arrived, errors, loopState, downVars, tasks>>

\* The tick is over, or the daemon is to stop.
Pause ==
    /\ scheduler = "pausing"
    /\ scheduler' = "top"
    /\ UNCHANGED <<work, leased, arrived, errors, loopState, downVars, tasks>>

\* The delivery or the run is settled in the store.
Settle ==
    /\ scheduler \in Busy
    /\ scheduler' = "top"
    /\ UNCHANGED <<work, leased, arrived, errors, loopState, downVars, tasks>>

\* The heartbeat task is cancelled and awaited before the loop ends.
EndLoop ==
    /\ scheduler = "top" /\ stopping
    /\ scheduler' = "ended" /\ heartbeat' = FALSE
    /\ UNCHANGED <<work, leased, arrived, errors, loopState, downVars,
                   role, controller, crm, readiness>>

Heartbeat ==
    /\ heartbeat
    /\ controller' = IF stopping THEN "stopping" ELSE loopState
    /\ UNCHANGED <<loopVars, downVars, role, heartbeat, crm, readiness>>

Loop == Take \/ Pause \/ Settle \/ EndLoop

-----------------------------------------------------------------------------
(* role_loop *)

\* A tick that raises ends the task; nobody looks at it before the shutdown.
RoleTick ==
    /\ role = "ticking"
    /\ role' \in {"waiting", "failed"}
    /\ UNCHANGED <<loopVars, downVars, heartbeat, controller, crm, readiness>>

\* The wake event, or five seconds later, or the first turn of the task.
RoleWakes ==
    /\ role = "waiting"
    /\ role' = IF stopping THEN "ended" ELSE "ticking"
    /\ UNCHANGED <<loopVars, downVars, heartbeat, controller, crm, readiness>>

-----------------------------------------------------------------------------
(* run() and _finish_shutdown *)

\* SIGTERM, SIGINT or the first cancellation of run().
Stop ==
    /\ main = "running"
    /\ stopping' = TRUE /\ main' = "shutdown" /\ cleanup' = "announce"
    /\ UNCHANGED <<loopVars, cancelled, failure, server, tasks>>

CancelWait_Abandons ==
    /\ main = "shutdown" /\ main' = "exited" /\ cancelled' = TRUE
    /\ UNCHANGED <<loopVars, stopping, cleanup, failure, server, tasks>>

\* Another cancellation: the cleanup is shielded, and run() waits again.
CancelWait ==
    /\ main = "shutdown" /\ cancelled' = TRUE
    /\ UNCHANGED <<loopVars, main, stopping, cleanup, failure, server, tasks>>

Announce_KeepsProbing ==
    /\ cleanup = "announce" /\ cleanup' = "role"
    /\ controller' \in {controller, "stopping"}
    /\ failure' \in BOOLEAN
    /\ UNCHANGED <<others, server, crm, readiness>>

\* No more probes, READY is taken back, the row says so (a failed write of it is
\* suppressed).
Announce ==
    /\ cleanup = "announce" /\ cleanup' = "role"
    /\ readiness' = [readiness EXCEPT !.accepting = FALSE]
    /\ controller' \in {controller, "stopping"}
    /\ failure' \in BOOLEAN
    /\ UNCHANGED <<others, server, crm>>

\* A failed role does not abandon the scheduler.
JoinRole ==
    /\ cleanup = "role" /\ role \in {"ended", "failed"}
    /\ cleanup' = "scheduler"
    /\ failure' = (failure \/ role = "failed")
    /\ UNCHANGED <<others, server, controller, crm, readiness>>

JoinScheduler_NoWait ==
    /\ cleanup = "scheduler"
    /\ cleanup' = "drain"
    /\ crm' = [crm EXCEPT !.accepting = FALSE]
    /\ UNCHANGED <<others, failure, server, controller, readiness>>

\* The digest in hand may still need its acknowledgement: only then no more.
JoinScheduler ==
    /\ cleanup = "scheduler" /\ scheduler = "ended"
    /\ cleanup' = "drain"
    /\ crm' = [crm EXCEPT !.accepting = FALSE]
    /\ UNCHANGED <<others, failure, server, controller, readiness>>

\* The worker threads are gone; the row says "stopped" unless something failed
\* (or its write does: an Exception is suppressed, anything else fails the cleanup).
Drained ==
    /\ cleanup = "drain" /\ crm.pending = 0 /\ readiness.pending = 0
    /\ cleanup' = "close"
    /\ controller' \in IF failure THEN {controller} ELSE {controller, "stopped"}
    /\ failure' \in {failure, TRUE}
    /\ UNCHANGED <<others, server, crm, readiness>>

\* A close that raises may leave the socket as it was.
CloseServer ==
    /\ cleanup = "close" /\ cleanup' = "done"
    /\ \/ server' = "closed" /\ UNCHANGED failure
       \/ server' \in {server, "closed"} /\ failure' = TRUE
    /\ UNCHANGED <<others, controller, crm, readiness>>

Exit ==
    /\ main = "shutdown" /\ cleanup = "done"
    /\ main' = "exited"
    /\ UNCHANGED <<loopVars, stopping, cancelled, cleanup, failure, server, tasks>>

Shutdown == Announce \/ JoinRole \/ JoinScheduler \/ Drained \/ CloseServer \/ Exit

-----------------------------------------------------------------------------
Next ==
    \/ \E k \in Kinds : Arrive(k)
    \/ LeaseExpires \/ CrmRequest \/ CrmReleased \/ Probe \/ ProbeReleased
    \/ Loop \/ Raise \/ Heartbeat
    \/ RoleTick \/ RoleWakes
    \/ Stop \/ CancelWait \/ Shutdown

\* The event loop runs every ready task and timer; leases end with the clock, and
\* the worker threads, executors and ticks with the timeouts of their calls.
Fairness ==
    /\ WF_daemonVars(Loop) /\ WF_daemonVars(Shutdown)
    /\ WF_daemonVars(RoleTick) /\ WF_daemonVars(RoleWakes)
    /\ WF_daemonVars(LeaseExpires) /\ WF_daemonVars(CrmReleased) /\ WF_daemonVars(ProbeReleased)

Spec == Init /\ [][Next]_daemonVars /\ Fairness

-----------------------------------------------------------------------------
(* Safety *)

\* A controller row that says "stopped" is true, of every task and thread, and
\* hides no failed role; and run() ends only when they are all gone, the control socket
\* too unless its close raised, which run() then does.
StoppedIsTrue ==
    controller = "stopped" \/ main = "exited" =>
        /\ scheduler = "ended" /\ role \in {"ended", "failed"} /\ ~heartbeat
        /\ crm.pending = 0 /\ readiness.pending = 0
        /\ controller = "stopped" => role = "ended"
        /\ main = "exited" => server = "closed" \/ failure

\* A run that has started may talk to the CRM to its end, also in a shutdown:
\* its message may be out and its acknowledgement not.
RunKeepsItsFeed == scheduler = "run" => crm.accepting

(* Liveness *)

\* A shutdown ends, whatever it interrupts and however often run() is cancelled.
ShutdownEnds == stopping ~> main = "exited"

\* A due delivery and a due run are taken, though revisions, dead leases, failing
\* transactions and each other come first.
WorkIsTaken == \A k \in Busy : work[k] > 0 ~> (work[k] = 0 \/ stopping)
=============================================================================
