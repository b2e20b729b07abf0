--------------------------- MODULE AutomationRuns ---------------------------
(***************************************************************************)
(* The durable scheduler of the automation centre:                         *)
(* autostop_manager/automation_registry.py, class AutomationStore.         *)
(*                                                                         *)
(* Every public method of the store is one SQLite transaction opened with  *)
(* BEGIN IMMEDIATE, so every method is one action here.  Who calls them is *)
(* left open: the control socket runs each request in a worker thread of   *)
(* its own, and a run that was claimed may be finished, cancelled or       *)
(* kept alive by its holder at any later time, or never (the daemon died). *)
(* The claim a holder carries is exactly what claim_next_run wrote to the  *)
(* run row (owner, fence, revision), so the rows stand for the claims.     *)
(*                                                                         *)
(* A NULL time is 0, the clock starts at 1 and counts seconds, as the      *)
(* stored ISO timestamps do.                                               *)
(***************************************************************************)
EXTENDS Integers, FiniteSets

CONSTANTS
    Jobs,               \* rows manager_automations may hold
    Template(_),        \* template of a job row (AUTOMATION_TEMPLATES, all singletons)
    Owners,             \* daemon incarnations: automation-daemon-<uuid>
    Parties,            \* <<actor, attempt>> pairs that may place a hold
    HoldReasons,        \* reasons in play: release, maintenance, operator, unnamed (NULL)
    Schedules,          \* set of schedules [every: seconds, window: ...]
    Default,            \* the schedule a template starts with
    InWindow(_, _),     \* is_in_active_window(now, schedule)
    NextActive(_, _),   \* next_active_time(now, schedule)
    Delays,             \* next_delay_seconds an executor may answer
    LeaseSeconds,       \* lease_seconds of the daemon
    NoOwner, NoParty,   \* NULL
    MaxJobs,            \* bound on the job rows that are ever created
    MaxTime, MaxRevision, MaxRuns,  \* bounds of the model
    MaxIncidents, MaxTests          \* bounds on incidents with tests, and on tests, of a job

ASSUME ConstantsOK ==
    /\ IsFiniteSet(Jobs) /\ Jobs # {}
    /\ NoOwner \notin Owners /\ NoParty \notin Parties
    /\ LeaseSeconds \in Nat \ {0}
    /\ {MaxJobs, MaxTime, MaxRevision, MaxRuns, MaxIncidents} \subseteq Nat \ {0}
    /\ MaxTests \in 0..MaxIncidents
    /\ Delays \subseteq Nat
    /\ "none" \notin HoldReasons
    /\ Default \in Schedules
    /\ \A s \in Schedules : s.every \in Nat \ {0}

\* What the rest of the module needs of the active window of a schedule: the
\* next active time exists, lies in the window and is not in the past.
ASSUME WindowsOK ==
    \A s \in Schedules :
        /\ \A t \in 1..MaxTime : InWindow(t, s) \in BOOLEAN
        /\ \A t \in 1..MaxTime, d \in Delays \cup {s.every, 0} :
              /\ NextActive(t + d, s) \in Nat
              /\ NextActive(t + d, s) >= t + d

VARIABLES
    now,        \* wall clock
    hold,       \* manager_automation_controller_runtime: global hold
    job,        \* manager_automations: what the operator wants
    runtime,    \* manager_automation_runtime: what the scheduler applied
    runs,       \* manager_automation_runs
    outbox      \* manager_automation_outbox

vars == <<now, hold, job, runtime, runs, outbox>>

RunIds == 1..MaxRuns
Terminal == {"succeeded", "failed", "cancelled"}
Transitions == {"error", "recovery"}

\* UNIQUE idempotency_key: automation-incident:<incident>:<transition> or
\* notification-test:<command>.  Incidents and test commands of a job are
\* numbered in the order in which their uuids are drawn.
OutboxIds == (Transitions \cup {"test"}) \X Jobs \X (1..MaxIncidents)
Pending == {"queued", "failed", "sending"}

NoJob == [st |-> "absent", desired |-> "off", revision |-> 1,
          sched |-> Default, updated |-> 0]
NoRuntime == [actual |-> "disabled", next |-> 0, owner |-> NoOwner, until |-> 0,
              token |-> 0, applied |-> 1, incident |-> 0, incidents |-> 0,
              tests |-> 0]
NoRun == [st |-> "absent", job |-> CHOOSE j \in Jobs : TRUE, at |-> 0,
          owner |-> NoOwner, token |-> 0, revision |-> 0]
NoMessage == [st |-> "absent", due |-> 0, owner |-> NoOwner, until |-> 0, token |-> 0]
NewMessage == [st |-> "queued", due |-> now, owner |-> NoOwner, until |-> 0, token |-> 0]

JobRow == [st : {"absent", "live", "archived"}, desired : {"on", "off"},
           revision : Nat \ {0}, sched : Schedules, updated : Nat]
ActualStates == {"disabled", "idle", "queued", "running", "stopping", "error", "archived"}
RuntimeRow == [actual : ActualStates,
               next : Nat, owner : Owners \cup {NoOwner}, until : Nat, token : Nat,
               applied : Nat, incident : 0..MaxIncidents, incidents : 0..MaxIncidents,
               tests : 0..MaxIncidents]
RunRow == [st : {"absent", "queued", "running"} \cup Terminal, job : Jobs,
           at : Nat, owner : Owners \cup {NoOwner}, token : Nat, revision : Nat]
Message == [st : {"absent", "sent", "cancelled"} \cup Pending, due : Nat,
            owner : Owners \cup {NoOwner}, until : Nat, token : Nat]

TypeOK ==
    /\ now \in 1..MaxTime
    /\ hold \in [reason : HoldReasons \cup {"none"}, by : Parties \cup {NoParty}]
    /\ job \in [Jobs -> JobRow]
    /\ runtime \in [Jobs -> RuntimeRow]
    /\ runs \in [RunIds -> RunRow]
    /\ outbox \in [OutboxIds -> Message]

Init ==
    /\ now = 1
    /\ hold = [reason |-> "none", by |-> NoParty]
    /\ job = [j \in Jobs |-> NoJob]
    /\ runtime = [j \in Jobs |-> NoRuntime]
    /\ runs = [r \in RunIds |-> NoRun]
    /\ outbox = [m \in OutboxIds |-> NoMessage]

-----------------------------------------------------------------------------
(* Reading the rows *)

Held == hold.reason # "none"
Live(j) == job[j].st = "live"

\* ROLE_TEMPLATES: rows the role controller projects; the control socket only
\* reads them (automation_role_control_required).
RoleTemplates == {"m1_duty_v1", "m2_duty_v1"}
Managed(j) == Template(j) \notin RoleTemplates

LeaseActive(j) == runtime[j].until > now
LeaseExpired(j) == runtime[j].until # 0 /\ runtime[j].until <= now

\* WHERE lease_owner_hash = q.lease_owner_hash AND fencing_token = q.fencing_token
OwnsFence(r) ==
    /\ runtime[runs[r].job].owner = runs[r].owner
    /\ runtime[runs[r].job].token = runs[r].token

ClaimIsCurrent_AnyRevision(r) ==
    /\ runs[r].st = "running" /\ OwnsFence(r)
    /\ Live(runs[r].job) /\ job[runs[r].job].desired = "on"
    /\ ~Held /\ LeaseActive(runs[r].job)

\* run_claim_is_current: the gate in front of every external effect of a run.
ClaimIsCurrent(r) ==
    LET j == runs[r].job IN
    /\ runs[r].st = "running"
    /\ OwnsFence(r)
    /\ Live(j) /\ job[j].desired = "on" /\ job[j].revision = runs[r].revision
    /\ ~Held
    /\ LeaseActive(j)

Absorbs_RunningOnly(r, j) ==
    runs[r].job = j /\ runs[r].st = "running" /\ LeaseActive(j) /\ OwnsFence(r)

\* A queued run, or a running one whose claim still covers this revision,
\* absorbs another "run now".
Absorbs(r, j) ==
    /\ runs[r].job = j
    /\ \/ runs[r].st = "queued"
       \/ /\ runs[r].st = "running"
          /\ runs[r].revision = job[j].revision
          /\ LeaseActive(j) /\ OwnsFence(r)

\* UPDATE manager_automation_runs SET status = 'cancelled' WHERE status = 'queued'
CancelQueued(j) ==
    [r \in RunIds |-> IF runs[r].job = j /\ runs[r].st = "queued"
                      THEN [runs[r] EXCEPT !.st = "cancelled"] ELSE runs[r]]

\* next_run of finish_run and cancel_run_claim.
NextRun(j, delay) ==
    IF job[j].desired = "on" THEN NextActive(now + delay, job[j].sched) ELSE 0

RestState_Idle(j) == "idle"

\* actual_state of a job that is on and has no run: the open incident shows.
RestState(j) == IF runtime[j].incident # 0 THEN "error" ELSE "idle"

RoomForJob == Cardinality({j \in Jobs : job[j].st # "absent"}) < MaxJobs
FreshRun(r) == runs[r].st = "absent" /\ \A q \in RunIds : q < r => runs[q].st # "absent"

-----------------------------------------------------------------------------
(* Control socket: each command runs inside execute_command and, but for a  *)
(* creation and the hold itself, is refused under a global hold.  A stale   *)
(* expected_revision, like every other refusal, rolls the transaction back: *)
(* a step that changes nothing.                                             *)

Tick ==
    /\ now < MaxTime
    /\ now' = now + 1
    /\ UNCHANGED <<hold, job, runtime, runs, outbox>>

\* A creation is stored under a hold too: execute_command answers it before it looks.
Create(j, s) ==
    /\ job[j].st = "absent" /\ RoomForJob
    /\ \A k \in Jobs : Template(k) = Template(j) => ~Live(k)
    /\ job' = [job EXCEPT ![j] = [NoJob EXCEPT !.st = "live", !.sched = s,
                                              !.updated = now]]
    /\ runtime' = [runtime EXCEPT ![j] = NoRuntime]
    /\ UNCHANGED <<now, hold, runs, outbox>>

\* The start-up seed ignores the hold and respects archived rows too.
SeedDefaults(j) ==
    /\ Template(j) = "crm_digest_v1"
    /\ \A k \in Jobs : Template(k) = Template(j) => job[k].st = "absent"
    /\ RoomForJob
    /\ job' = [job EXCEPT ![j] = [NoJob EXCEPT !.st = "live", !.updated = now]]
    /\ runtime' = [runtime EXCEPT ![j] = NoRuntime]
    /\ UNCHANGED <<now, hold, runs, outbox>>

Enable_SameRevision(j) ==
    /\ ~Held /\ Live(j) /\ Managed(j) /\ job[j].desired = "off"
    /\ job' = [job EXCEPT ![j].desired = "on", ![j].updated = now]
    /\ UNCHANGED <<now, hold, runtime, runs, outbox>>

Enable(j) ==
    /\ ~Held /\ Live(j) /\ Managed(j) /\ job[j].desired = "off"
    /\ job[j].revision < MaxRevision
    /\ job' = [job EXCEPT ![j].desired = "on", ![j].revision = @ + 1,
                          ![j].updated = now]
    /\ UNCHANGED <<now, hold, runtime, runs, outbox>>

Disable(j) ==
    /\ ~Held /\ Live(j) /\ Managed(j) /\ job[j].desired = "on"
    /\ job[j].revision < MaxRevision
    /\ job' = [job EXCEPT ![j].desired = "off", ![j].revision = @ + 1,
                          ![j].updated = now]
    /\ runtime' = [runtime EXCEPT
           ![j].actual = IF LeaseActive(j) THEN "stopping" ELSE @,
           ![j].next = 0]
    /\ runs' = CancelQueued(j)
    /\ UNCHANGED <<now, hold, outbox>>

SetSchedule(j, s) ==
    /\ ~Held /\ Live(j) /\ Managed(j) /\ job[j].sched # s
    /\ job[j].revision < MaxRevision
    /\ job' = [job EXCEPT ![j].sched = s, ![j].revision = @ + 1,
                          ![j].updated = now]
    /\ UNCHANGED <<now, hold, runtime, runs, outbox>>

\* run_now; when a run absorbs the request only its coalesced_count grows.
EnqueueRun(j, r) ==
    /\ ~Held /\ Live(j) /\ Managed(j) /\ job[j].desired = "on"
    /\ \A q \in RunIds : ~Absorbs(q, j)
    /\ FreshRun(r)
    /\ runs' = [runs EXCEPT ![r] = [NoRun EXCEPT !.st = "queued", !.job = j, !.at = now]]
    /\ runtime' = [runtime EXCEPT ![j].actual = "queued"]
    /\ UNCHANGED <<now, hold, job, outbox>>

TestNotification(j) ==
    /\ ~Held /\ Live(j) /\ Managed(j)
    /\ runtime[j].tests < MaxTests /\ runtime[j].tests + runtime[j].incidents < MaxIncidents
    /\ runtime' = [runtime EXCEPT ![j].tests = @ + 1]
    /\ outbox' = [outbox EXCEPT ![<<"test", j, runtime[j].tests + 1>>] = NewMessage]
    /\ UNCHANGED <<now, hold, job, runs>>

Cancellable_Sending(m) == outbox[m].st \in Pending /\ outbox[m].until <= now

\* Archiving cancels the incident alerts that may still be retried and is
\* refused while any other delivery of the job is pending.
Cancellable(m) ==
    m[1] \in Transitions /\ outbox[m].st \in {"queued", "failed"} /\ outbox[m].until <= now

Archive(j) ==
    /\ ~Held /\ Live(j) /\ Managed(j) /\ job[j].desired = "off"
    /\ ~LeaseActive(j)
    /\ job[j].revision < MaxRevision
    /\ \A m \in OutboxIds : m[2] = j /\ outbox[m].st \in Pending => Cancellable(m)
    /\ outbox' = [m \in OutboxIds |->
           IF m[2] = j /\ Cancellable(m)
           THEN [outbox[m] EXCEPT !.st = "cancelled", !.owner = NoOwner, !.until = 0]
           ELSE outbox[m]]
    /\ job' = [job EXCEPT ![j].st = "archived", ![j].revision = @ + 1,
                          ![j].updated = now]
    /\ runtime' = [runtime EXCEPT ![j].actual = "archived", ![j].next = 0,
                                  ![j].applied = job[j].revision + 1]
    /\ runs' = CancelQueued(j)
    /\ UNCHANGED <<now, hold>>

\* RoleStore.project_automation_jobs: the row of a role follows its duty, with no
\* look at the hold or the lease; the role's own state is an input here.  Each
\* role is written from its own state alone, so one role is one step.
ProjectRole(j, desired, shown, wake) ==
    LET row == IF Live(j) THEN job[j] ELSE [NoJob EXCEPT !.st = "live"]
        revision == row.revision + IF row.desired # desired THEN 1 ELSE 0
        kept == IF runtime[j].next # 0 THEN runtime[j].next ELSE now
    IN
    /\ ~Managed(j)
    /\ \/ Live(j)
       \/ /\ job[j].st = "absent" /\ RoomForJob
          /\ \A k \in Jobs : Template(k) = Template(j) => ~Live(k)
    /\ revision <= MaxRevision
    /\ shown = "disabled" => desired = "off"
    /\ shown \in {"running", "idle"} => desired = "on"
    /\ job' = [job EXCEPT ![j] = [row EXCEPT !.desired = desired, !.revision = revision,
                                             !.updated = now]]
    /\ runtime' = [runtime EXCEPT
           ![j].actual = shown,
           ![j].next = IF desired = "off" THEN 0
                       ELSE IF wake # 0 /\ shown = "idle" THEN wake ELSE kept,
           ![j].applied = revision]
    /\ runs' = IF desired = "off" THEN CancelQueued(j) ELSE runs
    /\ UNCHANGED <<now, hold, outbox>>

\* A release hold can neither be lifted by another party nor be relabelled.
SetGlobalHold(p, reason) ==
    /\ reason \in HoldReasons \cup {"none"} /\ reason # hold.reason
    /\ hold.reason = "release" => reason = "none" /\ p = hold.by
    /\ hold' = [reason |-> reason, by |-> IF reason = "none" THEN NoParty ELSE p]
    /\ UNCHANGED <<now, job, runtime, runs, outbox>>

-----------------------------------------------------------------------------
(* Scheduler: reconcile, claim, keep alive, finish *)

\* Applies the longest pending revision (ORDER BY updated_at, job_id; job ids
\* are random).  While a lease is active it only announces that a disabled job
\* is stopping.
Unapplied == {j \in Jobs : Live(j) /\ job[j].revision # runtime[j].applied}

Reconcile(j) ==
    /\ ~Held
    /\ j \in Unapplied
    /\ \A k \in Unapplied : job[j].updated <= job[k].updated
    /\ IF LeaseActive(j)
       THEN /\ job[j].desired = "off"
            /\ runtime' = [runtime EXCEPT ![j].actual = "stopping", ![j].next = 0]
            /\ UNCHANGED runs
       ELSE IF job[j].desired = "on"
       THEN /\ runtime' = [runtime EXCEPT
                  ![j].actual = RestState(j),
                  ![j].next = NextActive(now + job[j].sched.every, job[j].sched),
                  ![j].applied = job[j].revision]
            /\ UNCHANGED runs
       ELSE /\ runtime' = [runtime EXCEPT ![j].actual = "disabled", ![j].next = 0,
                                          ![j].applied = job[j].revision]
            /\ runs' = CancelQueued(j)
    /\ UNCHANGED <<now, hold, job, outbox>>

\* First half of claim_next_run: every expired lease fails its run and opens an
\* incident with one alert, unless the job already has an open incident.
Expired == {j \in Jobs : LeaseExpired(j)}
OpensIncident_Always == Expired
OpensIncident == {j \in Expired : runtime[j].incident = 0}

ReapedRuns_Forgotten == runs
ReapedRuns ==
    [r \in RunIds |-> IF /\ runs[r].st = "running"
                         /\ runs[r].job \in Expired
                         /\ runs[r].token = runtime[runs[r].job].token
                      THEN [runs[r] EXCEPT !.st = "failed"] ELSE runs[r]]
ReapedRuntime ==
    [j \in Jobs |-> IF j \in Expired
                    THEN [runtime[j] EXCEPT
                              !.actual = "error", !.owner = NoOwner, !.until = 0,
                              !.incident = IF @ = 0 THEN runtime[j].incidents + 1 ELSE @,
                              !.incidents = IF runtime[j].incident = 0 THEN @ + 1 ELSE @]
                    ELSE runtime[j]]
ReapedOutbox ==
    [m \in OutboxIds |-> IF /\ m[1] = "error" /\ m[2] \in OpensIncident
                            /\ m[3] = runtime[m[2]].incidents + 1
                         THEN NewMessage ELSE outbox[m]]

Claimable_AnyLease == {r \in RunIds : /\ runs[r].st = "queued" /\ Live(runs[r].job)
                                      /\ job[runs[r].job].desired = "on"}

\* Queued runs the claim may take, and jobs whose schedule is due.  A lease
\* that is not active here has just been reaped.
Claimable == {r \in RunIds : /\ runs[r].st = "queued"
                             /\ Live(runs[r].job) /\ job[runs[r].job].desired = "on"
                             /\ ~LeaseActive(runs[r].job)}
Due == {j \in Jobs : /\ Live(j) /\ job[j].desired = "on"
                     /\ runtime[j].applied = job[j].revision
                     /\ runtime[j].next # 0 /\ runtime[j].next <= now
                     /\ ~LeaseActive(j)}
DueInWindow == {j \in Due : InWindow(now, job[j].sched)}

Reap ==
    /\ ~Held
    /\ \A j \in OpensIncident : runtime[j].incidents + runtime[j].tests < MaxIncidents
    /\ outbox' = ReapedOutbox
    /\ UNCHANGED <<now, hold, job>>

\* The runtime row of a job whose run o starts, over the reaped row.
Started(j, o) ==
    [ReapedRuntime[j] EXCEPT !.actual = "running", !.owner = o,
                             !.until = now + LeaseSeconds, !.token = @ + 1]

\* Oldest queued run first (ORDER BY requested_at).
ClaimQueued(o, r) ==
    /\ Reap
    /\ r \in Claimable
    /\ \A q \in Claimable : runs[r].at <= runs[q].at
    /\ runtime' = [ReapedRuntime EXCEPT ![runs[r].job] = Started(runs[r].job, o)]
    /\ runs' = [ReapedRuns EXCEPT
           ![r].st = "running", ![r].owner = o,
           ![r].token = runtime[runs[r].job].token + 1,
           ![r].revision = job[runs[r].job].revision]

\* No run is queued: the earliest due job inside its window starts a run of its
\* own; a due job outside its window met before it is put off.
Deferred(D) ==
    [j \in Jobs |-> IF j \in D
                    THEN [ReapedRuntime[j] EXCEPT !.next = NextActive(now, job[j].sched)]
                    ELSE ReapedRuntime[j]]

ClaimDue(o, j, r, D) ==
    /\ Reap
    /\ Claimable = {}
    /\ j \in DueInWindow
    /\ \A k \in DueInWindow : runtime[j].next <= runtime[k].next
    /\ D \subseteq Due \ DueInWindow
    /\ \A k \in Due \ DueInWindow : /\ runtime[k].next < runtime[j].next => k \in D
                                    /\ k \in D => runtime[k].next <= runtime[j].next
    /\ FreshRun(r)
    /\ runtime' = [Deferred(D) EXCEPT ![j] = Started(j, o)]
    /\ runs' = [ReapedRuns EXCEPT ![r] =
           [st |-> "running", job |-> j, at |-> now, owner |-> o,
            token |-> runtime[j].token + 1, revision |-> job[j].revision]]

\* Nothing to claim: the reaping and the deferrals still commit.
ClaimNothing ==
    /\ Reap
    /\ Claimable = {} /\ DueInWindow = {}
    /\ runtime' = Deferred(Due)
    /\ runs' = ReapedRuns

Heartbeat(r) ==
    LET j == runs[r].job IN
    /\ runs[r].owner # NoOwner
    /\ OwnsFence(r) /\ LeaseActive(j)
    /\ runtime' = [runtime EXCEPT ![j].until = now + LeaseSeconds]
    /\ UNCHANGED <<now, hold, job, runs, outbox>>

\* cancel_run_claim: the executor found its claim superseded.
CancelClaim(r) ==
    LET j == runs[r].job IN
    /\ runs[r].st = "running" /\ OwnsFence(r)
    /\ runs' = [runs EXCEPT ![r].st = "cancelled"]
    /\ runtime' = [runtime EXCEPT
           ![j].actual = IF job[j].desired = "on" THEN RestState(j) ELSE "disabled",
           ![j].next = NextRun(j, job[j].sched.every),
           ![j].owner = NoOwner, ![j].until = 0,
           ![j].applied = job[j].revision]
    /\ UNCHANGED <<now, hold, job, outbox>>

\* finish_run: no look at the lease time, the hold or the archive; the fence
\* and the status of the run decide.
FinishRun(r, ok, delay) ==
    LET j == runs[r].job
        opens == ~ok /\ runtime[j].incident = 0
        closes == ok /\ runtime[j].incident # 0
        n == IF opens THEN runtime[j].incidents + 1 ELSE runtime[j].incident
    IN
    /\ runs[r].st = "running" /\ OwnsFence(r)
    /\ delay \in Delays \cup {job[j].sched.every}
    /\ opens => n + runtime[j].tests <= MaxIncidents
    /\ runs' = [runs EXCEPT ![r].st = IF ok THEN "succeeded" ELSE "failed"]
    /\ outbox' = IF opens THEN [outbox EXCEPT ![<<"error", j, n>>] = NewMessage]
                 ELSE IF closes THEN [outbox EXCEPT ![<<"recovery", j, n>>] = NewMessage]
                 ELSE outbox
    /\ runtime' = [runtime EXCEPT
           ![j].actual = IF ~ok THEN "error"
                         ELSE IF job[j].desired = "on" THEN "idle" ELSE "disabled",
           ![j].next = NextRun(j, delay),
           ![j].owner = NoOwner, ![j].until = 0,
           ![j].incident = IF ok THEN 0 ELSE n,
           ![j].incidents = IF opens THEN n ELSE @,
           ![j].applied = job[j].revision]
    /\ UNCHANGED <<now, hold, job>>

-----------------------------------------------------------------------------
Control ==
    \/ \E j \in Jobs, s \in Schedules :
          Create(j, s) \/ SetSchedule(j, s)
    \/ \E j \in Jobs : SeedDefaults(j) \/ Enable(j) \/ Disable(j) \/ TestNotification(j) \/ Archive(j)
    \/ \E j \in Jobs, r \in RunIds : EnqueueRun(j, r)
    \/ \E j \in Jobs, desired \in {"on", "off"} :
          \E shown \in {"error", "running", "idle", "disabled"}, wake \in 0..MaxTime :
             ProjectRole(j, desired, shown, wake)
    \/ \E p \in Parties, reason \in HoldReasons \cup {"none"} : SetGlobalHold(p, reason)

Scheduler ==
    \/ \E j \in Jobs : Reconcile(j)
    \/ \E o \in Owners, r \in RunIds : ClaimQueued(o, r)
    \/ \E o \in Owners, j \in Jobs, r \in RunIds, D \in SUBSET Jobs : ClaimDue(o, j, r, D)
    \/ ClaimNothing
    \/ \E r \in RunIds : Heartbeat(r) \/ CancelClaim(r)
    \/ \E r \in RunIds, ok \in BOOLEAN :
          \E delay \in Delays \cup {s.every : s \in Schedules} : FinishRun(r, ok, delay)

Next == Tick \/ Control \/ Scheduler

Spec == Init /\ [][Next]_vars

-----------------------------------------------------------------------------
(* Safety *)

Running(j) == {r \in RunIds : runs[r].job = j /\ runs[r].st = "running"}
Queued(j) == {r \in RunIds : runs[r].job = j /\ runs[r].st = "queued"}

\* The lease on a job and its running run stand for each other through every
\* disable, reschedule, archive, hold, expiry and re-claim: a run is running
\* exactly while the runtime row carries its owner and fence, and a job shown
\* as running or stopping has a run that will take it out of that state (the
\* state shown for a role is that of the role, not of its wake-up runs).
RunningHoldsFence ==
    \A j \in Jobs :
        /\ \A r \in Running(j) : OwnsFence(r)
        /\ runtime[j].until # 0 <=> Running(j) # {}
        /\ runtime[j].owner # NoOwner <=> runtime[j].until # 0
        /\ Managed(j) /\ runtime[j].actual \in {"running", "stopping"} => runtime[j].until # 0

\* "Run now", the schedule and the re-claim after an expiry together never put
\* a job to work twice at the same time, nor queue it twice.
NoDuplicateWork ==
    \A j \in Jobs : Cardinality(Running(j)) <= 1 /\ Cardinality(Queued(j)) <= 1

\* A job that is on and whose revision is applied always has a next run time, and
\* one that is off has nothing scheduled and nothing queued, whatever its last run
\* still does: no order of disabling, enabling, finishing and expiry loses the
\* schedule or leaves a rest of it.
ScheduleFollowsSwitch ==
    \A j \in Jobs :
        /\ Live(j) /\ job[j].desired = "on" /\ runtime[j].applied = job[j].revision
              => runtime[j].next # 0
        /\ job[j].st # "absent" /\ job[j].desired = "off"
              => runtime[j].next = 0 /\ Queued(j) = {}

\* Every incident has exactly one error alert, written when it opens, and one
\* recovery alert exactly when it has been closed; only the last one is open.
IncidentAlertedOnce ==
    \A j \in Jobs :
        /\ runtime[j].incident \in {0, runtime[j].incidents}
        /\ \A n \in 1..MaxIncidents :
              /\ outbox[<<"error", j, n>>].st # "absent" <=> n <= runtime[j].incidents
              /\ outbox[<<"recovery", j, n>>].st # "absent"
                    <=> n <= runtime[j].incidents /\ n # runtime[j].incident

AtRest(j) ==
    /\ Managed(j) /\ Live(j) /\ runtime[j].until = 0 /\ Queued(j) = {}
    /\ job[j].desired = "on" /\ runtime[j].applied = job[j].revision

\* What status shows the owner: once a revision is applied, a job at rest is in
\* "error" exactly while its incident is open, also after a superseded run was
\* cancelled or the job was switched off and on.
StatusTellsIncident ==
    \A j \in Jobs : AtRest(j) => (runtime[j].actual = "error" <=> runtime[j].incident # 0)

\* Archive resolves unsent incident alerts (tests/test_automation_archive_alerts.py):
\* an archived job, whose alerts no claim_outbox ever takes, has none left.
ArchivedHasNoPendingDelivery ==
    \A m \in OutboxIds : job[m[2]].st = "archived" => outbox[m].st \notin Pending

\* Until a lease runs out nobody else gets the fence of its job, and nobody can
\* shorten it: it ends by its own holder's run or by time.
ActiveLeaseNeverStolen ==
    [][\A j \in Jobs : LeaseActive(j) =>
          /\ runtime'[j].token = runtime[j].token
          /\ \/ runtime'[j].owner = runtime[j].owner /\ runtime'[j].until >= runtime[j].until
             \/ \E r \in Running(j) : OwnsFence(r) /\ runs'[r].st \in Terminal]_vars

\* A run that was overtaken by "off" can never again act on the outside world,
\* even when the job is switched on again while it still holds its lease.
OffRevokesClaim ==
    [][\A r \in RunIds :
          runs[r].st = "running" /\ job[runs[r].job].desired = "off"
              => ~ClaimIsCurrent(r)']_vars
=============================================================================
