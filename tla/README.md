# AutostopManager: TLA+ verification

TLA+ models, TLC configurations and TLAPS proofs kept beside the code of
AutostopManager. Everything is translated from the Python source under
`src/autostop_manager/`; `PROJECT.json` maps each definition to its lines.

## 1. The system

AutostopManager is a set of long-lived processes around one workstation: an
automation daemon that runs periodic jobs and alerts the owner, a Telegram
bridge that owns the work account, a wake dispatcher that turns client messages
into Codex turns, a role controller for two duty agents (M1, M2), an MCP server
with research and Store tools, and maintenance scripts. Durable state is SQLite
(one file for automation, roles and the run ledger, one for the Telegram inbox,
one per VIN job) and a few JSON ledgers.

| Component | State | Operations | Hard behaviour | Correct when |
|---|---|---|---|---|
| Automation store (`automation_registry.py`) | jobs, runtime rows with lease and fence, runs, outbox, hold, cursors | control commands, reconcile, claim, heartbeat, finish, cancel | commands between claim and finish, expired leases, late finishes | one run per job at a time, the lease and the run stand for each other, no incident is lost or told twice |
| Automation outbox (`automation_registry.py`, `automation_daemon.py`) | rows queued / sending / sent / failed / cancelled with their own lease and fence | claim, recheck, preview, apply, finish, cancel, block, recover | crash or timeout after the request left | the row is true of the chat; nothing is sent twice |
| Automation daemon (`automation_daemon.py`) | owner id, claims in memory | scheduler loop, shutdown drain | head-of-line waits, shutdown during a claim | every claim is settled or left to expiry; the loop does not starve |
| Control socket (`automation_control.py`) | command journal | 7 write operations, previews, status | replay, stale revisions | a command acts once |
| CRM digest (`automation_jobs.py`) | seven cursors, CRM feed position | prepare, send, verify, acknowledge, resume | crash between any two writes | each CRM event is reported once and acknowledged only then |
| System timers (`automation_timers.py`) | systemd units and drop-ins, rows | enable, schedule, adopt | systemd changed inside a DB transaction | row and unit agree or it shows |
| Roles (`role_coordination.py`, `role_executor.py`) | role state, items, approvals, dispatches | actions, dispatch, reconcile, goals | unknown launches, instruction changes | one turn per dispatch, nothing after duty ends |
| Telegram inbox (`telegram_inbox.py`) | events, jobs, slot, effects, peer threads | record, claim, start, effect, finish, recover | restart in the middle of a turn | one answer per message; started work is never repeated blindly |
| Telegram bridge (`telegram_bridge.py`, `telegram_effects.py`) | idempotency ledger, effect lane | send, readback, media | lost answers, lane timeouts | one message per key |
| Wake dispatcher (`telegram_wake.py`) | wake queue, app-server session | accept, dispatch, observe turns | lost transport, failed turns | every open event is dispatched or visibly held |
| Run ledger (`storage.py`, `action_contract.py`) | workflow runs, external steps, Store checkpoints | start, transition, checkpoint, acknowledge | agent stops between calls | only verified runs complete; no page is skipped |
| Store (`store_integration.py`, `store_quote_conductor.py`) | phases in the run ledger | dry run, apply, readback, compensate | apply outcome unknown | a change is reported done only if read back |
| J1 / VIN queue (`j1_*.py`) | per-job database, queue rows | create, run, cancel, prune | worker dies in an operation | two attempts at most, limits hold |
| Executors (`mcp_*_executor.py`, `bounded_http_read.py`) | admissions, worker threads | admit, run, drain | cancelled waiters leave threads running | limits count real workers; drain waits for them |
| Backup, disk maintenance (`scripts/`) | journals of phases | snapshot, deliver, retain, restore | crash between phases | a resumable phase is never done twice |
| Parsers, catalogues, pricing, diagnostics | none | requests | - | not modelled: stateless |

Interaction: the control socket and the scheduler meet only in SQLite, where
every public method of `AutomationStore` is one `BEGIN IMMEDIATE` transaction.
The daemon talks to the bridge over a Unix socket (preview, apply, lookup), and
the role controller writes its duty into the automation tables. Inbox, wake and
bridge share the inbox ledger, which only the bridge opens.

`PROJECT.json` lists 40 hazards at their lines: what this code can get wrong
that a unit test would hardly reach. The properties aim at those.

## 2. Plan

In this order; all but the last two are done, of the ninth the executor's part.

1. `AutomationRuns`, with its part of `AutomationProofs`.
2. `AutomationOutbox`, extending 1 with the daemon's delivery steps and the bridge;
   the other part of `AutomationProofs`.
3. The first theorems: types, the fence invariant, exclusive leases.
4. `OwnerBridge`: the send protocol over `idempotency.json` on its own, for any
   clients, with the theorem that a key is sent at most once; instantiated by 2 and 5.
5. `CrmDigest`: the digest executor's cursor protocol over the fenced cursor
   writes, refining an abstract "each event reported once, then acknowledged";
   `CrmDigestProofs`.
6. `AutomationDaemon`: order of the scheduler loop, heartbeat and shutdown,
   with fairness: due work is taken, a shutdown ends; `AutomationDaemonProofs`.
7. `EffectLane`: the bridge's queue of external effects, with `EffectLaneProofs`.
8. `TelegramInbox`, the ledger of client messages for any callers, and
   `TelegramTurns`, which composes it with dispatcher, app server, bridge and
   people; `TelegramProofs`.
9. `RoleDuty`: rows, dispatches and goal of a duty agent under the role executor;
   `RoleDutyProofs`. Left for later: tasks and approvals.
10. `VinQueue`: the research queue of J1 with the private databases of its VIN jobs;
   `VinQueueProofs`.
11. `AutomationCommands` (replay of `execute_command`), `ActiveWindow`
   (`next_active_time` against a reference definition), timers.
12. Run ledger and Store checkpoints, quote conductor, executors, backup coordinator.

Theorems worth adding: those of the modules of 11 and 12 when they are written.

## 3. Modules

### AutomationRuns

`AutomationStore` as a state machine over its tables:

| Variable | Table |
|---|---|
| `job` | `manager_automations`: desired state, revision, schedule, `updated_at`, archived |
| `runtime` | `manager_automation_runtime`: actual state, next run, lease owner / until / fencing token, applied revision, incident |
| `runs` | `manager_automation_runs`, numbered in the order they are inserted |
| `outbox` | `manager_automation_outbox`, keyed by what `idempotency_key` names |
| `hold` | the global hold of the controller row |
| `now` | the clock, in the seconds the ISO stamps are kept in |

One action per public method, named after it: `Create`, `SeedDefaults`,
`Enable`/`Disable` (`set_enabled`), `SetSchedule`, `EnqueueRun`,
`TestNotification`, `Archive`, `SetGlobalHold`, `ProjectRole`
(`project_automation_jobs`), `Reconcile`, `Heartbeat`, `CancelClaim`,
`FinishRun`. `claim_next_run` is three actions, one per outcome (`ClaimQueued`,
`ClaimDue`, `ClaimNothing`), which share the reaping half (`Reap`).

Choices:

- A claim is the (owner, fence, revision) of its run row, so the rows stand for
  what holders carry, and any holder may finish, cancel or keep alive at any
  time: the model does not ask whether that process is still alive.
- A global hold keeps work from being claimed and refuses the commands; a
  creation passes it (`execute_command` answers one before it looks at the hold).
- A refusal rolls the transaction back and is no step. A command with a stale
  `expected_revision` is such a refusal, so commands carry no revision here.
- The active window enters through `InWindow` and `NextActive`, constants with
  the assumption `WindowsOK` (the next active time is not in the past).
- Reading the clock and the tables is one step. Some methods read the clock just
  before they wait for the write lock, and may judge a lease by a time some seconds
  old; the fence still decides once another owner has claimed.
- Left out: display names, `last_run_at`, error codes, `coalesced_count`,
  attempts, cursors, system timers, schema migration.

### AutomationOutbox

Extends `AutomationRuns` with the outbox transactions, with
`AutomationDaemon._execute_outbox` split at each of its awaits (`delivery`), and
with an instance of `OwnerBridge` whose keys are the outbox rows. Two daemon
incarnations run one after the other; `CrashDaemon` may strike between any two
steps, and a request that has left lives on. A timeout of the daemon is
`Uncertain`: possible in every state of the request.

### OwnerBridge

`_handle_owner_notification` of the Telegram bridge for any clients: the requests
that are under way (`requests`, one per key and attempt), `idempotency.json`
(`ledger`: no entry, a durable intent, a known message, a verified one) and the
owner's chat (`chat`, external). The bridge handles one request at a time (its
effect lane) and may drop it at any point: refusal, lost answer, lane timeout,
cancellation and crash look the same from outside. A request dropped while
Telegram works on it is `adrift`: its message may arrive later (`Arrive`). A key
with an entry but no known message is refused; a known message is only read back.
The text of a key never changes, which its hash in the ledger enforces.

### CrmDigest, DigestFeed

`CrmDigestExecutor._execute` over its cursors, between the CRM's change feed
(external: events published, cut into digests, acknowledged) and an instance of
`OwnerBridge` whose keys are the digests. A worker is one claim, named by its
fence. Every cursor write is a transaction of its own that asks for the lease, so
the writes of a step are a list (`todo`) that `WriteCursor` takes one by one: a
worker may stop between any two, and may go on reading, sending and acknowledging
after its lease has ended, while the next claim resumes the same delivery. `seen`
is what the run carries of the digest after it read the cursors. One claim at a
time holds the lease, which `AutomationProofs` proves of the store.

The read and the summary of the feed are one step, and so are the dry run and the
look at the claim after it: between them the code writes nothing. What the CRM
does with an unacknowledged stretch is outside this repository, so `Init` chooses: either it cuts the stretch anew
under a new id (`feed.recuts`), or the same digest comes back, and then the job
may also be archived and created again (`Recreate`), which forgets its cursors.
Both at once would tell events twice (section 6).

`DigestFeed` is the abstract promise: events are told in order and without gaps,
each once, and exactly what was told is acknowledged before the next is told.

### AutomationDaemon

The daemon's process: `run()` (`main`), `scheduler_loop`, its heartbeat task,
`role_loop`, and the task of `_finish_shutdown` (`cleanup`), with the controller
row they write and the two `TrackedTransportAdmission`s whose worker threads may
outlive their callers. The store appears as counts of what it would hand out
(`work`) and whether the lease of a dead daemon blocks the oldest revision
(`leased`). `Take` is an iteration of the loop up to its first await that does not
come back at once. A global hold is left out: a held store hands out nothing. What
may fail does: a transaction (`Raise`), a role tick (`RoleTick`), a write of the
row, the closing of the server. What fails in the cleanup is raised again when `run()`
ends (`failure`).

### EffectLane

`EffectExecutor`: `queue` is `_pending`, `worker` the task of `_consume` (with the
submission it holds, and whether `close()` cancelled it), `ops` the operations
that have not ended, `answer` the futures. A submission's waiter may go away, its
timer may fire, its operation may end at any time, resist its cancellation or
never end; the worker's turn is one action per reason it wakes up. `unwoken` are
the clients that hold a progress event nobody has set yet. `Proceed` is the loop
of `_consume` from one execution to the next; a queued submission that is late by
a moment is answered "queue timeout" there, where the code may say "effect
timeout". Submissions and operations are external.

### TelegramInbox

`TelegramInbox` (`telegram_inbox.py`) as a state machine over its tables: `event`
(clients' messages), `job` (requests, which hold the messages of one client),
`effect` (what a request says to its client), `slot` (`global_slot`), `thread`
(`peer_threads`), `control` (`client_controls`), `duty` and `paused`. One action per
public method, each one transaction, named after it; `InboxNext` groups them by who
may call: `PeerCall`, `ExecutionCall` (the dispatcher's calls, `_job_execution_control`)
and `AgentCall` (`_handle_job_operation`). A refused call is no step.

Choices:

- A revision is kept as what it is compared for: `current` says that a request
  carries the present revision of its client's context, `same` and `exact` say
  whether an effect does, and was made for exactly the messages of its request.
- `answered` stands for the outcomes that demand a covering receipt. Effects are
  acknowledgements, results or clarifications (`Kinds`); the slot admits one
  effect per kind and request, so numbered slots are left out.
- A message is admitted by the time it was written at, if an open or a closed window of
  the duty covers it, so also after the duty went off (`duty` is "never" before the first
  window). A window covers a second in part or the owner's role changed: then the message
  is held in a request of its own at once (`RecordHeld`). `record` has a branch that holds
  it without a request, for an inbox without instructions; the bridge configures them
  (`_configure_durable_instructions`) before it serves or records anything.
- Guidance (`Guide`) outdates what was read, and a resumption also releases what waits for
  it; a resumption of a client who is active already does so too.
- A thread an operator binds may not be durable yet and then stays "creating".
- `DeadlinePasses` withdraws a grant where the code compares it with the clock.
- Left out: routes of the owner, the imports of older ledgers (their
  `effects_review_required` is a constant 0 afterwards), checkpoints, health rows,
  pruning, texts and media. `recover_on_startup` is called by nothing in `src/`.

### TelegramTurns

Extends `TelegramInbox` with its callers. `wake` is where the dispatcher's `work`
stands (claimed, before the start, asked, waiting, stopping, held) and whether it
*knows* that no turn was started; `turn` is what the app server has (external);
`send`, `flying`, `ledger`, `chat` are the bridge's job-bound send, step by step: the
intent goes to the inbox, then to `idempotency.json`, the message to Telegram, its id
to the ledger, the verification to the ledger and then to the inbox. `WakeCrash` and
`BridgeCrash` may strike between any two steps; a message in flight arrives or not.
Clients write and edit, staff writes in the chat and takes clients over, the operator
sets duty, pauses, resumes, retries and continues. That `TurnsSpec` changes the inbox
only by `InboxNext` is proved (`TurnsCallInbox`).

### RoleDuty

One duty agent: its row in `role_state` (`role`), `role_dispatches` (`dispatch`) and
`role_items` (`item`), the Codex thread it is bound to (`goal`, `turn`, `carries`: which
turn got the message of a dispatch, external) and the pass of `RoleExecutor.tick` over
them (`tick`), cut at each request to Codex. What a pass carries is `tick.snap`, the row
as it read it; revision and generation are kept as what they are compared for,
`tick.same`: a command leaves of what the pass has read everything, the generation, or
nothing the same. Passes exclude each other by a file lock, but commands, people and the
agent move between any two steps of one.

`Look` starts a pass; `Reconcile` judges one dispatch each (a known turn by the list of
turns, a lost one by `clientUserMessageId`); `Consult` reads the row again. `Goal*` and
`Set*` are `_sync_goal`, `Prepare` to `Outcome` are `_dispatch`, `FailDispatch` is
`_instruction_failure`, `Hold*` are the instruction hold and the stop of a duty. A
request may be refused or lose its answer, carried out or not, at every step; `Crash`
ends a pass anywhere and forgets what was refused (`refused`).

Choices: the thread is bound, on this host, with the right model; instructions verify or
they do not (`BundleIsBad`, `DispatchFails`, `InjectFails`); a list of turns fits one
page; a request whose answer was lost has reached Codex before the next pass, or never
does; Codex refuses a turn on a busy thread. A goal that is complete is one that is
paused. Left out: tasks, notes, approvals, binding, instruction pins, foreign goals.

### VinQueue

The research queue of J1 (`j1_research.py`, `j1_vin_store.py`, `j1_vin_worker.py`,
`j1_vin_research.py`). `pointer` is the status of a row of the queue database; a public
job has its work there too (`public`), a VIN job in a database of its own on tmpfs
(`private`, or `Lost`), with a lock each (`lock`) beside the common `start.lock`
(`startLock`). `worker` is where the one worker stands, `caller` where an API call
stands; both are cut at every commit and at every lock, so a transaction over both
databases (`Enqueue` then `CommitEnqueue`, `Publish` then `CommitPublish`,
`MarkFailed` then `ReconcileCommits`) is two steps between which either may die, the tmpfs
fill up (`full`), or the job expire (`Lose`). A start holds `start.lock` and the write lock
of the queue over both of its commits, so nobody sees what is between them but who comes
after a crash there (`StartVin_Dies`).

Choices:

- A unit of work is a query, a document or an OCR page; which pending one is next is
  left open. An answer may bring new units (documents of a search).
- `left` is what remains of `MAX_SECONDS`, in units whose last one stands for the
  0.01 s below which the worker begins nothing. `final` says that the analysis was
  finalized and nothing has changed since.
- Expiry, deletion and a boot of the host are one loss (`Lose`); `Prune` and `MarkLost`
  write it into the row. Reading calls are a `Call` that repairs and then ends like a
  refused one.
- `CollectError` is an error of the kinds `run_job` handles; any other, anywhere in
  `run_job`, fails the row alone (`WorkerFails`).
- The switch that disables VIN research is read anew in each `_next_operation` and
  `_finish_operation`, and any reading may find it on or off, which is more than the
  environment variable of one process can do. The private status "cancelled" of a job
  nobody cancelled is kept apart as "disabled"; the field `switched` is a history, which
  only `FinalIsQuiet` reads. Calls that a disabled switch refuses are no steps.
- A repair reads whether the job has settled before the transaction that settles it
  (`Repair`, `RepairCommits`; `Reconcile`, `ReconcileCommits`): a cancel may come between.
- A wait for a lock is not bounded: the five seconds of SQLite are left out. The reading
  of the private status and the writing of the row in the worker's last transaction are
  one step: the transaction holds the private lock.
- Left out: facts recorded without finalizing, idempotent replays, old public jobs being
  pruned.

### MCAutomationRuns, MCAutomationOutbox, MCOwnerBridge, MCCrmDigest, MCAutomationDaemon, MCEffectLane, MCTelegramTurns, MCRoleDuty, MCVinQueue

Values for the constants; nothing else.

### AutomationProofs, OwnerBridgeProofs, CrmDigestProofs, AutomationDaemonProofs, EffectLaneProofs, TelegramProofs, RoleDutyProofs, VinQueueProofs

See section 5.

## 4. Runs

| Run | Module, cfg | Checks | Bounds |
|---|---|---|---|
| `one_job` | MCAutomationRuns, `AutomationRuns.cfg` | fence, duplicates, schedule, incidents, status, what a step may never do | a managed or a role's job, 1 daemon, 2 schedules, clock to 4, 2-second leases, 3 changes of the revision, 2 runs, 2 incidents, or 1 and a test |
| `archive` | MCAutomationRuns, `AutomationArchive.cfg` | expected violation, see section 6 | 1 job |
| `outbox_alert` | MCAutomationOutbox, `AutomationOutbox.cfg` | truth of the row, no blind resend, nothing sent for an archived job | a managed or a role's job, 1 incident or 1 test, 2 daemon incarnations, clock to 3 |
| `owner_bridge` | MCOwnerBridge, `OwnerBridge.cfg` | one message per key, answers are proof | 2 keys, 3 attempts each |
| `crm_digest` | MCCrmDigest, `CrmDigest.cfg` | complete cursors, nothing outstanding unrecorded, told once, implements `DigestFeed` | 2 events, 2 digests, 3 claims; 1 event and 2 claims where the feed keeps digests |
| `effect_lane` | MCEffectLane, `EffectLane.cfg` | one effect at a time, refusals, job work, answers and wake-ups, close | 4 submissions, 2 jobs, 1 place in the queue |
| `daemon` | MCAutomationDaemon, `AutomationDaemon.cfg` | a true "stopped", the feed of a run, shutdown ends, work is taken | 2 arrivals of work, 2 failing transactions |
| `telegram_turns` | MCTelegramTurns, `TelegramTurns.cfg` | slot, messages, turns, one answerer, one send, closed by an answer | 1 client, 2 messages, 2 requests, 2 effects, 2 troubles |
| `stranded` | MCTelegramTurns, `TelegramStranded.cfg` | expected violation, see section 6 | the same |
| `role_duty` | MCRoleDuty, `RoleDuty.cfg` | known turns, the active launch, true receipts, owned goals, a stop ends goal and turns | 1 owner event, 2 launches, 1 trouble |
| `vin_queue` | MCVinQueue, `VinQueue.cfg` | added work stays scheduled, one active job, two attempts at most, a final analysis is quiet | 1 VIN job, 1 public job, 2 units, 1 call at a time, 2 seconds, 2 troubles |
| `vin_stuck` | MCVinQueue, `VinStuck.cfg` | expected violation, see section 6 | 1 VIN job, 1 trouble |

What they show.
`RunningHoldsFence`: the lease and the running run stand for each other.
`NoDuplicateWork`: at most one running and one queued run per job.
`ScheduleFollowsSwitch`: an applied job that is on has
a next run, a job that is off has none, in any order of disable, enable, finish,
reconcile and expiry.
`IncidentAlertedOnce`: one error alert per incident and one recovery exactly when
it is closed. `StatusTellsIncident`: what status shows is true of the incident.
`ActiveLeaseNeverStolen`, `OffRevokesClaim`: what a step may never do to a lease and
a superseded claim.
`StatusIsTrue`: "sent" is one message in the chat; "queued", "failed" and
"cancelled" are none, also later. `NeverBlindlyResent`: one request of unknown
outcome is the last one. `ArchivedSendsNothing`.
`SentOncePerKey`: however often a key is requested and wherever the bridge stops,
its message arrives once at most. `AnswersAreProof`: what clients conclude from an
answer is so.
`PendingIsComplete`: a state the next run finds has all its parts.
`NothingOutstanding`: where the cursors allow a new digest, no message of an
earlier one has left or can still leave. `PromiseKept`: each step of the executor,
the bridge and the feed is a step of `DigestFeed` or changes nothing of it.
`OneOperation`: effects never overlap, also when one outlives the lane.
`RefusedNeverBegins`: who was refused may try again. `JobWorkIsVisible`: a job is not
declared finished under a running effect.
`AnsweredWhileOpen`, `RefusedIsWoken`, `CloseEnds`: nobody waits for ever on an
open lane, whatever the effects do.
`StoppedIsTrue`: the row says "stopped" only when every task and thread is gone and no
role failed, so that nothing takes it back; `run()` ends with the control socket closed,
or with an error. `RunKeepsItsFeed`: a digest in hand
may be acknowledged also during a shutdown. `LiveJobHoldsSlot`, `TurnHoldsSlot`:
one request is worked on at a time, and no turn runs beside it that a restart has
lost. `EventsFollowJobs`: no message is left with a request that is over.
`OneAnswerer`: a request that may have said something about a message is not given up
for another. `SentOnce`: one message per effect, and ledger, inbox and chat agree.
`ClosedByAnswer`: an answered message has an answer to its present text in the chat. `ShutdownEnds`; `WorkIsTaken`: due
deliveries and runs are reached behind revisions, dead leases and errors.
`TurnsAreKnown`: no turn works on a message whose dispatch is settled, so nothing is
launched beside it. `ActiveStands`: the row points to the launch that may be under way,
and to nothing else. `ReceiptIsTrue`: a receipt of the owner tells what became of his
event. `GoalIsOwned`: a goal Codex pursues by itself is one a stop will pause.
`StopEnds`: after a stop, goal and turns of the duty end unless Codex refuses.
`WorkIsScheduled`: work that was added, found or interrupted is in a job that both
databases call active, or whose failure the queue row shows, unless an agent or the switch
cancelled it. `OneActive`: one research job
is active at a time, whichever call or step wrote the row. `TriedTwiceAtMost`.
`FinalIsQuiet`: no operation runs for an analysis that was declared final, unless it
was one that a switched-off worker had ended (section 6).

Bounds. A run needs two runs to overlap in time (one running and one queued, or
one late and one re-claimed) and four clock values to queue, claim, expire and
claim again; the revision needs three changes for off / on / off around a run;
two incidents tell "the same" from "the next". Leases last two seconds in
`one_job` so that a heartbeat can extend one. In the outbox two incarnations
are enough for a crash before, during and after recovery, and three clock values for
claim, expiry with recovery, and one retry; there a job has an incident or a
test notification, not both, and holds are left to `one_job` and to the proofs. In the bridge a third attempt can
meet one that is adrift and one in the lane. In the digest two digests tell "the
same stretch again" from "the next", and three claims are a holder, a worker that
outlived its lease and one that resumes; two events let a digest overlap, extend
or follow the other. In the lane four
submissions are one at work, one queued, one refused and one behind them; in the
daemon two pieces of work tell the kinds that go first from those that wait, and
two errors fail a transaction and the next one. With Telegram two messages are one
in hand and one that joins, edits or follows it, two requests one that failed and
one that might answer again, and two troubles one that causes a recovery and one
that strikes it; crashes, timeouts, failed sends, edits, interventions of staff,
held messages, an agent that gives up, a pause and the duty going off count as troubles, while
their end, retries and continuations are free. With a role two launches are one whose answer was
lost and one beside it, or a duty turn and a message that joins it; troubles are lost and
refused requests, crashes, bad instructions, holds, sleeps, checkpoints, limits and
pauses by hand, while start, stop, the work of the agent and the passes are free. One
trouble is enough there for `StopEnds`; the invariants are proved for any number. The
Telegram runs have effects of kind "result" only; what tells the kinds apart is covered by
the proofs about the inbox. In the research queue two units are one at work and one added,
found or retried; two seconds are one to work in and the last one; troubles are crashes of
the worker or of a call, unexpected errors, stops, a full tmpfs and a loss, and two of them
interrupt an operation and its retry, or a repair. One call at a time meets the worker
between any two commits; two calls that meet each other are left to the proofs. The invariants are proved for any number of all of them. Bounds are guards on counters
(`MaxJobs`, `MaxTime`, `MaxRevision`, `MaxRuns`, `MaxIncidents`, `MaxTests`, `MaxEvents`,
`MaxDigests`, `MaxClaims`, `MaxKept`, `MaxKeptClaims`, `MaxArrivals`, `MaxErrors`, `MaxTroubles`, `MaxDispatches`, `Seconds`): where one is reached the step is missing, never altered.

The outbox runs check no deadlock: both incarnations may have died at the end of
time, and the system really stops. Nor do the bridge, digest, lane, daemon and Telegram runs:
clients, claims and submissions are finite there, any worker may stop, and a daemon
that has exited is over. `Incarnations` and the units of `vin_queue` are
interchangeable (symmetry); those runs check no liveness.

Fairness. `EffectLane` and `AutomationDaemon` assume weak fairness of what the
event loop owes: every ready task gets a turn and every timer fires. Of what is
outside they assume only what a timeout of the code or the clock ends: a lease
runs out, a CRM request's worker thread ends with its socket timeout, a role
tick and a claimed run with the timeouts of their calls. Nothing is assumed of
effects (the lane must cope with one that never ends), of clients, of new work, of
signals or of failures. `AutomationRuns`, `AutomationOutbox`, `OwnerBridge`,
`CrmDigest` and `TelegramTurns` state no fairness and claim no liveness: their processes may die.
`RoleDuty` assumes weak fairness of the pass: `role_loop` makes one every few seconds, also
after an error, and each of its requests has a timeout. Nothing is assumed of Codex, whose
turns may last for ever, nor of the owner; that troubles end is the bound `MaxTroubles`.
`VinQueue` assumes strong fairness of the worker (its service restarts it, and flock and
SQLite serve who waits for a lock that is free again and again) and of a call under way;
nothing of new calls, nor that a full tmpfs gets room.

Each property has a mutant in `PROJECT.json`: a change of a mapped definition
that a plausible bug would make, under which TLC finds it violated.

## 5. Proofs

`AutomationProofs` has two parts. The first assumes `ConstantsOK` and `WindowsOK`
of `AutomationRuns`, nothing else. Its results hold for any number of jobs,
daemons, runs, incidents, schedules and any window function. The first result is
`TypeCorrect == Spec => []TypeOK`.

The inductive invariant is `FenceInv`. `RunningHoldsFence` alone is not
inductive: that finishing one run leaves no other running run behind the
cleared lease needs "one running run per job", and that a fresh row starts
without a lease needs "runs belong to rows that exist". `Fence(jb, rt, rn)`
adds both, and "one queued run per job", over the three tables as parameters.
With parameters, `claim_next_run` is two lemmas after each other: reaping
(`FenceReap`, from the tables to the reaped tables) and starting a run
(`FenceStart`, from the reaped tables). `FenceFrame` covers all steps that touch
no lease, `FenceEnd` a run that ends with its lease. From `FenceCorrect` follow

- `FenceHeld == Spec => []RunningHoldsFence`,
- `WorkIsNotDuplicated == Spec => []NoDuplicateWork`,
- `LeaseIsExclusive == Spec => ActiveLeaseNeverStolen`, which also needs that no
  lease reaches further than `now + LeaseSeconds` (`LeaseBounded`), or a
  heartbeat might shorten one.

`StatusInv` adds what the rows tell. The three properties of a row (`RowOK`) are nearly
inductive; they need that no revision is applied before it is made, or an "enable" could
find its revision applied and a job at rest without a next run, and that a row that does
not exist has no incident, or a new row would deny alerts. `RunsBehind` says that a run is
at most as new as its job, and older once it is off. `JobsMoveOn` and `RunsMoveOn` say what
a step may do to a job's revision and to a run. From `StatusCorrect == Spec => []StatusInv` follow

- `ScheduleFollows == Spec => []ScheduleFollowsSwitch`,
- `IncidentsAlerted == Spec => []IncidentAlertedOnce`,
- `StatusIsTold == Spec => []StatusTellsIncident`,
- `OffRevokes == Spec => OffRevokesClaim`.

The second part of `AutomationProofs`, on the deliveries, adds `RetryOK`. `StatusIsTrue` is not inductive: that a "failed"
row has no message, now or later, rests on what the daemon knew when it wrote the row, and
that on the bridge. `OutboxInv` has a part for each. `BridgeInv`: one request of a
notification was not refused (`OneLive`), while it is on its way the chat is empty
(`Unarrived`), "ok" is a message (`Proven`), and a notification of which every request
was refused is unheard (`Clean`, `Unheard`). `RowTrue` says what the row tells of that,
and that an archived job has nothing out. `HandOK` says what the daemon that has a claim in
hand may rely on: the row shows it, before "applying" nothing of it has left unless
the claim is a recovery, and later only under its own fence; so a claim that
follows a crash is a recovery, which never asks again. Test notifications are numbered
without gaps (`TestsCounted`), or a new one might overwrite a row. `StatusInv` is carried
along for the rows of jobs and runs. A step is one of the store (`StoreStep`: all it may
do to rows is `StoreMoves`), of the bridge (`BridgeStep`, `BridgeMoves`), of the
delivery (`DeliverStep`, one case per action, most of them by `ReleaseStep`) or of the
process. Results:

- `StatusTold == OutboxSpec => []StatusIsTrue`,
- `NotResent == OutboxSpec => []NeverBlindlyResent`,
- `ArchiveIsQuiet == OutboxSpec => ArchivedSendsNothing`,
- `ClientOfTheBridge == OutboxSpec => Bridge!Spec`: the composition makes only the steps
  `OwnerBridge` allows, so the results of `OwnerBridgeProofs` hold of its notifications.

`OwnerBridgeProofs` assumes nothing of its constants. `SentOncePerKey` is not
inductive: a second `Send` is impossible only because every request that can still
put a message into the chat is known to its ledger entry. `SendInv` says so in
parts: a key has one request that passed its intent (`OneSender`, which `Identity`
and the single lane `OneInLane` carry through each move), such a request finds the
intent and an empty chat (`Unarrived`) or the intent and its own message
(`Arrived`), an answer has a known message (`Answered`), and a key without an
entry has neither message nor request beyond its start (`NoEntry`). There is one
lemma per action, with one step per part. From `SendInvariant` follow

- `SentOnce == Spec => []SentOncePerKey`,
- `AnswersProve == Spec => []AnswersAreProof`,
- `IntentsBlock == Spec => IntentBlocks`.

`CrmDigestProofs` needs `DigestConstants` only, and carries `SendInv` of the bridge along.
None of the digest's properties is inductive: what may be on its way to the owner depends on
what every claim so far has seen and asked. `DigestInv` has four groups of parts. What the
cursors tell the holder of the lease, at each write of its list, is `WorkerOK`; a worker
without the lease keeps what it knows of its digest (`Knows`, `Confirmed`). Where a digest
stands is `Placed`: it is the one that is open (announced in the cursors, or the
feed's last where the feed keeps its digests), it is done, or no message of it is out or can
get out (`Idle`); the open one is the next (`OpenNext`). That a refusal proves `Idle` although
other workers may live rests on `OneAuthor`: where the feed cuts anew, one claim alone asks for a
digest. `ToldInOrder` relates the events to the digests that told them, which is what the
refinement needs: an event is reached when it is acknowledged or the open digest was told
(`Reached`), and `Told` counts one message exactly then (`ToldIs`). Every step of a worker is
reduced by `OwnStep` to its own record and what it does to the cursors, a step of others by
`WorkerKeeps`; `Rests`, `Publishes`, `Tells`, `Acknowledges` say what the feed's reader sees
of it. Results:

- `PendingComplete == Spec => []PendingIsComplete`,
- `NothingIsOutstanding == Spec => []NothingOutstanding`,
- `PromiseHolds == Spec => PromiseKept`: the executor implements `DigestFeed`,
- `ClientOfTheBridge == Spec => Bridge!Spec`: it makes only the steps `OwnerBridge` allows.

`AutomationDaemonProofs` needs `DaemonConstants` only. What "stopped" says of tasks and
threads is decided at different steps of the cleanup, so `CleanupInv` says for each how far
things have come: a joined role has ended or failed, and a failure is remembered until
the row is written; the admission of the CRM closes after the loop has been joined
and that of the probe before; threads are gone before the server closes. That
no more work waits than arrived or came back with an error (`WorkCounted`) is
what the bound of the type needs. There is one lemma per part, with one step per action.
Results:

- `DaemonTypeCorrect == Spec => []DaemonTypeOK`,
- `StoppedTold == Spec => []StoppedIsTrue`,
- `FeedIsKept == Spec => []RunKeepsItsFeed`.

`EffectLaneProofs` needs `LaneConstants` only. `OneOperation` bounds the operations
that run, and the step that could break it is the start of the next one, so
`LaneInv` says when that happens: a worker that has not started its submission or
has lost its operation sees none running (`CreatedHasNone`), one that waits or
cleans up owns whatever runs (`BusyOwnsIt`), an operation that outlives the
worker leaves the lane failed or closed, where nobody is employed (`GoneIsShut`),
and a worker is cancelled only by `close()` (`CancelledByClose`).
`LaneInvariant == Spec => []LaneInv`, and from it `EffectsNeverOverlap == Spec =>
[]OneOperation`. `JobIsNamed` (what the lane names as its job is the job of whatever
runs, and of the submission that employs the worker) is proved on top of it and gives
`EffectsOfJobsAreSeen == Spec => []JobWorkIsVisible`.

`RefusedNeverBegins` is about the queue: a refused submission must not be the one that
the worker takes next. `RefusalInv` adds what that needs: the queue holds nobody twice
and nobody that has begun, a worker before its first turn owns a submission that
neither waits nor has begun, and whoever has no answer yet is in none of the three
(`Unspoilt`, `Newcomers`). A submission first drops the answered entries; that this
filter brings in nothing and repeats nobody is `WaitingFilters`, an induction over the
length of the queue. The induction theorems of the library take a predicate, which the
provers cannot instantiate, so `SetInduction` states induction for a set of numbers,
from the well-foundedness of `<` (`NatLessThanWellFounded`, `WFMin`). It gives both that the
recursive function exists and what it returns, and
`RefusedStayUnbegun == Spec => []RefusedNeverBegins` follows.

`TelegramProofs` needs `InboxConstants` only. `LiveJobHoldsSlot` and
`EventsFollowJobs` are proved together, by the invariant `Inv`: types, both
properties, that a request that is recovered by hand holds the slot in phase
"manual" (`ManualInSlot`, without which the continuation of a reviewed turn would put
a second request to work), and that a message with a request has one that exists
(`EventsHaveJobs`). The lemmas are grouped by what a call may touch: `QuietStep` for those that
keep states, slot and messages, `ManualStep` for those that hold the manual slot,
`LetGoStep` for those that end a request and let its messages go. Results:

- `TypeCorrect == InboxSpec => []InboxTypeOK`,
- `SlotHeld == InboxSpec => []LiveJobHoldsSlot`,
- `MessagesFollow == InboxSpec => []EventsFollowJobs`,
- `TurnsCallInbox == TurnsSpec => InboxSpec`: the composition implements the inbox,
  so the three hold there too.

The properties of the composition stand on these, each on an invariant of its own.
`SendsOK` goes through the states of an effect: which entry of the bridge's ledger goes
with it, whether its message is under way, and what the chat shows; others than the
bridge take preparations away at most (`EffectsStay`). `TurnInv`: a request that was not
started has no turn (`UnstartedHasNone`), the request of a turn has the slot in a phase of
the start or the run (`TurnHasPhase`), and what the dispatcher takes as shown without
another look at the turn is still true when it acts on it (`KnowsTrue`). `HeldInv`: a
request that was given up said nothing that binds (`GivenUpFree`), and what an effect is
about stays with its request unless that was given up (`AboutHeld`). For the last
two, every call of the inbox is reduced to what it may do to requests, messages and effects
(`StartsStay`; `JobsMove`, `EventsMove`, `EffectsMove`). Results:

- `MessagesSentOnce == TurnsSpec => []SentOnce`,
- `TurnsHoldSlot == TurnsSpec => []TurnHoldsSlot`,
- `OneRequestAnswers == TurnsSpec => []OneAnswerer`,
- `AnswersClose == TurnsSpec => []ClosedByAnswer`.

`RoleDutyProofs` needs `RoleConstants` only. Three invariants stand on the types
(`RoleOK`: a pass between `prepare_dispatch` and the outcome has a dispatch in its
hands). `GoalInv` follows what a pass knows of the goal: an active goal is asked for
only after it was claimed, and a pass that is about to give one up has seen it at rest,
where only another pass could wake it. `KnownInv` relates the rows to the turns: a
message is carried by a turn the role began, under the name of its launch, and a row
names no other (`Carrying`); a pass judges pending rows only, and what it launches is
pending and was sent before by nobody (`Handled`). The steps that settle, mark or find a
row are one move each (`RowMoves`), the others leave the rows alone and wake no turn of
theirs (`RowsStay`). `ToldInv` relates the receipts to both: an event is in one row at most
and tells its status, a row is settled as its turn ended. Results:

- `DutyTypeCorrect == DutySpec => []RoleOK`,
- `GoalsAreOwned == DutySpec => []GoalIsOwned`,
- `TurnsStayKnown == DutySpec => []TurnsAreKnown`,
- `LaunchStands == DutySpec => []ActiveStands`,
- `ReceiptsAreTrue == DutySpec => []ReceiptIsTrue`.

`VinQueueProofs` needs `QueueConstants` only. None of its four invariants is inductive:
they relate the two databases, and what may stand between them depends on who is in the
middle of which transaction. `JobOK(q, p, at, u)` says it of one VIN job, of its pointer
`q`, its private database `p`, and of the step `at` the worker is at in this job:
`Collected` (a job in the worker's hands is active, or was cancelled or disabled), `Scheduled` (owed work is
in an active job, or in one whose row shows the failure), `Counted` (tries and what an
interrupted unit may still have), `Quiet` (a final analysis has no work due, and nothing runs for it, unless it was `switched`). `WaitersOK` says what a call that waits
between its commits has found or written, `LocksOK` that a lock has the
owner who is at a step that needs it. With records as parameters every
transaction is a lemma about one job (`BegunOK`, `FinishedOK`, `PublishedOK`, ...), and
frames say which jobs and calls a step leaves alone (`OneJob`, `OtherCalls`). Results:

- `QueueTypeCorrect == QueueSpec => []QueueTypeOK`,
- `OneJobActive == QueueSpec => []OneActive`,
- `WorkStaysScheduled == QueueSpec => []WorkIsScheduled`,
- `TriesAreCounted == QueueSpec => []TriedTwiceAtMost`,
- `FinalStaysQuiet == QueueSpec => []FinalIsQuiet`.

Every safety property of the passing runs is stated by a theorem. Only model-checked: the
liveness properties, which are out of the prover's reach with `ENABLED`.

## 6. Findings

`archive`: `AutomationStore.archive` refuses a lease that is still active and
resolves the alerts written so far. A lease that has expired but was not
reaped passes, its run still "running". The next `claim_next_run` (whose
expiry query does not look at `archived_at`) or the late `finish_run` then writes
an error alert for the archived job. `claim_outbox` skips archived jobs and
`archive` cannot run again, so the alert stays pending for ever and the archived
row shows "error". The shortest behaviour: create, enable, reconcile, claim,
disable, let the lease run out, archive, claim.

`stranded`: `defer_failed_request` leaves a request that was proven unstarted waiting
for its client to write, and when the client has already written, lets both messages
go to one claim, "waiting for another record() would strand and later replay the
question" (telegram_inbox.py:1812). It looks at messages without a request only. A
message that is held in a second request of the client (a boundary hold) comes free
when the operator resolves that one with `retry_no_effects`; it is then claimed
without the question it continues, which stays behind until the client writes again.

`vin_stuck`: `research_add_queries` writes the queue row before it commits the private
database, because "committing private work first could leave it permanently
unscheduled" (j1_vin_research.py:371). It copies the private status "running" into the
row. When the worker died in the job, that status is the dead worker's: the next worker
has put the row back to "queued" and will claim it, and a query added in between turns the
row to "running", which no worker claims. The added query, the interrupted one and, since
the slot counts as taken, every other job wait until the worker is restarted once more or
the job expires. An unexpected error of the worker, which fails the row alone, comes to the
same for a call that had passed `reconcile_failed_job` before it. `queue_ocr` does the same
by way of `inflight`. (`WorkIsScheduled` holds
there: the row says the job is active; that nobody acts on it is a liveness question.)

Not findings, but worth knowing: a blocked delivery (a `sending` row without a
lease) keeps its job from being archived until someone edits the row; a
reschedule between claim and preview cancels an alert for good (tests expect
it); a recovery alert may overtake a failed error alert.

When VIN research is switched off while a job collects, `_finish_operation` calls the
private job cancelled although its row still says "running". A worker that dies before it
has published that leaves an analysis that can be finalized; if the switch is on again
when the next worker claims the row, `_reset_interrupted` sets the job back to "running"
and collection resumes for an analysis that was declared final. `FinalIsQuiet` therefore
leaves out an analysis that is declared final in this state.

When `close()` of the effect lane cancels the consumer before its first turn, the
`finally` that answers waiting submissions does not run; the bridge has ended its callers
by then.

"An external pause/stop must never be undone by the scheduler" (role_executor.py:358)
holds as far as the row knows that the goal was active. When the answer of the
`thread/goal/set` that activated it was lost, `goal_applied` is not written; a pause by
hand then looks like a goal that still has to be started, and the next launch resumes it.
A duty turn whose goal Codex refused is stopped through its dispatch; where the row owns
a goal that was never created, a stop waits until that turn ends by itself.

A digest is safe across an archive and re-creation of its job (which drops the
cursors while a message may be out) only because the CRM returns the cut digest
under its id, and with it the key the bridge knows. If the CRM cut that stretch
anew, its events would be told twice; nothing in this repository would notice.

## 7. Not modelled

The components with status `not_modelled` in `PROJECT.json`, each with its
reason; of the modelled ones, the operations their notes name.
