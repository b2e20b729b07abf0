------------------------------ MODULE VinQueue ------------------------------
(***************************************************************************)
(* The research queue of J1.  Its jobs table (j1_research.py) holds public *)
(* jobs with their work, and for a VIN job only a pointer: the private     *)
(* state and work of a VIN job are in a database of its own on tmpfs       *)
(* (j1_vin_store.py), which ends with it.  One worker collects             *)
(* (j1_vin_worker.py for VIN jobs), API calls add work and cancel          *)
(* (j1_vin_research.py); a transaction of theirs over both databases is    *)
(* two commits.                                                            *)
(*                                                                         *)
(* A unit of work is a query, a document or an OCR page; which pending one *)
(* is next is left open.  Waiting for a lock is not bounded in time.       *)
(***************************************************************************)
EXTENDS Naturals, FiniteSets

CONSTANTS VinJobs, PublicJobs, Units, Callers, None, Lost,
    Seconds,      \* MAX_SECONDS, of which the last one stands for the last 0.01 s
    MaxTroubles   \* bound on crashes, unexpected errors, stops, lost and full stores

ASSUME QueueConstants ==
    /\ Seconds \in Nat \ {0} /\ MaxTroubles \in Nat
    /\ VinJobs \cap PublicJobs = {}
    /\ None \notin VinJobs \cup PublicJobs \cup Units \cup Callers \cup {"worker"}
    /\ "worker" \notin Callers

VARIABLES
    pointer,    \* jobs.status of the queue database
    public,     \* work of the public jobs, in the same database
    private,    \* the database of a VIN job, or Lost
    startLock,  \* holder of start.lock
    lock,       \* holder of the write lock of each private database
    full,       \* tmpfs is full: no private transaction can commit
    stop,       \* SIGTERM has reached the worker
    worker,     \* where the worker is
    caller,     \* API calls under way
    troubles

databases == <<pointer, public, private>>
locks == <<startLock, lock>>
world == <<full, stop, troubles>>
queueVars == <<pointer, public, private, startLock, lock, full, stop, worker, caller, troubles>>

Jobs == VinJobs \cup PublicJobs
Active == {"queued", "running"}
Statuses == Active \cup {"completed", "failed", "cancelled"}
\* A worker whose switch is off cancels for that reason: "disabled".
PrivateStatuses == Statuses \cup {"disabled"}
Operations == {"query", "ocr", "cancel", "finalize"}
UnitStates == {"none", "pending", "running", "done", "failed"}
Work == [Units -> UnitStates]
\* switched, a history: final was last declared of an analysis that a worker whose
\* switch was off had ended.
Private == [status : PrivateStatuses, inflight : BOOLEAN, cancel : BOOLEAN, final : BOOLEAN,
            left : 0..Seconds, unit : Work, tries : [Units -> Nat], switched : BOOLEAN]

Live(j) == private[j] # Lost
Added(w, u) == [w EXCEPT ![u] = "pending"]
NoWork == [u \in Units |-> "none"]

\* No other job is queued or runs: the check of every start and extension.
SlotIsFree_NothingRuns(j) == \A k \in Jobs \ {j} : pointer[k] # "running"
SlotIsFree(j) == \A k \in Jobs \ {j} : pointer[k] \notin Active

\* What a private transaction of this holder needs; it ends in Stored, unless
\* the store is full.
Opens_Unlocked(j) == Live(j)
Opens(j) == Live(j) /\ lock[j] = None
Stored(j, p) == ~full /\ private' = [private EXCEPT ![j] = p]

Idle == [at |-> "idle", job |-> None, unit |-> None]
NoCall == [at |-> "idle", op |-> "none", job |-> None, unit |-> None]

QueueInit ==
    /\ pointer = [j \in Jobs |-> "none"]
    /\ public = [j \in PublicJobs |-> NoWork]
    /\ private = [j \in VinJobs |-> Lost]
    /\ startLock = None /\ lock = [j \in VinJobs |-> None]
    /\ full = FALSE /\ stop = FALSE /\ troubles = 0
    /\ worker = [Idle EXCEPT !.at = "down"]
    /\ caller = [c \in Callers |-> NoCall]

-----------------------------------------------------------------------------
(* Public jobs: every call and every step of the worker is one transaction *)

StartPublic(j, u) ==
    /\ pointer[j] = "none" /\ SlotIsFree(j)
    /\ pointer' = [pointer EXCEPT ![j] = "queued"]
    /\ public' = [public EXCEPT ![j] = Added(NoWork, u)]
    /\ UNCHANGED <<private, locks, world, worker, caller>>

ExtendPublic(j, u) ==
    /\ pointer[j] \in Active \cup {"completed"} /\ public[j][u] = "none"
    /\ pointer[j] = "completed" => SlotIsFree(j)
    /\ public' = [public EXCEPT ![j] = Added(@, u)]
    /\ pointer' = [pointer EXCEPT ![j] = IF @ = "completed" THEN "queued" ELSE @]
    /\ UNCHANGED <<private, locks, world, worker, caller>>

CancelPublic(j) ==
    /\ pointer[j] \in Active
    /\ pointer' = [pointer EXCEPT ![j] = "cancelled"]
    /\ UNCHANGED <<public, private, locks, world, worker, caller>>

\* _work_job looks for the job's next unit, unless it is told to stop or the job
\* was cancelled.
WorkPublic ==
    LET j == worker.job IN
    /\ worker.at = "public"
    /\ \/ /\ stop \/ pointer[j] # "running"
          /\ worker' = Idle
          /\ UNCHANGED <<pointer, public>>
       \/ /\ ~stop /\ pointer[j] = "running"
          /\ \E u \in Units :
                /\ public[j][u] = "pending"
                /\ public' = [public EXCEPT ![j][u] = "running"]
                /\ worker' = [worker EXCEPT !.at = "fetching", !.unit = u]
          /\ UNCHANGED pointer
       \/ /\ ~stop /\ pointer[j] = "running" /\ \A u \in Units : public[j][u] # "pending"
          /\ pointer' = [pointer EXCEPT ![j] = "completed"]
          /\ worker' = Idle
          /\ UNCHANGED public
    /\ UNCHANGED <<private, locks, world, caller>>

\* The answer, which may be an error, counts only if the job still runs; it may
\* bring new documents.  An error nobody expected fails the job.
FetchedPublic ==
    LET j == worker.job
        u == worker.unit
    IN
    /\ worker.at = "fetching"
    /\ \/ /\ pointer[j] # "running"
          /\ worker' = Idle
          /\ UNCHANGED <<pointer, public>>
       \/ /\ pointer[j] = "running"
          /\ \E found \in SUBSET {v \in Units : public[j][v] = "none"} :
                public' = [public EXCEPT ![j] =
                      [v \in Units |-> IF v = u THEN "done"
                                       ELSE IF v \in found THEN "pending" ELSE @[v]]]
          /\ worker' = [worker EXCEPT !.at = "public", !.unit = None]
          /\ UNCHANGED pointer
       \/ /\ pointer' = [pointer EXCEPT ![j] = IF @ = "running" THEN "failed" ELSE @]
          /\ worker' = Idle
          /\ UNCHANGED public
    /\ UNCHANGED <<private, locks, world, caller>>

-----------------------------------------------------------------------------
(* API calls about a VIN job *)

\* The first queries of the job; a call with the key of a job that has private
\* state is answered with that job, or with an error if no row of the queue tells
\* of it, and changes nothing.
Initialized(u) ==
    [status |-> "queued", inflight |-> FALSE, cancel |-> FALSE, final |-> FALSE,
     left |-> Seconds, unit |-> Added(NoWork, u), tries |-> [v \in Units |-> 0],
     switched |-> FALSE]
Startable(j) == startLock = None /\ pointer[j] = "none" /\ ~Live(j) /\ SlotIsFree(j) /\ ~full
StartVin(j, u) ==
    /\ Startable(j)
    /\ private' = [private EXCEPT ![j] = Initialized(u)]
    /\ pointer' = [pointer EXCEPT ![j] = "queued"]
    /\ UNCHANGED <<public, locks, world, worker, caller>>

\* The private state is committed, and the process dies before the row is.
StartVin_Dies(j, u) ==
    /\ Startable(j) /\ troubles < MaxTroubles
    /\ private' = [private EXCEPT ![j] = Initialized(u)]
    /\ troubles' = troubles + 1
    /\ UNCHANGED <<pointer, public, locks, full, stop, worker, caller>>

At(c, step) == caller' = [caller EXCEPT ![c].at = step]
Ends(c) == caller' = [caller EXCEPT ![c] = NoCall]

\* _safe_api looks at the pointer before it does anything.
Call(c, op, j) ==
    /\ caller[c].at = "idle" /\ pointer[j] # "none"
    /\ caller' = [caller EXCEPT ![c] = [NoCall EXCEPT !.op = op, !.job = j,
                     !.at = IF pointer[j] = "failed" THEN "repairing" ELSE "checked"]]
    /\ UNCHANGED <<databases, locks, world, worker>>

\* The private state of a worker that stopped, as _reconcile_failed_worker
\* leaves it: the time of an interrupted operation is charged up to the failure.
Settled(p) == p.status \in {"failed", "cancelled", "disabled"} /\ ~p.inflight
Stopped(w) == [u \in Units |-> IF w[u] = "running" THEN "failed" ELSE w[u]]
Reconciled(p) ==
    {[p EXCEPT !.status = "failed", !.inflight = FALSE, !.unit = Stopped(@), !.left = n] :
        n \in IF p.inflight THEN 0..p.left ELSE {p.left}}

Release(x) ==
    /\ startLock' = IF startLock = x THEN None ELSE startLock
    /\ lock' = [k \in VinJobs |-> IF lock[k] = x THEN None ELSE lock[k]]

\* A job that failed is made so in private first, under start.lock: whether it
\* settled is read before the transaction that settles it.
Repair(c) ==
    LET j == caller[c].job IN
    /\ caller[c].at = "repairing" /\ startLock = None
    /\ \/ /\ pointer[j] # "failed" \/ (Live(j) /\ Settled(private[j]))
          /\ At(c, "checked") /\ UNCHANGED startLock
       \/ /\ pointer[j] = "failed" /\ Live(j) /\ ~Settled(private[j])
          /\ At(c, "reconciling") /\ startLock' = c
    /\ UNCHANGED <<databases, lock, world, worker>>

\* The transaction; a full store answers with an error.
RepairCommits(c) ==
    LET j == caller[c].job IN
    /\ caller[c].at = "reconciling" /\ Opens(j)
    /\ \/ /\ \E p \in Reconciled(private[j]) : Stored(j, p)
          /\ At(c, "checked")
       \/ full /\ Ends(c) /\ UNCHANGED private
    /\ Release(c)
    /\ UNCHANGED <<pointer, public, world, worker>>

\* A call that finds no private state says so in the pointer.
MarkLost(c) ==
    LET j == caller[c].job IN
    /\ caller[c].at \in {"repairing", "reconciling", "checked"} /\ ~Live(j)
    /\ pointer' = [pointer EXCEPT ![j] = "failed"]
    /\ Ends(c) /\ Release(c)
    /\ UNCHANGED <<public, private, world, worker>>

\* research_cancel: the private state first; the pointer follows, without a lock,
\* unless a request is in flight.
Cancelled(p) == [p EXCEPT !.cancel = TRUE, !.status = IF p.inflight THEN @ ELSE "cancelled"]
Cancel(c) ==
    LET j == caller[c].job IN
    /\ caller[c].at = "checked" /\ caller[c].op = "cancel" /\ Opens(j)
    /\ \/ /\ Stored(j, Cancelled(private[j]))
          /\ IF private[j].inflight THEN Ends(c) ELSE At(c, "cancelled")
       \/ full /\ Ends(c) /\ UNCHANGED private
    /\ UNCHANGED <<pointer, public, locks, world, worker>>

TellCancelled(c) ==
    /\ caller[c].at = "cancelled"
    /\ pointer' = [pointer EXCEPT ![caller[c].job] = "cancelled"]
    /\ Ends(c)
    /\ UNCHANGED <<public, private, locks, world, worker>>

\* j1_research_record_facts with finalize: no request in flight, no more to come.
Quiescent_BetweenOperations(p) == ~p.inflight
Quiescent(p) == ~p.inflight /\ p.status \notin Active
Finalize(c) ==
    LET j == caller[c].job
        p == private[j]
    IN
    /\ caller[c].at = "checked" /\ caller[c].op = "finalize" /\ Opens(j)
    /\ \/ /\ Quiescent(p)
          /\ Stored(j, [p EXCEPT !.final = TRUE, !.switched = (p.status = "disabled")])
       \/ (~Quiescent(p) \/ full) /\ UNCHANGED private
    /\ Ends(c)
    /\ UNCHANGED <<pointer, public, locks, world, worker>>

\* research_add_queries and queue_ocr.
Extendable(p, op) ==
    /\ ~p.cancel /\ p.status \notin {"cancelled", "disabled", "failed"} /\ p.left > 0
    /\ op = "ocr" => \E u \in Units : p.unit[u] = "done"
NewStatus(p, op) ==
    IF (op = "ocr" /\ p.inflight) \/ (op = "query" /\ p.status = "running")
    THEN "running" ELSE "queued"

\* The pointer is committed while both locks are held.
Enqueue(c) ==
    LET j == caller[c].job
        p == private[j]
        op == caller[c].op
    IN
    /\ caller[c].at = "checked" /\ op \in {"query", "ocr"}
    /\ startLock = None /\ Opens(j)
    /\ \/ \E u \in Units :
             /\ Extendable(p, op) /\ SlotIsFree(j) /\ p.unit[u] = "none"
             /\ pointer' = [pointer EXCEPT ![j] = NewStatus(p, op)]
             /\ startLock' = c /\ lock' = [lock EXCEPT ![j] = c]
             /\ caller' = [caller EXCEPT ![c].at = "queued", ![c].unit = u]
       \/ /\ ~Extendable(p, op) \/ ~SlotIsFree(j) \/ \A u \in Units : p.unit[u] # "none"
          /\ Ends(c)
          /\ UNCHANGED <<pointer, locks>>
    /\ UNCHANGED <<public, private, world, worker>>

\* A private commit that fails takes the work back, not the pointer.
CommitEnqueue(c) ==
    LET j == caller[c].job
        p == private[j]
    IN
    /\ caller[c].at = "queued"
    /\ \/ /\ Live(j)
          /\ Stored(j, [p EXCEPT !.status = NewStatus(p, caller[c].op), !.final = FALSE,
                                 !.unit = Added(@, caller[c].unit)])
          /\ UNCHANGED pointer
       \/ Live(j) /\ full /\ UNCHANGED <<pointer, private>>
       \/ /\ ~Live(j)
          /\ pointer' = [pointer EXCEPT ![j] = "failed"]
          /\ UNCHANGED private
    /\ Ends(c) /\ Release(c)
    /\ UNCHANGED <<public, world, worker>>

\* The process of the call dies.
Die(c) ==
    /\ caller[c].at # "idle" /\ troubles < MaxTroubles
    /\ troubles' = troubles + 1
    /\ Ends(c) /\ Release(c)
    /\ UNCHANGED <<databases, full, stop, worker>>

-----------------------------------------------------------------------------
(* The worker *)

\* Started again by its service, it queues what its predecessor was at.
Boot ==
    /\ worker.at = "down"
    /\ pointer' = [j \in Jobs |-> IF pointer[j] = "running" THEN "queued" ELSE pointer[j]]
    /\ public' = [j \in PublicJobs |-> [u \in Units |->
                     IF public[j][u] = "running" THEN "pending" ELSE public[j][u]]]
    /\ stop' = FALSE
    /\ worker' = Idle
    /\ UNCHANGED <<private, locks, full, caller, troubles>>

Claim(j) ==
    /\ worker.at = "idle" /\ ~stop /\ pointer[j] = "queued"
    /\ pointer' = [pointer EXCEPT ![j] = "running"]
    /\ worker' = [Idle EXCEPT !.job = j, !.at = IF j \in VinJobs THEN "claimed" ELSE "public"]
    /\ UNCHANGED <<public, private, locks, world, caller>>

Exit ==
    /\ worker.at = "idle" /\ stop
    /\ worker' = [Idle EXCEPT !.at = "down"]
    /\ UNCHANGED <<databases, locks, world, caller>>

\* The private transactions of run_job; one that fails ends the job as failed.
Goes(step) == worker' = [worker EXCEPT !.at = step]
TransactionFails ==
    /\ worker.at \in {"claimed", "next", "error", "final"}
    /\ worker.at = "next" => ~stop
    /\ ~Live(worker.job) \/ (full /\ worker.at # "final")
    /\ Goes("failing")
    /\ UNCHANGED <<databases, locks, world, caller>>

\* _reset_interrupted: an operation that the worker died in is tried once more,
\* and its time, with that the worker was away, is charged.
Retried_Always(p) == [u \in Units |-> IF p.unit[u] = "running" THEN "pending" ELSE p.unit[u]]
Retried(p) ==
    [u \in Units |-> IF p.unit[u] # "running" THEN p.unit[u]
                     ELSE IF p.tries[u] >= 2 THEN "failed" ELSE "pending"]
Reset ==
    LET j == worker.job
        p == private[j]
    IN
    /\ worker.at = "claimed" /\ Opens(j)
    /\ \E n \in IF p.inflight THEN 0..p.left ELSE {p.left} :
          Stored(j, [p EXCEPT !.inflight = FALSE, !.left = n, !.unit = Retried(p),
                              !.status = IF p.cancel THEN "cancelled" ELSE "running"])
    /\ Goes("next")
    /\ UNCHANGED <<pointer, public, locks, world, caller>>

\* _next_operation.  A worker whose switch is off says so of every job, also of one
\* that it found off in _finish_operation.
Collects(p) == ~p.cancel /\ p.status # "disabled"
Begun(p, u) == [p EXCEPT !.unit[u] = "running", !.tries[u] = @ + 1, !.inflight = TRUE]
Finished(p, status) == [p EXCEPT !.status = status, !.inflight = FALSE]
NextOperation ==
    LET j == worker.job
        p == private[j]
    IN
    /\ worker.at = "next" /\ ~stop /\ Opens(j)
    /\ \/ p.cancel /\ Stored(j, Finished(p, "cancelled")) /\ Goes("final")
       \/ ~p.cancel /\ Stored(j, Finished(p, "disabled")) /\ Goes("final")
       \/ Collects(p) /\ p.left <= 1 /\ Stored(j, Finished(p, "completed")) /\ Goes("final")
       \/ /\ Collects(p) /\ p.left > 1
          /\ \E u \in Units :
                /\ p.unit[u] = "pending"
                /\ Stored(j, Begun(p, u))
                /\ worker' = [worker EXCEPT !.at = "working", !.unit = u]
       \/ /\ Collects(p) /\ p.left > 1 /\ \A u \in Units : p.unit[u] # "pending"
          /\ Stored(j, Finished(p, "completed")) /\ Goes("final")
    /\ UNCHANGED <<pointer, public, locks, world, caller>>

StopCollecting ==
    /\ worker.at = "next" /\ stop
    /\ Goes("final")
    /\ UNCHANGED <<databases, locks, world, caller>>

\* _finish_operation, with what _collect_* makes of the answer: documents found
\* join the work unless the job was cancelled meanwhile; they, and pages read, reopen
\* the analysis.
StatusAfter(p) == IF p.cancel THEN {"cancelled"} ELSE {p.status, "disabled"}
Charged(p, s) == {[Finished(p, s) EXCEPT !.left = n] : n \in 0..p.left}
AfterOperation(p) == UNION {Charged(p, s) : s \in StatusAfter(p)}
Collect ==
    LET j == worker.job IN
    /\ worker.at = "working" /\ Opens(j)
    /\ \E p \in AfterOperation(private[j]), out \in {"done", "failed"},
          found \in SUBSET {v \in Units : private[j].unit[v] = "none"},
          final \in {private[j].final, FALSE} :
          /\ ~Collects(p) => found = {}
          /\ found # {} => ~final
          /\ Stored(j, [p EXCEPT !.final = final, !.unit =
                [v \in Units |-> IF v = worker.unit THEN out
                                 ELSE IF v \in found THEN "pending" ELSE @[v]]])
    /\ worker' = [worker EXCEPT !.at = "next", !.unit = None]
    /\ UNCHANGED <<pointer, public, locks, world, caller>>

\* An error of the network, the parsers or the store.
CollectError ==
    /\ worker.at = "working"
    /\ Goes("error")
    /\ UNCHANGED <<databases, locks, world, caller>>

OperationFailed ==
    LET j == worker.job IN
    /\ worker.at = "error" /\ Opens(j)
    /\ \E p \in AfterOperation(private[j]) : Stored(j, [p EXCEPT !.unit[worker.unit] = "failed"])
    /\ worker' = [worker EXCEPT !.at = "next", !.unit = None]
    /\ UNCHANGED <<pointer, public, locks, world, caller>>

\* An error that run_job does not expect fails the pointer alone; the worker goes on.
WorkerFails ==
    LET j == worker.job IN
    /\ worker.at \in {"claimed", "next", "working", "error", "final"} /\ troubles < MaxTroubles
    /\ pointer' = [pointer EXCEPT ![j] = IF @ = "running" THEN "failed" ELSE @]
    /\ worker' = Idle /\ troubles' = troubles + 1
    /\ UNCHANGED <<public, private, locks, full, stop, caller>>

\* The last transaction: the pointer is written while the private state is locked.
Requeued(p) == IF p.status = "running" THEN "queued" ELSE p.status
Told(p) == IF p.status = "disabled" THEN "cancelled" ELSE Requeued(p)
Publish ==
    LET j == worker.job IN
    /\ worker.at = "final" /\ Opens(j)
    /\ pointer' = [pointer EXCEPT ![j] = Told(private[j])]
    /\ lock' = [lock EXCEPT ![j] = "worker"]
    /\ Goes("published")
    /\ UNCHANGED <<public, private, startLock, world, caller>>

CommitPublish ==
    LET j == worker.job IN
    /\ worker.at = "published"
    /\ \/ /\ Live(j) /\ Stored(j, [private[j] EXCEPT !.status = Requeued(private[j])])
          /\ worker' = Idle
       \/ /\ ~Live(j) \/ full
          /\ Goes("failing") /\ UNCHANGED private
    /\ Release("worker")
    /\ UNCHANGED <<pointer, public, world, caller>>

\* fail_worker: the pointer, then the private state, under start.lock.
MarkFailed ==
    /\ worker.at = "failing" /\ startLock = None
    /\ pointer' = [pointer EXCEPT ![worker.job] = "failed"]
    /\ startLock' = "worker"
    /\ Goes("marked")
    /\ UNCHANGED <<public, private, lock, world, caller>>

Reconcile ==
    LET j == worker.job IN
    /\ worker.at = "marked"
    /\ \/ Live(j) /\ Settled(private[j]) /\ worker' = Idle /\ Release("worker")
       \/ Live(j) /\ ~Settled(private[j]) /\ Goes("reconciling") /\ UNCHANGED locks
       \/ ~Live(j) /\ Goes("unreconciled") /\ Release("worker")
    /\ UNCHANGED <<databases, world, caller>>

ReconcileCommits ==
    LET j == worker.job IN
    /\ worker.at = "reconciling"
    /\ \/ /\ Opens(j)
          /\ \E p \in Reconciled(private[j]) : Stored(j, p)
          /\ worker' = Idle
       \/ (~Live(j) \/ (Opens(j) /\ full)) /\ Goes("unreconciled") /\ UNCHANGED private
    /\ Release("worker")
    /\ UNCHANGED <<pointer, public, world, caller>>

\* The marker again, for a private state that could not be written.
MarkAgain ==
    /\ worker.at = "unreconciled"
    /\ pointer' = [pointer EXCEPT ![worker.job] = "failed"]
    /\ worker' = Idle
    /\ UNCHANGED <<public, private, locks, world, caller>>

Crash ==
    /\ worker.at # "down" /\ troubles < MaxTroubles
    /\ troubles' = troubles + 1
    /\ worker' = [Idle EXCEPT !.at = "down"]
    /\ Release("worker")
    /\ UNCHANGED <<databases, full, stop, caller>>

-----------------------------------------------------------------------------
(* Surroundings *)

Sigterm ==
    /\ worker.at # "down" /\ ~stop /\ troubles < MaxTroubles
    /\ stop' = TRUE /\ troubles' = troubles + 1
    /\ UNCHANGED <<databases, locks, full, worker, caller>>

FillsUp ==
    /\ ~full /\ troubles < MaxTroubles
    /\ full' = TRUE /\ troubles' = troubles + 1
    /\ UNCHANGED <<databases, locks, stop, worker, caller>>

Frees ==
    /\ full
    /\ full' = FALSE
    /\ UNCHANGED <<databases, locks, stop, troubles, worker, caller>>

\* Expiry, or a boot of the host: the private state is gone, sooner or later also
\* that of a start that died.
Lose(j) ==
    /\ Live(j)
    /\ \/ pointer[j] = "none" /\ UNCHANGED troubles
       \/ pointer[j] # "none" /\ troubles < MaxTroubles /\ troubles' = troubles + 1
    /\ private' = [private EXCEPT ![j] = Lost]
    /\ UNCHANGED <<pointer, public, locks, full, stop, worker, caller>>

\* prune writes the loss into the pointer.
Prune(j) ==
    /\ ~Live(j) /\ pointer[j] \notin {"none", "failed"}
    /\ pointer' = [pointer EXCEPT ![j] = "failed"]
    /\ UNCHANGED <<public, private, locks, world, worker, caller>>

-----------------------------------------------------------------------------

CallerStep(c) ==
    \/ Repair(c) \/ RepairCommits(c) \/ MarkLost(c) \/ Cancel(c) \/ TellCancelled(c)
    \/ Finalize(c) \/ Enqueue(c) \/ CommitEnqueue(c)

WorkerStep ==
    \/ WorkPublic \/ FetchedPublic
    \/ Reset \/ NextOperation \/ StopCollecting \/ Collect \/ CollectError \/ OperationFailed
    \/ Publish \/ CommitPublish \/ TransactionFails \/ WorkerFails
    \/ MarkFailed \/ Reconcile \/ ReconcileCommits \/ MarkAgain

QueueNext ==
    \/ \E j \in PublicJobs, u \in Units : StartPublic(j, u) \/ ExtendPublic(j, u)
    \/ \E j \in PublicJobs : CancelPublic(j)
    \/ \E j \in VinJobs, u \in Units : StartVin(j, u) \/ StartVin_Dies(j, u)
    \/ \E c \in Callers, op \in Operations, j \in VinJobs : Call(c, op, j)
    \/ \E c \in Callers : CallerStep(c) \/ Die(c)
    \/ Boot \/ (\E j \in Jobs : Claim(j)) \/ Exit \/ WorkerStep \/ Crash
    \/ Sigterm \/ FillsUp \/ Frees \/ (\E j \in VinJobs : Lose(j) \/ Prune(j))

QueueSpec ==
    /\ QueueInit /\ [][QueueNext]_queueVars
    /\ SF_queueVars(Boot \/ Exit \/ (\E j \in Jobs : Claim(j)) \/ WorkerStep)
    /\ \A c \in Callers : SF_queueVars(CallerStep(c))

-----------------------------------------------------------------------------
(* Properties *)

\* Work that an API call added, or that the worker found or was interrupted in, is
\* left to be collected as long as its job has a row, has time, did not fail and was
\* not cancelled, by an agent or by the switch: the row says so, or says that the
\* worker failed.
WorkIsScheduled ==
    \A j \in VinJobs :
        LET p == private[j] IN
        Live(j) /\ pointer[j] # "none" /\ ~p.cancel /\ p.status \notin {"failed", "disabled"}
            /\ p.left > 1 /\ (\E u \in Units : p.unit[u] \in {"pending", "running"})
        => p.status \in Active /\ pointer[j] \in Active \cup {"failed"}

\* The worker has one job to do at a time, public or private.
OneActive == \A j, k \in Jobs : pointer[j] \in Active /\ pointer[k] \in Active => j = k

\* An operation the worker died in is tried once more, not again.
TriedTwiceAtMost ==
    \A j \in VinJobs : Live(j) => \A u \in Units : private[j].tries[u] <= 2

\* Nothing is being collected for an analysis that was declared final, unless a
\* switch that was off had ended it, and is on again.
FinalIsQuiet ==
    \A j \in VinJobs :
        Live(j) /\ private[j].final /\ ~private[j].switched
            => ~(worker.job = j /\ worker.at \in {"working", "error"})

\* research_add_queries writes the pointer first, so that work it has added is
\* not "permanently unscheduled" (j1_vin_research.py): it is collected, or the
\* job ends.
AddedIsCollected ==
    \A j \in VinJobs, u \in Units :
        (Live(j) /\ private[j].unit[u] = "pending")
            ~> (~Live(j) \/ private[j].unit[u] # "pending" \/ pointer[j] \notin Active)
=============================================================================
