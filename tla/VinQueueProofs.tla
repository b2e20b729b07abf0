-------------------------- MODULE VinQueueProofs --------------------------
(* The invariants of the research queue, for any number of jobs, units and *)
(* calls, any budget and any faults.                                       *)
EXTENDS VinQueue, TLAPS

-----------------------------------------------------------------------------
(* The inductive invariant *)

Holders == Callers \cup {"worker", None}
Collecting == {"claimed", "next", "working", "error", "final"}
Settling == {"marked", "reconciling"}
Ending == {"published", "failing", "unreconciled"} \cup Settling
Starting == {"queued", "reconciling"}
OnPublic == {"public", "fetching"}
Away == {"down", "idle"}
WorkerRow == [at : Away \cup OnPublic \cup Collecting \cup Ending,
              job : Jobs \cup {None}, unit : Units \cup {None}]
CallRow == [at : {"idle", "repairing", "checked", "cancelled"} \cup Starting,
            op : Operations \cup {"none"}, job : VinJobs \cup {None}, unit : Units \cup {None}]

TablesOK ==
    /\ pointer \in [Jobs -> Statuses \cup {"none"}]
    /\ public \in [PublicJobs -> Work]
    /\ private \in [VinJobs -> Private \cup {Lost}]
    /\ startLock \in Holders /\ lock \in [VinJobs -> Holders]
    /\ full \in BOOLEAN /\ stop \in BOOLEAN /\ troubles \in Nat

\* The worker has a job in its hands, of the kind it is at, and the unit it works on.
WorkerOK ==
    /\ worker \in WorkerRow
    /\ worker.at \in Away => worker.job = None
    /\ worker.at \in OnPublic => worker.job \in PublicJobs
    /\ worker.at \in Collecting \cup Ending => worker.job \in VinJobs
    /\ worker.at \in {"fetching", "working", "error"} => worker.unit \in Units
    /\ worker.at \notin Away => pointer[worker.job] # "none"

CallsOK ==
    /\ caller \in [Callers -> CallRow]
    /\ \A c \in Callers : caller[c].at # "idle" =>
          /\ caller[c].job \in VinJobs /\ pointer[caller[c].job] # "none"
          /\ caller[c].at = "queued" => caller[c].unit \in Units

QueueTypeOK == TablesOK /\ WorkerOK /\ CallsOK

\* Work of p that nobody gave up; it has to be collected, unless a worker whose
\* switch was off has ended p.
Due(p) ==
    /\ ~p.cancel /\ p.status # "failed" /\ p.left > 1
    /\ \E u \in Units : p.unit[u] \in {"pending", "running"}
Owed(p) == Due(p) /\ p.status # "disabled"

\* What relates the private state p of a VIN job to its pointer q and to the
\* worker, which is at step at of this job, with unit u ("away": not of this job).
Rests(p) == p.cancel /\ ~p.inflight
Collected(q, p, at, u) ==
    /\ at \in Collecting => q \in Active \/ Rests(p)
    /\ at \in {"working", "error"} => p.inflight
    /\ at \in {"next", "working", "error"} =>
          /\ ~p.cancel => p.status \in Active \/ (at = "next" /\ p.status = "disabled")
          /\ \A v \in Units : p.unit[v] = "running" => at # "next" /\ v = u
    /\ at \in Settling => q \notin Active
Scheduled(q, p) ==
    /\ Rests(p) => p.status \notin Active
    /\ Owed(p) => p.status \in Active /\ q \in Active \cup {"failed", "none"}
    /\ p.status = "failed" => q \notin Active
Quiet(p, at) ==
    p.final /\ ~p.switched => ~Due(p) /\ at \notin {"working", "error"}
Counted(p) ==
    \A v \in Units :
        /\ p.tries[v] <= 2
        /\ p.unit[v] = "pending" => p.tries[v] <= 1
        /\ p.unit[v] = "none" => p.tries[v] = 0
JobOK(q, p, at, u) ==
    Collected(q, p, at, u) /\ Scheduled(q, p) /\ Quiet(p, at) /\ Counted(p)

Place(j) == IF worker.job = j THEN worker.at ELSE "away"
JobsOK == \A j \in VinJobs : Live(j) => JobOK(pointer[j], private[j], Place(j), worker.unit)

\* A call that is about to say "cancelled", to add its work, or to settle a job that
\* failed, has private state and a pointer that still are as it saw them.
Waiting(k, q, p) ==
    /\ k.at = "cancelled" => Rests(p)
    /\ k.at = "reconciling" => q \notin Active
    /\ k.at = "queued" =>
          /\ ~p.cancel /\ p.status # "failed" /\ q \in Active \cup {"failed"}
          /\ p.unit[k.unit] = "none"
WaitersOK ==
    \A c \in Callers : caller[c].at # "idle" /\ Live(caller[c].job) =>
        Waiting(caller[c], pointer[caller[c].job], private[caller[c].job])

LocksOK ==
    /\ \A c \in Callers : /\ caller[c].at \in Starting => startLock = c
                          /\ caller[c].at = "queued" => lock[caller[c].job] = c
    /\ worker.at \in Settling => startLock = "worker"

QueueInv == QueueTypeOK /\ OneActive /\ JobsOK /\ WaitersOK /\ LocksOK

-----------------------------------------------------------------------------
(* What the transactions make of a private state.  Each lemma: the state   *)
(* stays one, and stays in its relation to pointer and worker.             *)

\* The worker may leave the job, or fail, at any point, and conclude while it collects.
LEMMA MovesOK ==
    ASSUME NEW q, NEW p \in Private, NEW at, NEW u, JobOK(q, p, at, u), NEW to, NEW v,
           \/ to \in {"away", "published", "failing", "unreconciled"}
           \/ to = "final" /\ at \in Collecting
           \/ to = "error" /\ at = "working" /\ v = u
           \/ to = "reconciling" /\ at = "marked"
    PROVE  JobOK(q, p, to, v)
BY DEF JobOK, Collected, Scheduled, Quiet, Counted, Collecting, Settling

LEMMA CancelledOK ==
    ASSUME NEW q, NEW p \in Private, NEW at, NEW u, JobOK(q, p, at, u)
    PROVE  Cancelled(p) \in Private /\ JobOK(q, Cancelled(p), at, u) /\ Cancelled(p).cancel
BY DEF JobOK, Collected, Scheduled, Quiet, Counted, Rests, Owed, Due, Cancelled, Collecting,
       Settling, Private, PrivateStatuses, Active, Statuses

\* The pointer says "cancelled" of a cancelled job without a request in flight.
LEMMA TellCancelledOK ==
    ASSUME NEW q, NEW p \in Private, NEW at, NEW u, JobOK(q, p, at, u), Rests(p)
    PROVE  JobOK("cancelled", p, at, u)
BY DEF JobOK, Collected, Scheduled, Quiet, Counted, Rests, Owed, Due, Active

LEMMA ReconciledOK ==
    ASSUME NEW q, NEW p \in Private, NEW at, NEW u, JobOK(q, p, at, u), q \notin Active,
           NEW r \in Reconciled(p)
    PROVE  r \in Private /\ JobOK(q, r, at, u) /\ r.cancel = p.cancel /\ ~r.inflight
<1>1. PICK n \in 0..p.left : r = [p EXCEPT !.status = "failed", !.inflight = FALSE,
                                           !.unit = Stopped(@), !.left = n]
  <2>1. p.left \in 0..p.left
    BY QueueConstants DEF Private
  <2>2. (IF p.inflight THEN 0..p.left ELSE {p.left}) \subseteq 0..p.left
    BY <2>1
  <2> QED
    BY <2>2 DEF Reconciled
<1>2. n \in 0..Seconds /\ Stopped(p.unit) \in Work
  BY QueueConstants DEF Private, Work, Stopped, UnitStates
<1>3. /\ r \in Private /\ r.cancel = p.cancel /\ ~r.inflight /\ r.status = "failed"
      /\ r.final = p.final /\ r.tries = p.tries /\ r.unit = Stopped(p.unit)
  BY <1>1, <1>2 DEF Private, PrivateStatuses, Statuses
<1>4. \A v \in Units : r.unit[v] # "running" /\ (r.unit[v] \in {"pending", "none"} =>
         r.unit[v] = p.unit[v])
  BY <1>3 DEF Stopped
<1> QED
  BY <1>3, <1>4 DEF JobOK, Collected, Scheduled, Quiet, Counted, Rests, Owed, Due, Collecting, Active

Declared(p) == [p EXCEPT !.final = TRUE, !.switched = (p.status = "disabled")]
LEMMA FinalizedOK ==
    ASSUME NEW q, NEW p \in Private, NEW at, NEW u, JobOK(q, p, at, u), Quiescent(p)
    PROVE  /\ Declared(p) \in Private /\ JobOK(q, Declared(p), at, u)
           /\ Declared(p).cancel = p.cancel /\ Declared(p).inflight = p.inflight
BY DEF Declared, JobOK, Collected, Scheduled, Quiet, Counted, Rests, Owed, Due, Quiescent, Private

\* A call's work joins the job.
LEMMA EnqueuedOK ==
    ASSUME NEW q, NEW p \in Private, NEW at, NEW u, JobOK(q, p, at, u), NEW op,
           NEW v \in Units, ~p.cancel, q \in Active \cup {"failed"}, p.unit[v] = "none"
    PROVE  LET r == [p EXCEPT !.status = NewStatus(p, op), !.final = FALSE,
                              !.unit = Added(@, v)]
           IN  r \in Private /\ JobOK(q, r, at, u)
<1> DEFINE r == [p EXCEPT !.status = NewStatus(p, op), !.final = FALSE, !.unit = Added(@, v)]
<1>1. NewStatus(p, op) \in Active
  BY DEF NewStatus, Active
<1>2. Added(p.unit, v) \in Work
  BY DEF Private, Work, UnitStates, Added
<1>3. /\ r \in Private /\ ~r.cancel /\ r.inflight = p.inflight /\ r.status \in Active
      /\ ~r.final /\ r.tries = p.tries /\ r.unit = Added(p.unit, v)
  BY <1>1, <1>2 DEF Private, PrivateStatuses, Statuses
<1>4. r.unit[v] = "pending" /\ \A w \in Units \ {v} : r.unit[w] = p.unit[w]
  BY <1>3 DEF Added, Private, Work
<1>5. p.tries[v] = 0
  BY DEF JobOK, Counted
<1>6. Collected(q, r, at, u) /\ Scheduled(q, r) /\ Quiet(r, at)
  BY <1>3, <1>4 DEF JobOK, Collected, Scheduled, Quiet, Rests, Owed, Due, Active
<1>7. Counted(r)
  BY <1>3, <1>4, <1>5 DEF JobOK, Counted
<1> QED
  BY <1>3, <1>6, <1>7 DEF JobOK

\* Reset makes nothing run, keeps what is not tried twice, and has the job
\* collected unless it was cancelled.
AfterReset(p, n) ==
    [p EXCEPT !.inflight = FALSE, !.left = n, !.unit = Retried(p),
              !.status = IF p.cancel THEN "cancelled" ELSE "running"]
LEMMA ResetOK ==
    ASSUME NEW q, NEW p \in Private, NEW u, JobOK(q, p, "claimed", u), NEW n \in 0..p.left,
           NEW r, r = AfterReset(p, n)
    PROVE  r \in Private /\ JobOK(q, r, "next", u) /\ r.cancel = p.cancel /\ ~r.inflight
<1>1. n \in 0..Seconds /\ n <= p.left /\ Retried(p) \in Work
  BY QueueConstants DEF Private, Work, Retried, UnitStates
<1>2. /\ r \in Private /\ r.cancel = p.cancel /\ ~r.inflight /\ r.final = p.final
      /\ r.switched = p.switched /\ r.tries = p.tries /\ r.unit = Retried(p) /\ r.left = n
      /\ r.status = IF p.cancel THEN "cancelled" ELSE "running"
  BY <1>1 DEF AfterReset, Private, PrivateStatuses, Statuses, Active
<1>3. \A v \in Units : p.tries[v] \in Nat
  BY DEF Private
<1>4. \A v \in Units :
         /\ r.unit[v] # "running"
         /\ p.unit[v] # "running" => r.unit[v] = p.unit[v]
         /\ p.unit[v] = "running" => \/ r.unit[v] = "failed"
                                     \/ r.unit[v] = "pending" /\ p.tries[v] < 2
  BY <1>2, <1>3 DEF Retried
<1>5. p.left \in Nat /\ \A v \in Units : p.tries[v] \in Nat
  BY QueueConstants DEF Private
<1>6. ~p.cancel => q \in Active /\ p.status # "failed"
  BY DEF JobOK, Collected, Scheduled, Rests, Collecting
<1>7. Due(r) => Due(p)
  BY <1>1, <1>2, <1>4, <1>5, <1>6 DEF Due
<1>8. Collected(q, r, "next", u) /\ Scheduled(q, r)
  BY <1>2, <1>4, <1>6 DEF Collected, Scheduled, Rests, Owed, Due, Collecting, Settling, Active
<1>9. Quiet(r, "next")
  BY <1>2, <1>7 DEF JobOK, Quiet
<1>10. Counted(r)
  BY <1>2, <1>4, <1>5 DEF JobOK, Counted
<1> QED
  BY <1>2, <1>8, <1>9, <1>10 DEF JobOK

\* An operation begins on pending work of a job that was not cancelled.
LEMMA BegunOK ==
    ASSUME NEW q, NEW p \in Private, NEW u, JobOK(q, p, "next", u), NEW v \in Units,
           p.unit[v] = "pending", Collects(p), p.left > 1
    PROVE  Begun(p, v) \in Private /\ JobOK(q, Begun(p, v), "working", v)
<1> DEFINE r == Begun(p, v)
<1>1. /\ [p.unit EXCEPT ![v] = "running"] \in Work
      /\ [p.tries EXCEPT ![v] = @ + 1] \in [Units -> Nat]
  BY DEF Private, Work, UnitStates
<1> USE DEF Collects
<1>2. /\ r \in Private /\ ~r.cancel /\ r.inflight /\ r.final = p.final /\ r.left = p.left
      /\ r.switched = p.switched /\ r.status = p.status /\ r.unit = [p.unit EXCEPT ![v] = "running"]
      /\ r.tries = [p.tries EXCEPT ![v] = @ + 1]
  BY <1>1 DEF Private, Begun
<1>3. /\ r.unit[v] = "running" /\ r.tries[v] = p.tries[v] + 1
      /\ \A w \in Units \ {v} : r.unit[w] = p.unit[w] /\ r.tries[w] = p.tries[w]
  BY <1>2 DEF Private, Work
<1>4. p.status \in Active /\ q \in Active /\ Owed(p)
  BY DEF JobOK, Collected, Owed, Due, Rests, Collecting, Active
<1>5. p.final => p.switched
  BY <1>2, <1>4 DEF JobOK, Quiet, Owed
<1>6. \A w \in Units : p.unit[w] # "running"
  BY DEF JobOK, Collected
<1>7. Collected(q, r, "working", v) /\ Scheduled(q, r) /\ Quiet(r, "working")
  BY <1>2, <1>3, <1>4, <1>5, <1>6 DEF JobOK, Collected, Scheduled, Quiet, Rests, Settling, Active
<1>8. p.tries[v] \in Nat /\ p.tries[v] <= 1
  BY DEF Private, JobOK, Counted
<1>9. Counted(r)
  BY <1>3, <1>8 DEF JobOK, Counted
<1> QED
  BY <1>2, <1>7, <1>9 DEF JobOK

\* The collection ends with a cancel, with the time, or with the work.
LEMMA FinishedOK ==
    ASSUME NEW q, NEW p \in Private, NEW u, JobOK(q, p, "next", u), NEW status,
           \/ status = "cancelled" /\ p.cancel
           \/ status = "disabled"
           \/ status = "completed" /\ ~p.cancel
              /\ (p.left <= 1 \/ \A v \in Units : p.unit[v] # "pending")
    PROVE  LET r == Finished(p, status)
           IN  r \in Private /\ JobOK(q, r, "final", u) /\ r.cancel = p.cancel /\ ~r.inflight
<1> DEFINE r == Finished(p, status)
<1>1. /\ r \in Private /\ r.status = status /\ ~r.inflight /\ r.cancel = p.cancel
      /\ r.final = p.final /\ r.unit = p.unit /\ r.tries = p.tries /\ r.left = p.left
      /\ r.switched = p.switched
  BY DEF Private, PrivateStatuses, Statuses, Finished
<1>2. \A v \in Units : ~p.cancel => p.unit[v] # "running"
  BY DEF JobOK, Collected
<1>3. ~Owed(r) /\ (Due(r) => Due(p))
  <2>1. p.left \in Nat
    BY QueueConstants DEF Private
  <2>2. ~p.cancel => p.status # "failed"
    BY DEF JobOK, Collected, Active
  <2> QED
    BY <1>1, <1>2, <2>1, <2>2 DEF Owed, Due
<1>4. Collected(q, r, "final", u) /\ Scheduled(q, r) /\ Quiet(r, "final")
  BY <1>1, <1>3 DEF JobOK, Collected, Scheduled, Quiet, Rests, Collecting, Settling, Active
<1>5. Counted(r)
  BY <1>1 DEF JobOK, Counted
<1> QED
  BY <1>1, <1>4, <1>5 DEF JobOK

LEMMA AfterOperationKeeps ==
    ASSUME NEW p \in Private, NEW a \in AfterOperation(p)
    PROVE  a.unit = p.unit /\ a.final = p.final /\ a = [a EXCEPT !.final = p.final]
<1>1. PICK st \in StatusAfter(p) : a \in Charged(p, st)
  BY DEF AfterOperation
<1>2. PICK n \in 0..p.left : a = [Finished(p, st) EXCEPT !.left = n]
  BY <1>1 DEF Charged
<1> QED
  BY <1>2 DEF Private, Finished

\* The unit of an operation is done or failed; what was found is pending.
Outcome(p, w, r) ==
    \E a \in AfterOperation(p), final \in {p.final, FALSE} :
             r = [a EXCEPT !.final = final, !.unit = w]
LEMMA CollectedOK ==
    ASSUME NEW q, NEW p \in Private, NEW at \in {"working", "error"}, NEW u \in Units,
           JobOK(q, p, at, u),
           NEW w \in Work, w[u] \in {"done", "failed"},
           \A v \in Units \ {u} : w[v] = p.unit[v] \/ (p.unit[v] = "none" /\ w[v] = "pending"),
           NEW r, Outcome(p, w, r)
    PROVE  r \in Private /\ JobOK(q, r, "next", None) /\ r.cancel = p.cancel /\ ~r.inflight
<1> PICK a \in AfterOperation(p), final \in {p.final, FALSE} :
        r = [a EXCEPT !.final = final, !.unit = w]
  BY DEF Outcome
<1>0. PICK st \in StatusAfter(p) : a \in Charged(p, st)
  BY DEF AfterOperation
<1>1. PICK n \in 0..p.left : a = [Finished(p, st) EXCEPT !.left = n]
  BY <1>0 DEF Charged
<1>2. n \in 0..Seconds
  BY QueueConstants DEF Private
<1>3. /\ a \in Private /\ a.unit = p.unit /\ ~a.inflight /\ a.cancel = p.cancel
      /\ a.status = st /\ a.tries = p.tries /\ a.switched = p.switched
  BY <1>1, <1>2 DEF Finished, Private, PrivateStatuses, Statuses, StatusAfter
<1>4. (p.final => p.switched) /\ p.inflight
  BY DEF JobOK, Quiet, Collected
<1>5. /\ r \in Private /\ r.unit = w /\ ~r.inflight /\ r.cancel = p.cancel /\ r.tries = p.tries
      /\ (r.final => r.switched)
      /\ r.status = st
  <2>1. a.final = p.final
    BY AfterOperationKeeps
  <2> QED
    BY <1>3, <1>4, <2>1 DEF Private
<1>6. /\ q \in Active /\ (~p.cancel => p.status \in Active)
      /\ IF p.cancel THEN st = "cancelled"
                     ELSE st = p.status \/ st = "disabled"
  BY <1>4 DEF JobOK, Collected, Rests, Collecting, StatusAfter
<1>7. \A v \in Units : r.unit[v] # "running"
  BY <1>5 DEF JobOK, Collected
<1>8. Collected(q, r, "next", None) /\ Scheduled(q, r) /\ Quiet(r, "next")
  BY <1>5, <1>6, <1>7 DEF JobOK, Collected, Scheduled, Quiet, Rests, Owed, Due, Settling, Active
<1>9. Counted(r)
  BY <1>5 DEF JobOK, Counted
<1> QED
  BY <1>5, <1>8, <1>9 DEF JobOK

\* The pointer is told the private status, then the private state what was told.
LEMMA PublishedOK ==
    ASSUME NEW q, NEW p \in Private, NEW u, JobOK(q, p, "final", u)
    PROVE  JobOK(Told(p), p, "published", u)
BY DEF JobOK, Collected, Scheduled, Quiet, Told, Requeued, Owed, Due, Collecting, Settling, Active

LEMMA ToldOK ==
    ASSUME NEW q, NEW p \in Private, NEW u, JobOK(q, p, "published", u)
    PROVE  LET r == [p EXCEPT !.status = Requeued(p)]
           IN  r \in Private /\ JobOK(q, r, "away", None) /\ Rests(r) = Rests(p)
BY DEF JobOK, Collected, Scheduled, Quiet, Counted, Requeued, Settling, Owed, Due, Rests, Collecting,
       Active, Private, PrivateStatuses, Statuses

LEMMA FailedOK ==
    ASSUME NEW q, NEW p \in Private, NEW at \in {"failing", "unreconciled"}, NEW u,
           JobOK(q, p, at, u), NEW to \in {"marked", "away"}, NEW v
    PROVE  JobOK("failed", p, to, v)
BY DEF JobOK, Collected, Scheduled, Quiet, Counted, Owed, Due, Collecting, Active

\* A queued job is claimed, and a job that ran is queued again by the next worker.
LEMMA ClaimedOK ==
    ASSUME NEW q \in Active, NEW p \in Private, NEW u, JobOK(q, p, "away", u), NEW v,
           NEW to \in {"claimed", "away"}, NEW n \in Active
    PROVE  JobOK(n, p, to, v)
BY DEF JobOK, Collected, Scheduled, Quiet, Counted, Owed, Due, Collecting, Settling, Active

-----------------------------------------------------------------------------
(* What a step does to the other jobs and to the calls that wait           *)

\* Only one private job changes, and the worker at most takes it up or leaves it.
LEMMA OneJob ==
    ASSUME JobsOK, NEW j \in VinJobs,
           \A k \in VinJobs \ {j} : pointer'[k] = pointer[k] /\ private'[k] = private[k],
           worker' = worker \/ {worker.job, worker'.job}
                    \subseteq {j} \cup (PublicJobs \cup {None}),
           Live(j)' => JobOK(pointer'[j], private'[j], Place(j)', worker'.unit)
    PROVE  JobsOK'
<1> SUFFICES ASSUME NEW k \in VinJobs, Live(k)'
             PROVE  JobOK(pointer'[k], private'[k], Place(k)', worker'.unit)
  BY DEF JobsOK
<1>1. CASE k = j
  BY <1>1
<1>2. CASE k # j
  <2>1. Live(k) /\ JobOK(pointer[k], private[k], Place(k), worker.unit)
    BY <1>2 DEF JobsOK, Live
  <2>2. CASE worker' = worker
    BY <1>2, <2>1, <2>2 DEF Place
  <2>3. CASE {worker.job, worker'.job} \subseteq {j} \cup (PublicJobs \cup {None})
    <3>1. Place(k) = "away" /\ Place(k)' = "away"
      BY <1>2, <2>3, QueueConstants DEF Place
    <3>2. JobOK(pointer[k], private[k], "away", worker'.unit)
      BY <2>1, <3>1 DEF JobOK, Collected, Scheduled, Quiet, Counted, Collecting
    <3> QED
      BY <1>2, <3>1, <3>2
  <2> QED
    BY <2>2, <2>3
<1> QED
  BY <1>1, <1>2

\* The calls of another job wait for what they did.
LEMMA OtherCalls ==
    ASSUME WaitersOK, NEW j \in VinJobs,
           \A k \in VinJobs \ {j} : pointer'[k] = pointer[k] /\ private'[k] = private[k],
           \A c \in Callers : caller'[c].at # "idle" /\ caller'[c] # caller[c] =>
                    caller'[c].job = j,
           \A c \in Callers : caller'[c].at # "idle" => caller'[c].job \in VinJobs,
           \A c \in Callers : caller'[c].at # "idle" /\ caller'[c].job = j /\ Live(j)' =>
               Waiting(caller'[c], pointer'[j], private'[j])
    PROVE  WaitersOK'
BY DEF WaitersOK, Live

\* A transaction of a job that nobody has locked leaves a cancelled job at rest.
LEMMA Unlocked ==
    ASSUME QueueInv, NEW j \in VinJobs, Opens(j), NEW q, NEW r,
           Rests(private[j]) => Rests(r), q \in Active => pointer[j] \in Active,
           NEW c \in Callers, caller[c].at # "idle", caller[c].job = j
    PROVE  Waiting(caller[c], q, r)
<1>1. Live(j) /\ lock[j] # c
  BY QueueConstants DEF Opens
<1>2. Waiting(caller[c], pointer[j], private[j])
  BY <1>1 DEF QueueInv, WaitersOK
<1>3. caller[c].at # "queued"
  BY <1>1 DEF QueueInv, LocksOK, Starting, Settling
<1> QED
  BY <1>2, <1>3 DEF Waiting

\* The queue gains no active job, or the one job that may be one.
LEMMA NoneMoreActive ==
    ASSUME OneActive, \A j \in Jobs : pointer'[j] \in Active => pointer[j] \in Active
    PROVE  OneActive'
BY DEF OneActive

LEMMA TakesTheSlot ==
    ASSUME NEW j \in Jobs, SlotIsFree(j), \A k \in Jobs \ {j} : pointer'[k] = pointer[k]
    PROVE  OneActive'
BY DEF OneActive, SlotIsFree

\* What a holder releases, it alone held.
LEMMA Released ==
    ASSUME LocksOK, TablesOK, NEW x \in Callers \cup {"worker"}, Release(x)
    PROVE  /\ startLock' \in Holders /\ lock' \in [VinJobs -> Holders]
           /\ \A c \in Callers \ {x} : caller[c].at \in Starting => startLock' = c
           /\ \A c \in Callers \ {x} : caller[c].at = "queued" /\ caller[c].job \in VinJobs =>
                 lock'[caller[c].job] = c
           /\ x # "worker" /\ worker.at \in Settling => startLock' = "worker"
<1>1. x # None /\ None \in Holders /\ (x # "worker" => x \in Callers)
  BY QueueConstants DEF Holders
<1>2. startLock' \in Holders /\ (startLock # x => startLock' = startLock)
  BY <1>1 DEF Release, TablesOK
<1>3. /\ lock' \in [VinJobs -> Holders]
      /\ \A k \in VinJobs : lock[k] # x => lock'[k] = lock[k]
  BY <1>1 DEF Release, TablesOK
<1>4. \A c \in Callers : /\ caller[c].at \in Starting => startLock = c
                         /\ caller[c].at = "queued" => lock[caller[c].job] = c
  BY DEF LocksOK, Starting
<1>5. worker.at \in Settling => startLock = "worker"
  BY DEF LocksOK, Settling
<1> QED
  BY <1>2, <1>3, <1>4, <1>5

LEMMA LiveJob ==
    ASSUME QueueInv, NEW j \in VinJobs, Live(j)
    PROVE  private[j] \in Private /\ JobOK(pointer[j], private[j], Place(j), worker.unit)
BY DEF QueueInv, QueueTypeOK, TablesOK, JobsOK, Live

-----------------------------------------------------------------------------
(* Public jobs *)

\* A step that leaves private states, VIN pointers, calls and locks alone, with a worker
\* that has no VIN job.
LEMMA PublicFrame ==
    ASSUME QueueInv, UNCHANGED <<private, caller, locks>>,
           \A k \in VinJobs : pointer'[k] = pointer[k],
           worker' = worker \/ {worker.job, worker'.job} \subseteq PublicJobs \cup {None},
           worker' = worker \/ worker'.at \notin Settling
    PROVE  JobsOK' /\ WaitersOK' /\ LocksOK'
<1>1. JobsOK'
  <2> SUFFICES ASSUME NEW k \in VinJobs, Live(k)'
               PROVE  JobOK(pointer'[k], private'[k], Place(k)', worker'.unit)
    BY DEF JobsOK
  <2>1. JobOK(pointer[k], private[k], Place(k), worker.unit) /\ private[k] \in Private
    BY LiveJob DEF Live
  <2>2. CASE worker' = worker
    BY <2>1, <2>2 DEF Place
  <2>3. CASE {worker.job, worker'.job} \subseteq PublicJobs \cup {None}
    <3>1. Place(k) = "away" /\ Place(k)' = "away"
      BY <2>3, QueueConstants DEF Place
    <3> QED
      BY <2>1, <3>1, MovesOK
  <2> QED
    BY <2>2, <2>3
<1>2. WaitersOK'
  BY DEF QueueInv, QueueTypeOK, CallsOK, WaitersOK, Live
<1>3. LocksOK'
  BY DEF QueueInv, LocksOK, locks
<1> QED
  BY <1>1, <1>2, <1>3

LEMMA PublicCall ==
    ASSUME QueueInv, NEW j \in PublicJobs,
           \/ CancelPublic(j)
           \/ \E u \in Units : StartPublic(j, u) \/ ExtendPublic(j, u)
    PROVE  QueueInv'
<1> USE DEF StartPublic, ExtendPublic, CancelPublic
<1>1. /\ UNCHANGED <<private, caller, locks, world, worker>>
      /\ j \in Jobs /\ \A k \in Jobs \ {j} : pointer'[k] = pointer[k]
      /\ pointer'[j] \in Statuses /\ pointer' \in [Jobs -> Statuses \cup {"none"}]
  BY DEF QueueInv, QueueTypeOK, TablesOK, Jobs, Statuses, Active
<1>2. public' \in [PublicJobs -> Work]
  BY DEF QueueInv, QueueTypeOK, TablesOK, Work, UnitStates, Added, NoWork
<1>3. TablesOK'
  BY <1>1, <1>2 DEF QueueInv, QueueTypeOK, TablesOK, locks, world
<1>4. \A k \in Jobs : pointer[k] # "none" => pointer'[k] # "none"
  BY <1>1 DEF Statuses, Active
<1>5. WorkerOK' /\ CallsOK'
  BY <1>1, <1>4, QueueConstants DEF QueueInv, QueueTypeOK, WorkerOK, CallsOK, Jobs, Away, OnPublic,
     Collecting, Ending, WorkerRow
<1>6. OneActive'
  <2>1. pointer'[j] \in Active => pointer[j] \in Active \/ SlotIsFree(j)
    BY DEF QueueInv, QueueTypeOK, TablesOK, Jobs, Active
  <2> QED
    BY <1>1, <2>1, NoneMoreActive, TakesTheSlot DEF QueueInv
<1>7. JobsOK' /\ WaitersOK' /\ LocksOK'
  BY <1>1, PublicFrame, QueueConstants DEF Jobs
<1> QED
  BY <1>3, <1>5, <1>6, <1>7 DEF QueueInv, QueueTypeOK

LEMMA PublicWork ==
    ASSUME QueueInv, WorkPublic \/ FetchedPublic
    PROVE  QueueInv'
<1> DEFINE j == worker.job
<1>1. /\ worker.at \in OnPublic /\ j \in PublicJobs /\ j \in Jobs /\ j \notin VinJobs
      /\ UNCHANGED <<private, caller, locks, world>>
  BY QueueConstants DEF WorkPublic, FetchedPublic, QueueInv, QueueTypeOK, WorkerOK, Jobs, OnPublic
<1>2. /\ \A k \in Jobs \ {j} : pointer'[k] = pointer[k]
      /\ pointer'[j] = pointer[j] \/ pointer'[j] \in Statuses \ Active
      /\ pointer' \in [Jobs -> Statuses \cup {"none"}]
  BY <1>1 DEF WorkPublic, FetchedPublic, QueueInv, QueueTypeOK, TablesOK, Statuses, Active
<1>3. public' \in [PublicJobs -> Work]
  <2>1. ASSUME NEW u \in Units
        PROVE  [public EXCEPT ![j][u] = "running"] \in [PublicJobs -> Work]
    BY <1>1 DEF QueueInv, QueueTypeOK, TablesOK, Work, UnitStates
  <2>2. public \in [PublicJobs -> Work]
    BY DEF QueueInv, QueueTypeOK, TablesOK
  <2>3. CASE WorkPublic
    BY <2>1, <2>2, <2>3 DEF WorkPublic
  <2>4. ASSUME FetchedPublic, public' # public
        PROVE  public' \in [PublicJobs -> Work]
    <3>1. PICK found : public' = [public EXCEPT ![j] =
              [v \in Units |-> IF v = worker.unit THEN "done"
                               ELSE IF v \in found THEN "pending" ELSE @[v]]]
      BY <2>4, Zenon DEF FetchedPublic
    <3>2. [v \in Units |-> IF v = worker.unit THEN "done"
                           ELSE IF v \in found THEN "pending" ELSE public[j][v]] \in Work
      BY <1>1, <2>2 DEF Work, UnitStates
    <3> QED
      BY <2>2, <3>1, <3>2
  <2> QED
    BY <2>2, <2>3, <2>4
<1>4. /\ worker' \in WorkerRow
      /\ \/ worker' = Idle
         \/ worker'.job = j /\ worker'.at = "public"
         \/ worker'.job = j /\ worker'.at = "fetching" /\ worker'.unit \in Units
  <2>1. worker \in WorkerRow /\ Idle \in WorkerRow
    BY DEF QueueInv, QueueTypeOK, WorkerOK, Idle, WorkerRow, Away
  <2>2. ASSUME NEW u \in Units
        PROVE  LET w == [worker EXCEPT !.at = "fetching", !.unit = u]
               IN  w \in WorkerRow /\ w.job = j /\ w.at = "fetching" /\ w.unit = u
    BY <2>1 DEF WorkerRow, OnPublic
  <2>3. LET w == [worker EXCEPT !.at = "public", !.unit = None]
        IN  w \in WorkerRow /\ w.job = j /\ w.at = "public"
    BY <2>1 DEF WorkerRow, OnPublic
  <2>4. CASE WorkPublic
    <3>1. \/ worker' = Idle
          \/ \E u \in Units : worker' = [worker EXCEPT !.at = "fetching", !.unit = u]
      BY <2>4 DEF WorkPublic
    <3> QED
      BY <2>1, <2>2, <3>1
  <2>5. CASE FetchedPublic
    BY <2>1, <2>3, <2>5 DEF FetchedPublic
  <2> QED
    BY <2>4, <2>5
<1>5. \A k \in Jobs : pointer[k] # "none" => pointer'[k] # "none"
  BY <1>2 DEF Statuses, Active
<1>6. pointer[j] # "none"
  BY <1>1 DEF QueueInv, QueueTypeOK, WorkerOK, OnPublic, Away
<1>7. TablesOK' /\ WorkerOK' /\ CallsOK'
  <2>1. TablesOK'
    BY <1>1, <1>2, <1>3 DEF QueueInv, QueueTypeOK, TablesOK, locks, world
  <2>2. WorkerOK'
    BY <1>1, <1>4, <1>5, <1>6 DEF WorkerOK, Idle, Away, OnPublic, Collecting, Ending, Settling
  <2>3. CallsOK'
    BY <1>1, <1>5 DEF QueueInv, QueueTypeOK, CallsOK, Jobs
  <2> QED
    BY <2>1, <2>2, <2>3
<1>8. OneActive'
  BY <1>2, NoneMoreActive DEF QueueInv
<1>9. JobsOK' /\ WaitersOK' /\ LocksOK'
  <2>1. \A k \in VinJobs : pointer'[k] = pointer[k]
    BY <1>1, <1>2 DEF Jobs
  <2>2. {worker.job, worker'.job} \subseteq PublicJobs \cup {None} /\ worker'.at \notin Settling
    BY <1>1, <1>4 DEF Idle, Settling
  <2> QED
    BY <1>1, <2>1, <2>2, PublicFrame
<1> QED
  BY <1>7, <1>8, <1>9 DEF QueueInv, QueueTypeOK

-----------------------------------------------------------------------------
(* API calls *)

\* A step of one call about its job, with what it must show of that job.
LEMMA CallFrame ==
    ASSUME QueueInv, NEW c \in Callers, NEW j \in VinJobs,
           UNCHANGED <<public, world, worker>>, LocksOK',
           startLock' \in Holders, lock' \in [VinJobs -> Holders],
           pointer' \in [Jobs -> Statuses \cup {"none"}],
           \A k \in Jobs \ {j} : pointer'[k] = pointer[k], pointer'[j] # "none",
           private' \in [VinJobs -> Private \cup {Lost}],
           \A k \in VinJobs \ {j} : private'[k] = private[k],
           caller' \in [Callers -> CallRow], \A d \in Callers \ {c} : caller'[d] = caller[d],
           caller'[c].at # "idle" => caller'[c].job = j,
           caller'[c].at = "queued" => caller'[c].unit \in Units,
           pointer'[j] \in Active => pointer[j] \in Active \/ SlotIsFree(j),
           Live(j)' => JobOK(pointer'[j], private'[j], Place(j), worker.unit),
           \A d \in Callers : caller'[d].at # "idle" /\ caller'[d].job = j /\ Live(j)' =>
               Waiting(caller'[d], pointer'[j], private'[j])
    PROVE  QueueInv'
<1>1. TablesOK'
  BY DEF QueueInv, QueueTypeOK, TablesOK, world
<1>2. j \in Jobs /\ \A k \in Jobs : pointer[k] # "none" => pointer'[k] # "none"
  BY DEF Jobs
<1>3. WorkerOK'
  BY <1>2 DEF QueueInv, QueueTypeOK, WorkerOK, Jobs, OnPublic, Away, Collecting, Ending, WorkerRow
<1>4. CallsOK'
  BY <1>2 DEF QueueInv, QueueTypeOK, CallsOK, Jobs
<1>5. OneActive'
  BY <1>2, NoneMoreActive, TakesTheSlot DEF QueueInv
<1>6. \A k \in VinJobs \ {j} : pointer'[k] = pointer[k] /\ private'[k] = private[k]
  BY DEF Jobs
<1>7. JobsOK'
  <2>1. Place(j)' = Place(j)
    BY DEF Place
  <2> QED
    BY <1>6, <2>1, OneJob DEF QueueInv
<1>8. WaitersOK'
  BY <1>4, <1>6, OtherCalls DEF QueueInv, CallsOK
<1> QED
  BY <1>1, <1>3, <1>4, <1>5, <1>7, <1>8 DEF QueueInv, QueueTypeOK

LEMMA CallEnds ==
    ASSUME QueueInv, NEW c \in Callers, Ends(c)
    PROVE  /\ caller' \in [Callers -> CallRow] /\ caller'[c].at = "idle"
           /\ \A d \in Callers \ {c} : caller'[d] = caller[d]
<1>1. NoCall \in CallRow
  BY DEF NoCall, CallRow
<1> QED
  BY <1>1 DEF QueueInv, QueueTypeOK, CallsOK, Ends, NoCall

LEMMA CallGoes ==
    ASSUME QueueInv, NEW c \in Callers, NEW step \in {"checked", "cancelled", "reconciling"},
           At(c, step)
    PROVE  /\ caller' \in [Callers -> CallRow]
           /\ caller'[c].at = step /\ caller'[c].job = caller[c].job
           /\ \A d \in Callers \ {c} : caller'[d] = caller[d]
<1>1. [caller[c] EXCEPT !.at = step] \in CallRow
  BY DEF QueueInv, QueueTypeOK, CallsOK, CallRow, Starting
<1>2. caller' = [caller EXCEPT ![c] = [caller[c] EXCEPT !.at = step]]
  BY DEF At, QueueInv, QueueTypeOK, CallsOK
<1> QED
  BY <1>1, <1>2 DEF QueueInv, QueueTypeOK, CallsOK, CallRow

\* What every step of a call under way can rely on.
LEMMA CallOf ==
    ASSUME QueueInv, NEW c \in Callers, caller[c].at # "idle"
    PROVE  /\ caller[c].job \in VinJobs /\ caller[c].job \in Jobs
           /\ pointer[caller[c].job] \in Statuses
           /\ pointer \in [Jobs -> Statuses \cup {"none"}]
           /\ private \in [VinJobs -> Private \cup {Lost}]
           /\ startLock \in Holders /\ lock \in [VinJobs -> Holders]
           /\ \A d \in Callers : caller[d].at # "idle" /\ caller[d].job = caller[c].job
                 /\ Live(caller[c].job) =>
                    Waiting(caller[d], pointer[caller[c].job], private[caller[c].job])
BY DEF QueueInv, QueueTypeOK, CallsOK, TablesOK, WaitersOK, Jobs

\* A call that only ends, or goes on, changes nothing that others rely on.
LEMMA CallMoves ==
    ASSUME QueueInv, NEW c \in Callers, caller[c].at # "idle",
           UNCHANGED <<databases, locks, world, worker>>,
           Ends(c) \/ At(c, "checked")
    PROVE  QueueInv'
<1> PICK j \in VinJobs : j = caller[c].job
  BY CallOf
<1>1. /\ caller' \in [Callers -> CallRow] /\ \A d \in Callers \ {c} : caller'[d] = caller[d]
      /\ caller'[c].at \in {"idle", "checked"} /\ (caller'[c].at # "idle" => caller'[c].job = j)
  BY CallEnds, CallGoes
<1>2. LocksOK'
  BY <1>1 DEF QueueInv, LocksOK, Starting, locks
<1>3. Live(j)' => JobOK(pointer'[j], private'[j], Place(j), worker.unit)
  BY CallOf, LiveJob DEF Live, databases
<1>4. \A d \in Callers : caller'[d].at # "idle" /\ caller'[d].job = j /\ Live(j)' =>
          Waiting(caller'[d], pointer'[j], private'[j])
  BY <1>1, CallOf DEF Live, databases, Waiting
<1>5. /\ pointer' = pointer /\ private' = private /\ UNCHANGED <<public, world, worker>>
      /\ startLock' = startLock /\ lock' = lock /\ pointer[j] # "none"
  BY CallOf DEF databases, locks, Statuses, Active
<1> QED
  BY <1>1, <1>2, <1>3, <1>4, <1>5, CallOf, CallFrame

\* A transaction of one private database.
LEMMA StoredIn ==
    ASSUME QueueInv, NEW j \in VinJobs, NEW r \in Private, Stored(j, r)
    PROVE  /\ private' \in [VinJobs -> Private \cup {Lost}] /\ private'[j] = r
           /\ \A k \in VinJobs \ {j} : private'[k] = private[k]
BY DEF Stored, QueueInv, QueueTypeOK, TablesOK

\* The locks when a call takes none, and when it releases what it has.
LEMMA SameLocks ==
    ASSUME QueueInv, UNCHANGED <<locks, worker>>,
           \A d \in Callers : caller'[d].at \in Starting => caller'[d] = caller[d]
    PROVE  LocksOK' /\ startLock' \in Holders /\ lock' \in [VinJobs -> Holders]
BY DEF QueueInv, QueueTypeOK, TablesOK, LocksOK, Starting, locks

LEMMA CallReleases ==
    ASSUME QueueInv, NEW c \in Callers, caller'[c].at \notin Starting,
           \A d \in Callers \ {c} : caller'[d] = caller[d], Release(c), worker' = worker
    PROVE  LocksOK' /\ startLock' \in Holders /\ lock' \in [VinJobs -> Holders]
<1>1. /\ startLock' \in Holders /\ lock' \in [VinJobs -> Holders]
      /\ \A d \in Callers \ {c} : caller[d].at \in Starting => startLock' = d
      /\ \A d \in Callers \ {c} : caller[d].at = "queued" /\ caller[d].job \in VinJobs =>
            lock'[caller[d].job] = d
      /\ worker.at \in Settling => startLock' = "worker"
  BY Released, QueueConstants DEF QueueInv, QueueTypeOK
<1>2. \A d \in Callers : caller[d].at = "queued" => caller[d].job \in VinJobs
  BY DEF QueueInv, QueueTypeOK, CallsOK
<1> QED
  BY <1>1, <1>2 DEF LocksOK, Starting

\* The transaction of a call that leaves the pointer alone; the call ends or goes on,
\* with the locks it had or without.
LEMMA CallStores ==
    ASSUME QueueInv, NEW c \in Callers, caller[c].at # "idle", NEW j \in VinJobs, j = caller[c].job,
           UNCHANGED <<pointer, public, world, worker>>, UNCHANGED locks \/ Release(c), Opens(j),
           NEW r \in Private, Stored(j, r), JobOK(pointer[j], r, Place(j), worker.unit),
           Rests(private[j]) => Rests(r),
           Ends(c) \/ At(c, "checked") \/ (At(c, "cancelled") /\ Rests(r))
    PROVE  QueueInv'
<1>1. /\ caller' \in [Callers -> CallRow] /\ \A d \in Callers \ {c} : caller'[d] = caller[d]
      /\ caller'[c].at # "idle" => caller'[c].job = j
      /\ caller'[c].at \in {"idle", "checked"} \/ (caller'[c].at = "cancelled" /\ Rests(r))
  BY CallEnds, CallGoes
<1>2. LocksOK' /\ startLock' \in Holders /\ lock' \in [VinJobs -> Holders]
  <2>1. caller'[c].at \notin Starting
    BY <1>1 DEF Starting
  <2> QED
    BY <1>1, <2>1, SameLocks, CallReleases
<1>3. \A d \in Callers : caller'[d].at # "idle" /\ caller'[d].job = j =>
          Waiting(caller'[d], pointer'[j], private'[j])
  <2> SUFFICES ASSUME NEW d \in Callers, caller'[d].at # "idle", caller'[d].job = j
               PROVE  Waiting(caller'[d], pointer'[j], private'[j])
    OBVIOUS
  <2>1. CASE d = c
    BY <1>1, <2>1, StoredIn DEF Waiting
  <2>2. CASE d # c
    <3>1. caller'[d] = caller[d]
      BY <1>1, <2>2
    <3>2. private'[j] = r
      BY StoredIn
    <3>3. Waiting(caller[d], pointer'[j], r)
      BY <3>1, Unlocked
    <3> QED
      BY <3>1, <3>2, <3>3
  <2> QED
    BY <2>1, <2>2
<1>4. pointer' = pointer /\ UNCHANGED <<public, world, worker>> /\ pointer[j] # "none"
  BY CallOf DEF Statuses, Active
<1>5. /\ private' \in [VinJobs -> Private \cup {Lost}] /\ private'[j] = r
      /\ \A k \in VinJobs \ {j} : private'[k] = private[k]
  BY StoredIn
<1> QED
  BY <1>1, <1>2, <1>3, <1>4, <1>5, CallOf, CallFrame

LEMMA CallStep ==
    ASSUME QueueInv, NEW c \in Callers, NEW op \in Operations, NEW j \in VinJobs, Call(c, op, j)
    PROVE  QueueInv'
<1>1. /\ caller[c].at = "idle" /\ pointer[j] # "none"
      /\ UNCHANGED <<databases, locks, world, worker>>
  BY DEF Call
<1>2. PICK step \in {"checked", "repairing"} :
         caller' = [caller EXCEPT ![c] = [NoCall EXCEPT !.op = op, !.job = j, !.at = step]]
  BY DEF Call
<1>3. [NoCall EXCEPT !.op = op, !.job = j, !.at = step] \in CallRow
  BY DEF NoCall, CallRow, Operations
<1>4. /\ caller' \in [Callers -> CallRow] /\ \A d \in Callers \ {c} : caller'[d] = caller[d]
      /\ caller'[c].at = step /\ caller'[c].job = j
  BY <1>2, <1>3 DEF QueueInv, QueueTypeOK, CallsOK, NoCall
<1>5. LocksOK'
  BY <1>1, <1>4 DEF QueueInv, LocksOK, Starting, locks
<1>6. /\ pointer' = pointer /\ private' = private /\ UNCHANGED <<public, world, worker>>
      /\ startLock' = startLock /\ lock' = lock
      /\ pointer \in [Jobs -> Statuses \cup {"none"}]
      /\ private \in [VinJobs -> Private \cup {Lost}]
      /\ startLock \in Holders /\ lock \in [VinJobs -> Holders]
  BY <1>1 DEF databases, locks, QueueInv, QueueTypeOK, TablesOK
<1>7. Live(j)' => JobOK(pointer'[j], private'[j], Place(j), worker.unit)
  BY <1>6, LiveJob DEF Live
<1>8. \A d \in Callers : caller'[d].at # "idle" /\ caller'[d].job = j /\ Live(j)' =>
          Waiting(caller'[d], pointer'[j], private'[j])
  BY <1>4, <1>6 DEF QueueInv, WaitersOK, Waiting, Live
<1> QED
  BY <1>1, <1>4, <1>5, <1>6, <1>7, <1>8, CallFrame

\* A call that ends and leaves the databases as they are.
LEMMA DieStep ==
    ASSUME QueueInv, NEW c \in Callers, caller[c].at # "idle", Ends(c), Release(c),
           UNCHANGED <<databases, full, stop, worker>>, troubles' \in Nat
    PROVE  QueueInv'
<1>1. LocksOK' /\ startLock' \in Holders /\ lock' \in [VinJobs -> Holders]
  BY CallEnds, CallReleases DEF Starting
<1>2. pointer' = pointer /\ private' = private /\ public' = public
  BY DEF databases
<1>3. /\ caller' \in [Callers -> CallRow] /\ \A d \in Callers \ {c} : caller'[d] = caller[d]
      /\ caller'[c].at = "idle"
  BY CallEnds
<1>4. QueueTypeOK'
  BY <1>1, <1>2, <1>3 DEF QueueInv, QueueTypeOK, TablesOK, WorkerOK, CallsOK
<1>5. OneActive' /\ JobsOK' /\ WaitersOK'
  BY <1>2, <1>3 DEF QueueInv, OneActive, JobsOK, WaitersOK, Live, Place
<1> QED
  BY <1>1, <1>4, <1>5 DEF QueueInv

\* A call looks at a job that failed, and keeps start.lock to settle it.
LEMMA RepairStep ==
    ASSUME QueueInv, NEW c \in Callers, Repair(c)
    PROVE  QueueInv'
<1>1. /\ caller[c].at # "idle" /\ UNCHANGED <<databases, lock, world, worker>>
      /\ startLock = None
  BY DEF Repair
<1> PICK j \in VinJobs : j = caller[c].job
  BY <1>1, CallOf
<1>2. CASE At(c, "checked") /\ startLock' = startLock
  BY <1>1, <1>2, CallMoves DEF locks
<1>3. CASE At(c, "reconciling") /\ startLock' = c /\ pointer[j] = "failed"
  <2>1. /\ caller' \in [Callers -> CallRow] /\ \A d \in Callers \ {c} : caller'[d] = caller[d]
        /\ caller'[c].at = "reconciling" /\ caller'[c].job = j
    BY <1>3, CallGoes
  <2>2. /\ pointer' = pointer /\ private' = private /\ UNCHANGED <<public, world, worker>>
        /\ startLock' \in Holders /\ lock' = lock
    BY <1>1, <1>3 DEF databases, Holders
  <2>3. /\ \A d \in Callers : caller[d].at \notin Starting
        /\ worker.at \notin Settling
    BY <1>1, QueueConstants DEF QueueInv, LocksOK, Starting, Settling
  <2>4. LocksOK'
    BY <1>3, <2>1, <2>2, <2>3 DEF LocksOK, Starting
  <2>5. Live(j)' => JobOK(pointer'[j], private'[j], Place(j), worker.unit)
    BY <2>2, LiveJob DEF Live
  <2>6. \A d \in Callers : caller'[d].at # "idle" /\ caller'[d].job = j /\ Live(j)' =>
            Waiting(caller'[d], pointer'[j], private'[j])
    BY <1>1, <1>3, <2>1, <2>2, CallOf DEF Waiting, Live, Active
  <2> QED
    BY <1>1, <1>3, <2>1, <2>2, <2>4, <2>5, <2>6, CallOf, CallFrame
<1> QED
  BY <1>2, <1>3 DEF Repair

\* The job is still failed, or cancelled, when the transaction settles it.
LEMMA RepairCommitsStep ==
    ASSUME QueueInv, NEW c \in Callers, RepairCommits(c)
    PROVE  QueueInv'
<1>1. /\ caller[c].at = "reconciling" /\ caller[c].at # "idle" /\ Release(c)
      /\ Opens(caller[c].job) /\ UNCHANGED <<pointer, public, world, worker>>
  BY DEF RepairCommits
<1> PICK j \in VinJobs : j = caller[c].job
  BY <1>1, CallOf
<1>2. CASE private' = private /\ Ends(c)
  <2>1. troubles' \in Nat /\ UNCHANGED <<databases, full, stop, worker>>
    BY <1>1, <1>2 DEF QueueInv, QueueTypeOK, TablesOK, world, databases
  <2> QED
    BY <1>1, <1>2, <2>1, DieStep
<1>3. ASSUME NEW r \in Reconciled(private[j]), Stored(j, r), At(c, "checked")
      PROVE  QueueInv'
  <2>1. Live(j) /\ pointer[j] \notin Active
    BY <1>1, CallOf DEF Opens, Waiting
  <2>2. r \in Private /\ JobOK(pointer[j], r, Place(j), worker.unit) /\ r.cancel = private[j].cancel
           /\ ~r.inflight
    BY <2>1, LiveJob, ReconciledOK
  <2>3. Rests(private[j]) => Rests(r)
    BY <2>2 DEF Rests
  <2> QED
    BY <1>1, <1>3, <2>2, <2>3, CallStores
<1> QED
  BY <1>2, <1>3 DEF RepairCommits

LEMMA CancelStep ==
    ASSUME QueueInv, NEW c \in Callers, Cancel(c)
    PROVE  QueueInv'
<1>1. caller[c].at # "idle" /\ UNCHANGED <<pointer, public, locks, world, worker>>
  BY DEF Cancel
<1> PICK j \in VinJobs : j = caller[c].job
  BY <1>1, CallOf
<1>2. CASE private' = private /\ Ends(c)
  BY <1>1, <1>2, CallMoves DEF databases
<1>3. CASE Stored(j, Cancelled(private[j]))
           /\ (IF private[j].inflight THEN Ends(c) ELSE At(c, "cancelled"))
  <2>1. Opens(j) /\ Live(j)
    BY DEF Cancel, Opens
  <2>2. /\ Cancelled(private[j]) \in Private /\ Cancelled(private[j]).cancel
        /\ JobOK(pointer[j], Cancelled(private[j]), Place(j), worker.unit)
    BY <2>1, LiveJob, CancelledOK
  <2>3. Rests(Cancelled(private[j])) <=> ~private[j].inflight
    BY <2>1, <2>2, LiveJob DEF Rests, Cancelled, Private
  <2> QED
    BY <1>1, <1>3, <2>1, <2>2, <2>3, CallStores DEF Rests
<1> QED
  BY <1>2, <1>3 DEF Cancel

LEMMA FinalizeStep ==
    ASSUME QueueInv, NEW c \in Callers, Finalize(c)
    PROVE  QueueInv'
<1>1. caller[c].at # "idle" /\ Ends(c) /\ UNCHANGED <<pointer, public, locks, world, worker>>
  BY DEF Finalize
<1> PICK j \in VinJobs : j = caller[c].job
  BY <1>1, CallOf
<1> DEFINE r == Declared(private[j])
<1>2. CASE private' = private
  BY <1>1, <1>2, CallMoves DEF databases
<1>3. CASE Quiescent(private[j]) /\ Stored(j, r)
  <2>1. Opens(j) /\ Live(j)
    BY DEF Finalize, Opens
  <2>2. r \in Private /\ JobOK(pointer[j], r, Place(j), worker.unit)
    BY <1>3, <2>1, LiveJob, FinalizedOK
  <2>3. Rests(r) = Rests(private[j])
    BY <1>3, <2>1, LiveJob, FinalizedOK DEF Rests
  <2> QED
    BY <1>1, <1>3, <2>1, <2>2, <2>3, CallStores
<1> QED
  BY <1>2, <1>3 DEF Finalize, Declared

\* A step that only writes the pointer of a job, and ends the call.
LEMMA CallTells ==
    ASSUME QueueInv, NEW c \in Callers, caller[c].at # "idle", NEW j \in VinJobs, j = caller[c].job,
           NEW q \in Statuses \ Active, pointer' = [pointer EXCEPT ![j] = q], Ends(c), LocksOK',
           startLock' \in Holders, lock' \in [VinJobs -> Holders],
           UNCHANGED <<public, private, world, worker>>,
           Live(j) => /\ JobOK(q, private[j], Place(j), worker.unit)
                      /\ \A d \in Callers : caller[d].at # "idle" /\ caller[d].job = j =>
                             Waiting(caller[d], q, private[j])
    PROVE  QueueInv'
<1>1. /\ caller' \in [Callers -> CallRow] /\ \A d \in Callers \ {c} : caller'[d] = caller[d]
      /\ caller'[c].at = "idle"
  BY CallEnds
<1>2. /\ pointer' \in [Jobs -> Statuses \cup {"none"}] /\ pointer'[j] = q /\ q # "none"
      /\ \A k \in Jobs \ {j} : pointer'[k] = pointer[k]
  BY CallOf DEF Statuses, Active
<1>3. Live(j)' => JobOK(pointer'[j], private'[j], Place(j), worker.unit)
  BY <1>2 DEF Live
<1>4. \A d \in Callers : caller'[d].at # "idle" /\ caller'[d].job = j /\ Live(j)' =>
          Waiting(caller'[d], pointer'[j], private'[j])
  BY <1>1, <1>2 DEF Live
<1>5. UNCHANGED <<public, world, worker>> /\ private' = private /\ pointer'[j] \notin Active
  BY <1>2
<1> QED
  BY <1>1, <1>2, <1>3, <1>4, <1>5, CallOf, CallFrame

LEMMA TellStep ==
    ASSUME QueueInv, NEW c \in Callers, MarkLost(c) \/ TellCancelled(c)
    PROVE  QueueInv'
<1>1. /\ caller[c].at # "idle" /\ Ends(c) /\ UNCHANGED <<public, private, world, worker>>
      /\ UNCHANGED locks \/ Release(c)
  BY DEF MarkLost, TellCancelled
<1> PICK j \in VinJobs : j = caller[c].job
  BY <1>1, CallOf
<1>2. LocksOK' /\ startLock' \in Holders /\ lock' \in [VinJobs -> Holders]
  <2>1. /\ caller'[c].at = "idle" /\ caller'[c].at \notin Starting
        /\ \A d \in Callers \ {c} : caller'[d] = caller[d]
    BY <1>1, CallEnds DEF Starting
  <2> QED
    BY <1>1, <2>1, SameLocks, CallReleases
<1>3. CASE MarkLost(c)
  <2>1. ~Live(j) /\ pointer' = [pointer EXCEPT ![j] = "failed"]
    BY <1>3 DEF MarkLost
  <2>2. "failed" \in Statuses \ Active
    BY DEF Statuses, Active
  <2> QED
    BY <1>1, <1>2, <2>1, <2>2, CallTells
<1>4. CASE TellCancelled(c)
  <2>1. caller[c].at = "cancelled" /\ pointer' = [pointer EXCEPT ![j] = "cancelled"]
    BY <1>4 DEF TellCancelled
  <2>2. "cancelled" \in Statuses \ Active
    BY DEF Statuses, Active
  <2>3. ASSUME Live(j)
        PROVE  /\ JobOK("cancelled", private[j], Place(j), worker.unit)
               /\ \A d \in Callers : caller[d].at # "idle" /\ caller[d].job = j =>
                      Waiting(caller[d], "cancelled", private[j])
    <3>1. Rests(private[j])
      BY <1>1, <2>1, <2>3, CallOf DEF Waiting
    <3>2. JobOK("cancelled", private[j], Place(j), worker.unit)
      BY <2>3, <3>1, LiveJob, TellCancelledOK
    <3>3. \A d \in Callers : caller[d].at # "idle" /\ caller[d].job = j =>
              Waiting(caller[d], "cancelled", private[j])
      BY <1>1, <2>3, <3>1, CallOf DEF Waiting, Rests, Active
    <3> QED
      BY <3>2, <3>3
  <2> QED
    BY <1>1, <1>2, <2>1, <2>2, <2>3, CallTells
<1> QED
  BY <1>3, <1>4

\* The pointer goes first, under both locks.
LEMMA EnqueueStep ==
    ASSUME QueueInv, NEW c \in Callers, Enqueue(c)
    PROVE  QueueInv'
<1>1. /\ caller[c].at # "idle" /\ UNCHANGED <<public, private, world, worker>>
      /\ startLock = None /\ Opens(caller[c].job)
  BY DEF Enqueue
<1> PICK j \in VinJobs : j = caller[c].job
  BY <1>1, CallOf
<1>2. CASE Ends(c) /\ UNCHANGED <<pointer, locks>>
  BY <1>1, <1>2, CallMoves DEF databases
<1>3. CASE ~UNCHANGED <<pointer, locks>> \/ ~Ends(c)
  <2> DEFINE p == private[j]
  <2>1. PICK u \in Units :
           /\ Extendable(p, caller[c].op) /\ SlotIsFree(j) /\ p.unit[u] = "none"
           /\ pointer' = [pointer EXCEPT ![j] = NewStatus(p, caller[c].op)]
           /\ startLock' = c /\ lock' = [lock EXCEPT ![j] = c]
           /\ caller' = [caller EXCEPT ![c].at = "queued", ![c].unit = u]
    BY <1>3 DEF Enqueue
  <2>2. PICK q \in Active : q = NewStatus(p, caller[c].op)
    BY DEF NewStatus, Active
  <2>3. [caller[c] EXCEPT !.at = "queued", !.unit = u] \in CallRow
    BY DEF QueueInv, QueueTypeOK, CallsOK, CallRow, Starting
  <2>4. caller' = [caller EXCEPT ![c] = [caller[c] EXCEPT !.at = "queued", !.unit = u]]
    BY <2>1 DEF QueueInv, QueueTypeOK, CallsOK
  <2>5. /\ caller' \in [Callers -> CallRow] /\ \A d \in Callers \ {c} : caller'[d] = caller[d]
        /\ caller'[c].at = "queued" /\ caller'[c].job = j /\ caller'[c].unit = u
    BY <2>3, <2>4 DEF QueueInv, QueueTypeOK, CallsOK, CallRow
  <2>6. /\ pointer' \in [Jobs -> Statuses \cup {"none"}] /\ pointer'[j] = q /\ q # "none"
        /\ \A k \in Jobs \ {j} : pointer'[k] = pointer[k]
        /\ startLock' \in Holders /\ lock' \in [VinJobs -> Holders] /\ lock'[j] = c
    BY <1>1, <2>1, <2>2, CallOf DEF Statuses, Active, Holders
  <2>7. /\ \A d \in Callers : caller[d].at \notin Starting
        /\ worker.at \notin Settling
    BY <1>1, QueueConstants DEF QueueInv, LocksOK, Starting, Settling
  <2>8. LocksOK'
    BY <1>1, <2>1, <2>5, <2>6, <2>7 DEF LocksOK, Starting
  <2>9. Live(j) /\ ~p.cancel /\ p.status \notin {"cancelled", "disabled", "failed"}
    BY <1>1, <2>1 DEF Opens, Extendable
  <2>10. JobOK(q, p, Place(j), worker.unit)
    <3>1. JobOK(pointer[j], p, Place(j), worker.unit) /\ Place(j) \notin Settling
      BY <2>7, <2>9, LiveJob DEF Place, Settling
    <3> QED
      BY <2>2, <2>9, <3>1 DEF JobOK, Collected, Scheduled, Quiet, Counted, Rests, Owed, Due
  <2>11. \A d \in Callers : caller'[d].at # "idle" /\ caller'[d].job = j =>
           Waiting(caller'[d], q, p)
    <3> SUFFICES ASSUME NEW d \in Callers, caller'[d].at # "idle", caller'[d].job = j
                 PROVE  Waiting(caller'[d], q, p)
      OBVIOUS
    <3>1. CASE d = c
      BY <2>1, <2>2, <2>5, <2>9, <3>1 DEF Waiting
    <3>2. CASE d # c
      <4>1. caller'[d] = caller[d] /\ caller[d].at \notin Starting
        BY <2>5, <2>7, <3>2
      <4>2. Waiting(caller[d], pointer[j], p)
        BY <1>1, <2>9, <4>1, CallOf
      <4> QED
        BY <4>1, <4>2 DEF Waiting, Starting
    <3> QED
      BY <3>1, <3>2
  <2>12. Live(j)' = Live(j) /\ private'[j] = p /\ private' = private
    BY <1>1 DEF Live
  <2> QED
    BY <1>1, <2>1, <2>5, <2>6, <2>8, <2>10, <2>11, <2>12, CallOf, CallFrame
<1> QED
  BY <1>2, <1>3

\* The private state follows, or what the call added is given up.
LEMMA CommitEnqueueStep ==
    ASSUME QueueInv, NEW c \in Callers, CommitEnqueue(c)
    PROVE  QueueInv'
<1>1. /\ caller[c].at = "queued" /\ caller[c].at # "idle" /\ caller[c].unit \in Units
      /\ Ends(c) /\ Release(c) /\ UNCHANGED <<public, world, worker>>
  BY DEF CommitEnqueue, QueueInv, QueueTypeOK, CallsOK
<1> PICK j \in VinJobs : j = caller[c].job
  BY <1>1, CallOf
<1> DEFINE p == private[j]
           r == [p EXCEPT !.status = NewStatus(p, caller[c].op), !.final = FALSE,
                          !.unit = Added(@, caller[c].unit)]
<1>2. LocksOK' /\ startLock' \in Holders /\ lock' \in [VinJobs -> Holders]
  BY <1>1, CallEnds, CallReleases DEF Starting
<1>3. /\ caller' \in [Callers -> CallRow] /\ \A d \in Callers \ {c} : caller'[d] = caller[d]
      /\ caller'[c].at = "idle"
  BY <1>1, CallEnds
<1>4. CASE Live(j) /\ Stored(j, r) /\ pointer' = pointer
  <2>1. /\ ~p.cancel /\ pointer[j] \in Active \cup {"failed"} /\ p.unit[caller[c].unit] = "none"
    BY <1>1, <1>4, CallOf DEF Waiting
  <2>2. r \in Private /\ JobOK(pointer[j], r, Place(j), worker.unit)
    BY <1>1, <1>4, <2>1, LiveJob, EnqueuedOK
  <2>3. /\ private' \in [VinJobs -> Private \cup {Lost}] /\ private'[j] = r
        /\ \A k \in VinJobs \ {j} : private'[k] = private[k]
    BY <1>4, <2>2, StoredIn
  <2>4. \A d \in Callers \ {c} : caller[d].at \notin Starting
    BY <1>1 DEF QueueInv, LocksOK, Starting, Settling
  <2>5. \A d \in Callers : caller'[d].at # "idle" /\ caller'[d].job = j =>
            Waiting(caller'[d], pointer'[j], private'[j])
    <3> SUFFICES ASSUME NEW d \in Callers, caller'[d].at # "idle", caller'[d].job = j
                 PROVE  Waiting(caller'[d], pointer'[j], private'[j])
      OBVIOUS
    <3>1. caller'[d] = caller[d] /\ caller[d].at \notin Starting
      BY <1>3, <2>4
    <3>2. Waiting(caller[d], pointer[j], p)
      BY <1>1, <1>4, <3>1, CallOf
    <3> QED
      BY <2>1, <3>1, <3>2 DEF Waiting, Rests, Starting
  <2>6. pointer[j] # "none"
    BY <1>1, CallOf DEF Statuses, Active
  <2> QED
    BY <1>1, <1>2, <1>3, <1>4, <2>2, <2>3, <2>5, <2>6, CallOf, CallFrame
<1>5. CASE UNCHANGED <<pointer, private>>
  <2>1. troubles' \in Nat /\ UNCHANGED <<databases, full, stop, worker>>
    BY <1>1, <1>5 DEF QueueInv, QueueTypeOK, TablesOK, world, databases
  <2> QED
    BY <1>1, <2>1, DieStep
<1>6. CASE ~Live(j) /\ pointer' = [pointer EXCEPT ![j] = "failed"] /\ private' = private
  <2>1. "failed" \in Statuses \ Active
    BY DEF Statuses, Active
  <2> QED
    BY <1>1, <1>2, <1>6, <2>1, CallTells
<1> QED
  BY <1>4, <1>5, <1>6 DEF CommitEnqueue

LEMMA CallersKeep ==
    ASSUME QueueInv, NEW c \in Callers, CallerStep(c) \/ Die(c)
    PROVE  QueueInv'
<1>1. CASE Die(c)
  <2>1. troubles' \in Nat
    BY <1>1 DEF Die, QueueInv, QueueTypeOK, TablesOK
  <2> QED
    BY <1>1, <2>1, DieStep DEF Die
<1> QED
  BY <1>1, RepairStep, RepairCommitsStep, CancelStep, TellStep, FinalizeStep, EnqueueStep,
     CommitEnqueueStep DEF CallerStep

\* The first call of a job finds nobody at it; one that dies leaves private state only.
LEMMA StartVinStep ==
    ASSUME QueueInv, NEW j \in VinJobs, NEW u \in Units, StartVin(j, u) \/ StartVin_Dies(j, u)
    PROVE  QueueInv'
<1> DEFINE r == Initialized(u)
<1>0. PICK q \in {"queued", "none"} :
         IF q = "none" THEN pointer' = pointer ELSE pointer' = [pointer EXCEPT ![j] = q]
  BY DEF StartVin, StartVin_Dies
<1>1. /\ pointer[j] = "none" /\ SlotIsFree(j)
      /\ private' = [private EXCEPT ![j] = r]
      /\ UNCHANGED <<public, locks, full, stop, worker, caller>>
      /\ troubles' \in Nat
  BY DEF StartVin, StartVin_Dies, Startable, world, QueueInv, QueueTypeOK, TablesOK
<1>2. /\ \A c \in Callers : caller[c].at # "idle" => caller[c].job # j
      /\ Place(j) \in {"away", "down", "idle"} /\ j \in Jobs
  BY <1>1, QueueConstants DEF QueueInv, QueueTypeOK, CallsOK, WorkerOK, Place, Away, Jobs
<1>3. Added(NoWork, u) \in Work
  BY DEF Added, NoWork, Work, UnitStates
<1>4. r \in Private /\ JobOK(q, r, "away", worker.unit)
  <2>1. r \in Private
    BY <1>3, QueueConstants DEF Private, PrivateStatuses, Statuses, Active, Initialized
  <2>2. Collected(q, r, "away", worker.unit) /\ Scheduled(q, r) /\ Quiet(r, "away")
    BY DEF Collected, Scheduled, Quiet, Rests, Active, Collecting, Settling, Initialized
  <2>3. Counted(r)
    BY DEF Counted, Initialized
  <2> QED
    BY <2>1, <2>2, <2>3 DEF JobOK
<1>5. /\ private' \in [VinJobs -> Private \cup {Lost}] /\ private'[j] = r
      /\ \A k \in VinJobs \ {j} : private'[k] = private[k]
  BY <1>1, <1>4 DEF QueueInv, QueueTypeOK, TablesOK
<1>6. /\ pointer' \in [Jobs -> Statuses \cup {"none"}] /\ pointer'[j] = q
      /\ \A k \in Jobs \ {j} : pointer'[k] = pointer[k]
  BY <1>0, <1>1, <1>2 DEF QueueInv, QueueTypeOK, TablesOK, Statuses, Active
<1>7. QueueTypeOK'
  <2>1. TablesOK'
    BY <1>1, <1>5, <1>6 DEF QueueInv, QueueTypeOK, TablesOK, locks
  <2>2. \A k \in Jobs : pointer[k] # "none" => pointer'[k] # "none"
    BY <1>1, <1>6
  <2>3. WorkerOK'
    BY <1>1, <2>2 DEF QueueInv, QueueTypeOK, WorkerOK, Jobs, OnPublic, Away, Collecting, Ending,
       WorkerRow
  <2>4. CallsOK'
    BY <1>1, <2>2 DEF QueueInv, QueueTypeOK, CallsOK, Jobs
  <2> QED
    BY <2>1, <2>3, <2>4 DEF QueueTypeOK
<1>8. OneActive'
  BY <1>1, <1>2, <1>6, TakesTheSlot
<1>9. JobsOK'
  <2>1. Place(j)' = Place(j)
    BY <1>1 DEF Place
  <2>2. JobOK(q, r, Place(j), worker.unit)
    BY <1>2, <1>4 DEF JobOK, Collected, Quiet, Collecting, Settling
  <2>3. \A k \in VinJobs \ {j} : pointer'[k] = pointer[k] /\ private'[k] = private[k]
    BY <1>5, <1>6 DEF Jobs
  <2> QED
    BY <1>1, <1>5, <1>6, <2>1, <2>2, <2>3, OneJob DEF QueueInv
<1>10. WaitersOK' /\ LocksOK'
  BY <1>1, <1>2, <1>5, <1>6 DEF QueueInv, QueueTypeOK, CallsOK, WaitersOK, LocksOK, Live, locks,
     Jobs
<1> QED
  BY <1>7, <1>8, <1>9, <1>10 DEF QueueInv

-----------------------------------------------------------------------------
(* The worker *)

\* A step of the worker about one VIN job, with what it must show of that job.
LEMMA WorkerFrame ==
    ASSUME QueueInv, NEW j \in VinJobs, UNCHANGED <<public, caller>>, LocksOK',
           full' \in BOOLEAN, stop' \in BOOLEAN, troubles' \in Nat,
           startLock' \in Holders, lock' \in [VinJobs -> Holders],
           pointer' \in [Jobs -> Statuses \cup {"none"}],
           \A k \in Jobs \ {j} : pointer'[k] = pointer[k], pointer'[j] # "none",
           private' \in [VinJobs -> Private \cup {Lost}],
           \A k \in VinJobs \ {j} : private'[k] = private[k],
           worker' \in WorkerRow, worker.job \in {j, None},
           \/ worker'.at \in Away /\ worker'.job = None
           \/ worker'.at \in Collecting \cup Ending /\ worker'.job = j,
           worker'.at \in {"working", "error"} => worker'.unit \in Units,
           pointer'[j] \in Active => pointer[j] \in Active,
           Live(j)' => JobOK(pointer'[j], private'[j], Place(j)', worker'.unit),
           \A c \in Callers : caller[c].at # "idle" /\ caller[c].job = j /\ Live(j)' =>
               Waiting(caller[c], pointer'[j], private'[j])
    PROVE  QueueInv'
<1>1. TablesOK'
  BY DEF QueueInv, QueueTypeOK, TablesOK
<1>2. j \in Jobs /\ \A k \in Jobs : pointer[k] # "none" => pointer'[k] # "none"
  BY DEF Jobs
<1>3. WorkerOK'
  BY <1>2 DEF WorkerOK, OnPublic, Away, Collecting, Ending, Settling
<1>4. CallsOK'
  BY <1>2 DEF QueueInv, QueueTypeOK, CallsOK, Jobs
<1>5. OneActive'
  BY <1>2, NoneMoreActive DEF QueueInv
<1>6. \A k \in VinJobs \ {j} : pointer'[k] = pointer[k] /\ private'[k] = private[k]
  BY DEF Jobs
<1>7. JobsOK'
  BY <1>6, OneJob DEF QueueInv
<1>8. WaitersOK'
  BY <1>6, OtherCalls DEF QueueInv, QueueTypeOK, CallsOK
<1> QED
  BY <1>1, <1>3, <1>4, <1>5, <1>7, <1>8 DEF QueueInv, QueueTypeOK

LEMMA SameWorld ==
    ASSUME QueueInv, UNCHANGED world
    PROVE  full' \in BOOLEAN /\ stop' \in BOOLEAN /\ troubles' \in Nat
BY DEF QueueInv, QueueTypeOK, TablesOK, world

\* What every step of the worker about a VIN job can rely on.
LEMMA WorkerOf ==
    ASSUME QueueInv, worker.at \in Collecting \cup Ending
    PROVE  /\ worker.job \in VinJobs /\ worker.job \in Jobs /\ pointer[worker.job] \in Statuses
           /\ Place(worker.job) = worker.at /\ worker \in WorkerRow
           /\ worker.at \in {"working", "error"} => worker.unit \in Units
           /\ pointer \in [Jobs -> Statuses \cup {"none"}]
           /\ private \in [VinJobs -> Private \cup {Lost}]
           /\ startLock \in Holders /\ lock \in [VinJobs -> Holders]
           /\ \A c \in Callers : caller[c].at # "idle" /\ caller[c].job = worker.job
                 /\ Live(worker.job) =>
                    Waiting(caller[c], pointer[worker.job], private[worker.job])
BY DEF QueueInv, QueueTypeOK, WorkerOK, TablesOK, WaitersOK, Jobs, Place, Collecting, Ending,
   Settling, Away

\* Where it goes: to another step of its job, or back to the queue.
LEMMA WorkerGoes ==
    ASSUME QueueInv, worker.at \in Collecting \cup Ending,
           NEW to \in Collecting \cup Ending, NEW v \in Units \cup {None},
           worker' = [worker EXCEPT !.at = to, !.unit = v]
    PROVE  /\ worker' \in WorkerRow /\ worker'.at = to /\ worker'.job = worker.job
           /\ worker'.unit = v
BY DEF QueueInv, QueueTypeOK, WorkerOK, WorkerRow

LEMMA WorkerMoves ==
    ASSUME QueueInv, worker.at \in Collecting \cup Ending, NEW to \in Collecting \cup Ending,
           Goes(to)
    PROVE  /\ worker' \in WorkerRow /\ worker'.at = to /\ worker'.job = worker.job
           /\ worker'.unit = worker.unit
BY DEF QueueInv, QueueTypeOK, WorkerOK, WorkerRow, Goes

LEMMA WorkerRests ==
    ASSUME NEW to \in Away, worker' = [Idle EXCEPT !.at = to]
    PROVE  worker' \in WorkerRow /\ worker'.at = to /\ worker'.job = None
BY DEF Idle, WorkerRow

LEMMA WorkerIsIdle ==
    ASSUME worker' = Idle
    PROVE  worker' \in WorkerRow /\ worker'.at = "idle" /\ worker'.job = None
BY DEF Idle, WorkerRow, Away

\* A transaction of the worker that leaves the pointer and the locks alone.
LEMMA WorkerStores ==
    ASSUME QueueInv, NEW j \in VinJobs, worker.job = j, worker.at \in Collecting,
           UNCHANGED <<pointer, public, locks, world, caller>>, Opens(j),
           NEW r \in Private, Stored(j, r), Rests(private[j]) => Rests(r),
           worker' \in WorkerRow, worker'.job = j, worker'.at \in Collecting,
           worker'.at \in {"working", "error"} => worker'.unit \in Units,
           JobOK(pointer[j], r, worker'.at, worker'.unit)
    PROVE  QueueInv'
<1>1. LocksOK'
  BY DEF QueueInv, LocksOK, locks, Collecting, Settling
<1>2. /\ private' \in [VinJobs -> Private \cup {Lost}] /\ private'[j] = r
      /\ \A k \in VinJobs \ {j} : private'[k] = private[k]
  BY StoredIn
<1>3. Place(j)' = worker'.at
  BY DEF Place
<1>4. \A c \in Callers : caller[c].at # "idle" /\ caller[c].job = j =>
          Waiting(caller[c], pointer'[j], private'[j])
  BY <1>2, Unlocked
<1>5. /\ startLock' = startLock /\ lock' = lock /\ pointer' = pointer /\ pointer[j] # "none"
      /\ UNCHANGED <<public, world, caller>>
  BY WorkerOf DEF locks, Statuses, Active
<1> QED
  BY <1>1, <1>2, <1>3, <1>4, <1>5, SameWorld, WorkerOf, WorkerFrame

\* What the worker holds, it releases at the end of the transaction.
LEMMA WorkerReleases ==
    ASSUME QueueInv, Release("worker"), caller' = caller, worker'.at \notin Settling
    PROVE  LocksOK' /\ startLock' \in Holders /\ lock' \in [VinJobs -> Holders]
<1>1. /\ startLock' \in Holders /\ lock' \in [VinJobs -> Holders]
      /\ \A c \in Callers : caller[c].at \in Starting => startLock' = c
      /\ \A c \in Callers : caller[c].at = "queued" /\ caller[c].job \in VinJobs =>
            lock'[caller[c].job] = c
  BY Released, QueueConstants DEF QueueInv, QueueTypeOK
<1>2. \A c \in Callers : caller[c].at = "queued" => caller[c].job \in VinJobs
  BY DEF QueueInv, QueueTypeOK, CallsOK
<1> QED
  BY <1>1, <1>2 DEF LocksOK

\* A step of the worker that only takes it elsewhere.
LEMMA WorkerLeaves ==
    ASSUME QueueInv, NEW j \in VinJobs, worker.job = j, worker.at \in Collecting \cup Ending,
           UNCHANGED <<databases, world, caller>>, worker' \in WorkerRow,
           UNCHANGED locks \/ (Release("worker") /\ worker'.at \notin Settling),
           \/ worker'.at \in Away /\ worker'.job = None
           \/ worker'.at \in {"failing", "unreconciled"} /\ worker'.job = j
           \/ worker'.at = "final" /\ worker.at \in Collecting /\ worker'.job = j
           \/ worker'.at = "reconciling" /\ worker.at = "marked" /\ worker'.job = j
           \/ worker'.at = "error" /\ worker.at = "working" /\ worker'.job = j
              /\ worker'.unit = worker.unit
    PROVE  QueueInv'
<1>1. LocksOK' /\ startLock' \in Holders /\ lock' \in [VinJobs -> Holders]
  <2>1. CASE UNCHANGED locks
    BY <2>1, WorkerOf DEF QueueInv, LocksOK, locks, Away, Settling
  <2>2. CASE Release("worker") /\ worker'.at \notin Settling
    BY <2>2, WorkerReleases
  <2> QED
    BY <2>1, <2>2
<1>2. /\ pointer' = pointer /\ pointer[j] # "none"
      /\ private' = private /\ UNCHANGED <<public, world, caller>>
  BY WorkerOf DEF databases, Statuses, Active
<1>3. /\ \/ Place(j)' \in {"away", "failing", "unreconciled"}
         \/ Place(j)' = "final" /\ worker.at \in Collecting
         \/ Place(j)' = "reconciling" /\ worker.at = "marked"
         \/ Place(j)' = "error" /\ worker.at = "working" /\ worker'.unit = worker.unit
  BY QueueConstants DEF Place
<1>4. Live(j)' => JobOK(pointer'[j], private'[j], Place(j)', worker'.unit)
  BY <1>2, <1>3, LiveJob, WorkerOf, MovesOK DEF Live
<1>5. \A c \in Callers : caller[c].at # "idle" /\ caller[c].job = j /\ Live(j)' =>
          Waiting(caller[c], pointer'[j], private'[j])
  BY <1>2, WorkerOf DEF Live
<1>6. /\ \/ worker'.at \in Away /\ worker'.job = None
         \/ worker'.at \in Collecting \cup Ending /\ worker'.job = j
      /\ worker'.at \in {"working", "error"} => worker'.unit \in Units
  BY WorkerOf DEF Away, Collecting, Ending, Settling
<1> QED
  BY <1>1, <1>2, <1>4, <1>5, <1>6, SameWorld, WorkerOf, WorkerFrame

LEMMA ResetStep ==
    ASSUME QueueInv, Reset
    PROVE  QueueInv'
<1>1. /\ worker.at = "claimed" /\ Opens(worker.job) /\ Goes("next")
      /\ UNCHANGED <<pointer, public, locks, world, caller>>
  BY DEF Reset
<1>2. worker.at \in Collecting /\ "next" \in Collecting
  BY <1>1 DEF Collecting
<1> PICK j \in VinJobs : j = worker.job
  BY <1>2, WorkerOf
<1>3. Live(j) /\ private[j] \in Private /\ JobOK(pointer[j], private[j], "claimed", worker.unit)
  BY <1>1, <1>2, LiveJob, WorkerOf DEF Opens
<1>4. (IF private[j].inflight THEN 0..private[j].left ELSE {private[j].left})
         \subseteq 0..private[j].left
  BY <1>3, QueueConstants DEF Private
<1>5. PICK n \in 0..private[j].left : Stored(j, AfterReset(private[j], n))
  BY <1>4 DEF Reset, AfterReset
<1>6. PICK r : r = AfterReset(private[j], n)
  OBVIOUS
<1>7. /\ r \in Private /\ JobOK(pointer[j], r, "next", worker.unit)
      /\ r.cancel = private[j].cancel /\ ~r.inflight
  BY <1>3, <1>6, ResetOK
<1>8. Stored(j, r) /\ (Rests(private[j]) => Rests(r))
  BY <1>5, <1>6, <1>7 DEF Rests
<1>9. /\ worker' \in WorkerRow /\ worker'.at = "next" /\ worker'.job = j
      /\ worker'.unit = worker.unit
  BY <1>1, <1>2, WorkerMoves
<1> QED
  BY <1>1, <1>2, <1>7, <1>8, <1>9, WorkerStores

LEMMA NextOperationStep ==
    ASSUME QueueInv, NextOperation
    PROVE  QueueInv'
<1>1. /\ worker.at = "next" /\ Opens(worker.job)
      /\ UNCHANGED <<pointer, public, locks, world, caller>>
  BY DEF NextOperation
<1>2. worker.at \in Collecting /\ "final" \in Collecting /\ "working" \in Collecting
  BY <1>1 DEF Collecting
<1> PICK j \in VinJobs : j = worker.job
  BY <1>2, WorkerOf
<1> DEFINE p == private[j]
<1>3. Live(j) /\ p \in Private /\ JobOK(pointer[j], p, "next", worker.unit)
  BY <1>1, <1>2, LiveJob, WorkerOf DEF Opens
<1>4. \/ \E status : /\ Stored(j, Finished(p, status)) /\ Goes("final")
                     /\ \/ status = "cancelled" /\ p.cancel
                        \/ status = "disabled"
                        \/ status = "completed" /\ ~p.cancel
                           /\ (p.left <= 1 \/ \A v \in Units : p.unit[v] # "pending")
      \/ \E u \in Units : /\ p.unit[u] = "pending" /\ Collects(p) /\ p.left > 1
                          /\ Stored(j, Begun(p, u))
                          /\ worker' = [worker EXCEPT !.at = "working", !.unit = u]
  BY DEF NextOperation, Collects
<1>5. CASE \E status : /\ Stored(j, Finished(p, status)) /\ Goes("final")
                       /\ \/ status = "cancelled" /\ p.cancel
                          \/ status = "disabled"
                          \/ status = "completed" /\ ~p.cancel
                             /\ (p.left <= 1 \/ \A v \in Units : p.unit[v] # "pending")
  <2>1. PICK status :
           /\ Stored(j, Finished(p, status)) /\ Goes("final")
           /\ \/ status = "cancelled" /\ p.cancel
              \/ status = "disabled"
              \/ status = "completed" /\ ~p.cancel
                 /\ (p.left <= 1 \/ \A v \in Units : p.unit[v] # "pending")
    BY <1>5
  <2>2. PICK r : r = Finished(p, status)
    OBVIOUS
  <2>3. r \in Private /\ JobOK(pointer[j], r, "final", worker.unit) /\ r.cancel = p.cancel
           /\ ~r.inflight
    BY <1>3, <2>1, <2>2, FinishedOK
  <2>4. Stored(j, r) /\ (Rests(p) => Rests(r))
    BY <2>1, <2>2, <2>3 DEF Rests
  <2>5. /\ worker' \in WorkerRow /\ worker'.at = "final" /\ worker'.job = j
        /\ worker'.unit = worker.unit
    BY <1>2, <2>1, WorkerMoves
  <2> QED
    BY <1>1, <1>2, <2>3, <2>4, <2>5, WorkerStores
<1>6. CASE \E u \in Units : /\ p.unit[u] = "pending" /\ Collects(p) /\ p.left > 1
                            /\ Stored(j, Begun(p, u))
                            /\ worker' = [worker EXCEPT !.at = "working", !.unit = u]
  <2>1. PICK u \in Units : /\ p.unit[u] = "pending" /\ Collects(p) /\ p.left > 1
                           /\ Stored(j, Begun(p, u))
                           /\ worker' = [worker EXCEPT !.at = "working", !.unit = u]
    BY <1>6
  <2>2. PICK r : r = Begun(p, u)
    OBVIOUS
  <2>3. r \in Private /\ JobOK(pointer[j], r, "working", u)
    BY <1>3, <2>1, <2>2, BegunOK
  <2>4. Stored(j, r) /\ (Rests(p) => Rests(r))
    BY <2>1, <2>2 DEF Rests, Collects
  <2>5. /\ worker' \in WorkerRow /\ worker'.at = "working" /\ worker'.job = j
        /\ worker'.unit = u
    BY <1>2, <2>1, WorkerGoes
  <2> QED
    BY <1>1, <1>2, <2>3, <2>4, <2>5, WorkerStores
<1> QED
  BY <1>4, <1>5, <1>6

LEMMA OperationEnds ==
    ASSUME QueueInv, Collect \/ OperationFailed
    PROVE  QueueInv'
<1>1. /\ worker.at \in {"working", "error"} /\ Opens(worker.job)
      /\ worker' = [worker EXCEPT !.at = "next", !.unit = None]
      /\ UNCHANGED <<pointer, public, locks, world, caller>>
  BY DEF Collect, OperationFailed
<1>2. worker.at \in Collecting /\ "next" \in Collecting
  BY <1>1 DEF Collecting
<1> PICK j \in VinJobs : j = worker.job
  BY <1>2, WorkerOf
<1> PICK u \in Units : u = worker.unit
  BY <1>1, <1>2, WorkerOf
<1> DEFINE p == private[j]
<1>3. Live(j) /\ p \in Private /\ JobOK(pointer[j], p, worker.at, u)
  BY <1>1, <1>2, LiveJob, WorkerOf DEF Opens
<1>4. PICK r : /\ Stored(j, r) /\ r \in Private /\ JobOK(pointer[j], r, "next", None)
               /\ r.cancel = p.cancel /\ ~r.inflight
  <2>1. CASE Collect
    <3>1. PICK a \in AfterOperation(private[worker.job]), out \in {"done", "failed"},
               found \in SUBSET {v \in Units : private[worker.job].unit[v] = "none"},
               final \in {private[worker.job].final, FALSE} :
             Stored(worker.job, [a EXCEPT !.final = final, !.unit =
                   [v \in Units |-> IF v = worker.unit THEN out
                                    ELSE IF v \in found THEN "pending" ELSE @[v]]])
      BY <2>1, Zenon DEF Collect
    <3>2. PICK w : w = [v \in Units |-> IF v = worker.unit THEN out
                                        ELSE IF v \in found THEN "pending" ELSE a.unit[v]]
      OBVIOUS
    <3>3. a.unit = p.unit
      BY <1>3, AfterOperationKeeps
    <3>4. /\ w \in Work /\ w[u] \in {"done", "failed"}
          /\ \A v \in Units \ {u} : w[v] = p.unit[v] \/ (p.unit[v] = "none" /\ w[v] = "pending")
      BY <1>3, <3>2, <3>3 DEF Private, Work, UnitStates
    <3>5. PICK r : r = [a EXCEPT !.final = final, !.unit = w]
      OBVIOUS
    <3>6. Stored(j, r)
      BY <3>1, <3>2, <3>5
    <3>7. r \in Private /\ JobOK(pointer[j], r, "next", None) /\ r.cancel = p.cancel /\ ~r.inflight
      <4>1. Outcome(p, w, r)
        BY <3>5, Zenon DEF Outcome
      <4> QED
        BY <1>1, <1>3, <3>4, <4>1, CollectedOK
    <3> QED
      BY <3>6, <3>7
  <2>2. CASE OperationFailed
    <3>1. PICK a \in AfterOperation(p) : Stored(j, [a EXCEPT !.unit[u] = "failed"])
      BY <2>2 DEF OperationFailed
    <3>2. PICK w : w = [p.unit EXCEPT ![u] = "failed"]
      OBVIOUS
    <3>3. a.unit = p.unit /\ a.final = p.final /\ a = [a EXCEPT !.final = p.final]
      BY <1>3, AfterOperationKeeps
    <3>4. /\ w \in Work /\ w[u] \in {"done", "failed"}
          /\ \A v \in Units \ {u} : w[v] = p.unit[v] \/ (p.unit[v] = "none" /\ w[v] = "pending")
      BY <1>3, <3>2 DEF Private, Work, UnitStates
    <3>5. PICK r : r = [a EXCEPT !.final = p.final, !.unit = w]
      OBVIOUS
    <3>6. Stored(j, r)
      BY <3>1, <3>2, <3>3, <3>5
    <3>7. r \in Private /\ JobOK(pointer[j], r, "next", None) /\ r.cancel = p.cancel /\ ~r.inflight
      <4>1. Outcome(p, w, r)
        BY <3>5, Zenon DEF Outcome
      <4> QED
        BY <1>1, <1>3, <3>4, <4>1, CollectedOK
    <3> QED
      BY <3>6, <3>7
  <2> QED
    BY <2>1, <2>2
<1>5. Rests(p) => Rests(r)
  BY <1>4 DEF Rests
<1>6. /\ worker' \in WorkerRow /\ worker'.at = "next" /\ worker'.job = j /\ worker'.unit = None
  BY <1>1, <1>2, WorkerGoes
<1> QED
  BY <1>1, <1>2, <1>4, <1>5, <1>6, WorkerStores

LEMMA GivesUpStep ==
    ASSUME QueueInv, StopCollecting \/ CollectError \/ TransactionFails
    PROVE  QueueInv'
<1>1. /\ worker.at \in Collecting /\ UNCHANGED <<databases, locks, world, caller>>
      /\ \/ Goes("final") \/ Goes("failing")
         \/ Goes("error") /\ worker.at = "working"
  BY DEF StopCollecting, CollectError, TransactionFails, Collecting
<1>2. {"final", "failing", "error"} \subseteq Collecting \cup Ending
  BY DEF Collecting, Ending
<1>3. /\ worker' \in WorkerRow /\ worker'.job = worker.job /\ worker'.unit = worker.unit
      /\ worker'.at \in {"final", "failing"} \/ (worker'.at = "error" /\ worker.at = "working")
  BY <1>1, <1>2, WorkerMoves
<1>4. worker.job \in VinJobs
  BY <1>1, WorkerOf
<1> QED
  BY <1>1, <1>3, <1>4, WorkerLeaves

\* Under the lock of the private state, the pointer is told its status.
LEMMA PublishStep ==
    ASSUME QueueInv, Publish
    PROVE  QueueInv'
<1>1. /\ worker.at = "final" /\ Opens(worker.job) /\ Goes("published")
      /\ pointer' = [pointer EXCEPT ![worker.job] = Told(private[worker.job])]
      /\ lock' = [lock EXCEPT ![worker.job] = "worker"]
      /\ UNCHANGED <<public, private, startLock, world, caller>>
  BY DEF Publish
<1>2. worker.at \in Collecting /\ "published" \in Ending
  BY <1>1 DEF Collecting, Ending
<1> PICK j \in VinJobs : j = worker.job
  BY <1>2, WorkerOf
<1> DEFINE p == private[j]
<1>3. Live(j) /\ p \in Private /\ JobOK(pointer[j], p, "final", worker.unit)
  BY <1>1, <1>2, LiveJob, WorkerOf DEF Opens
<1> PICK q : q = Told(p)
  OBVIOUS
<1>4. q \in Statuses /\ (q \in Active => pointer[j] \in Active)
  BY <1>3 DEF Told, Requeued, Private, PrivateStatuses, Statuses, JobOK, Collected, Scheduled,
     Collecting, Active
<1>5. JobOK(q, p, "published", worker.unit)
  BY <1>3, PublishedOK
<1>6. /\ worker' \in WorkerRow /\ worker'.at = "published" /\ worker'.job = j
      /\ worker'.unit = worker.unit
  BY <1>1, <1>2, WorkerMoves
<1>7. /\ pointer' \in [Jobs -> Statuses \cup {"none"}] /\ pointer'[j] = q /\ q # "none"
      /\ \A k \in Jobs \ {j} : pointer'[k] = pointer[k]
      /\ startLock' = startLock /\ startLock \in Holders /\ lock' \in [VinJobs -> Holders]
  BY <1>1, <1>2, <1>4, WorkerOf DEF Statuses, Active, Holders
<1>8. LocksOK'
  <2>1. \A c \in Callers : caller[c].at = "queued" => caller[c].job # j
    BY <1>1, QueueConstants DEF QueueInv, LocksOK, Opens
  <2>2. \A c \in Callers : caller[c].at = "queued" => caller[c].job \in VinJobs
    BY DEF QueueInv, QueueTypeOK, CallsOK
  <2> QED
    BY <1>1, <1>6, <2>1, <2>2 DEF QueueInv, QueueTypeOK, TablesOK, LocksOK, Settling
<1>9. \A c \in Callers : caller[c].at # "idle" /\ caller[c].job = j => Waiting(caller[c], q, p)
  BY <1>1, <1>4, Unlocked
<1>10. Place(j)' = "published" /\ private' = private /\ UNCHANGED <<public, world, caller>>
  BY <1>1, <1>6 DEF Place
<1> QED
  BY <1>2, <1>4, <1>5, <1>6, <1>7, <1>8, <1>9, <1>10, SameWorld, WorkerOf, WorkerFrame DEF Live

\* What was told becomes the private status, or the worker fails.
LEMMA CommitPublishStep ==
    ASSUME QueueInv, CommitPublish
    PROVE  QueueInv'
<1>1. /\ worker.at = "published" /\ worker.at \in Collecting \cup Ending /\ Release("worker")
      /\ UNCHANGED <<pointer, public, world, caller>>
  BY DEF CommitPublish, Ending
<1> PICK j \in VinJobs : j = worker.job
  BY <1>1, WorkerOf
<1> PICK r : r = [private[j] EXCEPT !.status = Requeued(private[j])]
  OBVIOUS
<1>2. \/ Live(j) /\ Stored(j, r) /\ worker' = Idle
      \/ Goes("failing") /\ private' = private
  BY DEF CommitPublish
<1>3. /\ worker' \in WorkerRow
      /\ \/ worker'.at \in Away /\ worker'.job = None
         \/ worker'.at = "failing" /\ worker'.job = j
  <2>1. "failing" \in Ending /\ "idle" \in Away
    BY DEF Ending, Away
  <2> QED
    BY <1>1, <1>2, <2>1, WorkerMoves, WorkerIsIdle
<1>4. LocksOK' /\ startLock' \in Holders /\ lock' \in [VinJobs -> Holders]
  BY <1>1, <1>3, WorkerReleases DEF Away, Settling
<1>5. /\ worker'.at \in Away \cup {"failing"} /\ Place(j)' \in {"away", "failing"}
      /\ worker'.at \notin {"working", "error"}
      /\ \/ worker'.at \in Away /\ worker'.job = None
         \/ worker'.at \in Collecting \cup Ending /\ worker'.job = j
  BY <1>3, QueueConstants DEF Place, Away, Ending
<1>6. pointer' = pointer /\ pointer[j] # "none" /\ UNCHANGED <<public, world, caller>>
  BY <1>1, WorkerOf DEF Statuses, Active
<1>7. CASE private' = private
  <2>1. Live(j)' => JobOK(pointer[j], private'[j], Place(j)', worker'.unit)
    BY <1>5, <1>7, LiveJob, MovesOK DEF Live
  <2>2. \A c \in Callers : caller[c].at # "idle" /\ caller[c].job = j /\ Live(j)' =>
            Waiting(caller[c], pointer[j], private'[j])
    BY <1>1, <1>7, WorkerOf DEF Live
  <2> QED
    BY <1>1, <1>3, <1>4, <1>5, <1>6, <1>7, <2>1, <2>2, SameWorld, WorkerOf, WorkerFrame
<1>8. CASE Live(j) /\ Stored(j, r) /\ worker' = Idle
  <2>1. JobOK(pointer[j], private[j], "published", worker.unit) /\ private[j] \in Private
    BY <1>1, <1>8, LiveJob, WorkerOf
  <2>2. r \in Private /\ JobOK(pointer[j], r, "away", None) /\ Rests(r) = Rests(private[j])
    BY <2>1, ToldOK
  <2>3. r.cancel = private[j].cancel /\ r.unit = private[j].unit
        /\ (r.status = "failed" => private[j].status = "failed")
    BY <2>1, <2>2 DEF Private, Requeued
  <2>4. /\ private' \in [VinJobs -> Private \cup {Lost}] /\ private'[j] = r
        /\ \A k \in VinJobs \ {j} : private'[k] = private[k]
    BY <1>8, <2>2, StoredIn
  <2>5. JobOK(pointer[j], r, Place(j)', worker'.unit)
    <3>1. Place(j)' = "away"
      BY <1>8, QueueConstants DEF Place, Idle
    <3> QED
      BY <2>2, <3>1, MovesOK
  <2>6. \A c \in Callers : caller[c].at # "idle" /\ caller[c].job = j =>
           Waiting(caller[c], pointer[j], r)
    BY <1>1, <1>8, <2>2, <2>3, WorkerOf DEF Waiting
  <2> QED
    BY <1>1, <1>3, <1>4, <1>5, <1>6, <2>4, <2>5, <2>6, SameWorld, WorkerOf, WorkerFrame
<1> QED
  BY <1>2, <1>7, <1>8

\* The pointer of the worker's job says "failed"; calls that wait have seen no less.
LEMMA FailedCalls ==
    ASSUME QueueInv, NEW j \in VinJobs, Live(j), NEW c \in Callers, caller[c].at # "idle",
           caller[c].job = j
    PROVE  Waiting(caller[c], "failed", private[j])
BY DEF QueueInv, WaitersOK, Waiting, Active

LEMMA MarkFailedStep ==
    ASSUME QueueInv, MarkFailed \/ MarkAgain
    PROVE  QueueInv'
<1>1. /\ worker.at \in {"failing", "unreconciled"} /\ worker.at \in Ending
      /\ pointer' = [pointer EXCEPT ![worker.job] = "failed"]
      /\ UNCHANGED <<public, private, world, caller>>
  BY DEF MarkFailed, MarkAgain, Ending
<1> PICK j \in VinJobs : j = worker.job
  BY <1>1, WorkerOf
<1>2. /\ pointer' \in [Jobs -> Statuses \cup {"none"}] /\ pointer'[j] = "failed"
      /\ \A k \in Jobs \ {j} : pointer'[k] = pointer[k]
      /\ "failed" \notin Active
  BY <1>1, WorkerOf DEF Statuses, Active
<1>3. /\ LocksOK' /\ startLock' \in Holders /\ lock' \in [VinJobs -> Holders]
      /\ worker' \in WorkerRow /\ worker'.at \notin {"working", "error"}
      /\ \/ worker'.at \in Away /\ worker'.job = None
         \/ worker'.at \in Collecting \cup Ending /\ worker'.job = j
      /\ Place(j)' \in {"marked", "away"}
  <2>1. CASE MarkFailed
    <3>1. /\ startLock = None /\ startLock' = "worker" /\ lock' = lock /\ Goes("marked")
      BY <2>1 DEF MarkFailed
    <3>2. worker' \in WorkerRow /\ worker'.at = "marked" /\ worker'.job = j /\ "marked" \in Ending
      BY <1>1, <3>1, WorkerMoves DEF Ending, Settling
    <3>3. LocksOK'
      BY <1>1, <3>1, <3>2, QueueConstants DEF QueueInv, LocksOK
    <3> QED
      BY <1>1, <3>1, <3>2, <3>3, WorkerOf DEF Place, Holders
  <2>2. CASE MarkAgain
    <3>1. worker' = Idle /\ UNCHANGED locks
      BY <2>2 DEF MarkAgain
    <3>2. worker' \in WorkerRow /\ worker'.at = "idle" /\ worker'.job = None
      BY <3>1, WorkerIsIdle
    <3>3. LocksOK'
      BY <1>1, <3>1, <3>2 DEF QueueInv, LocksOK, Settling, locks
    <3> QED
      BY <1>1, <3>1, <3>2, <3>3, WorkerOf, QueueConstants DEF Place, Away, locks
  <2> QED
    BY <1>1, <2>1, <2>2
<1>4. Live(j)' => JobOK("failed", private'[j], Place(j)', worker'.unit)
  BY <1>1, <1>3, LiveJob, WorkerOf, FailedOK DEF Live
<1>5. \A c \in Callers : caller[c].at # "idle" /\ caller[c].job = j /\ Live(j)' =>
          Waiting(caller[c], "failed", private'[j])
  BY <1>1, FailedCalls DEF Live
<1>6. UNCHANGED <<public, world, caller>> /\ private' = private
  BY <1>1
<1> QED
  BY <1>1, <1>2, <1>3, <1>4, <1>5, <1>6, SameWorld, WorkerOf, WorkerFrame

\* An error nobody expects fails a pointer that still says "running", and nothing else.
LEMMA WorkerFailsStep ==
    ASSUME QueueInv, WorkerFails
    PROVE  QueueInv'
<1>1. /\ worker.at \in Collecting /\ worker' = Idle /\ troubles' = troubles + 1
      /\ pointer' = [pointer EXCEPT ![worker.job] = IF @ = "running" THEN "failed" ELSE @]
      /\ UNCHANGED <<public, private, locks, full, stop, caller>>
  BY DEF WorkerFails, Collecting
<1> PICK j \in VinJobs : j = worker.job
  BY <1>1, WorkerOf
<1> PICK q \in Statuses : /\ pointer' = [pointer EXCEPT ![j] = q]
                          /\ q = pointer[j] \/ q = "failed"
  BY <1>1, WorkerOf DEF Statuses
<1>2. /\ pointer' \in [Jobs -> Statuses \cup {"none"}] /\ pointer'[j] = q /\ q # "none"
      /\ \A k \in Jobs \ {j} : pointer'[k] = pointer[k]
      /\ q \in Active => pointer[j] \in Active
  BY <1>1, WorkerOf DEF Statuses, Active
<1>3. /\ worker' \in WorkerRow /\ worker'.at = "idle" /\ worker'.job = None
      /\ worker'.at \in Away /\ Place(j)' = "away"
  BY <1>1, WorkerIsIdle, QueueConstants DEF Away, Place
<1>4. LocksOK'
  BY <1>1, <1>3 DEF QueueInv, LocksOK, Settling, locks
<1>5. Live(j)' => JobOK(q, private'[j], Place(j)', worker'.unit)
  <2> SUFFICES ASSUME Live(j)
               PROVE  JobOK(q, private[j], "away", worker'.unit)
    BY <1>1, <1>3 DEF Live
  <2>1. private[j] \in Private /\ JobOK(pointer[j], private[j], Place(j), worker.unit)
    BY LiveJob
  <2>2. JobOK(pointer[j], private[j], "away", worker'.unit)
    BY <2>1, MovesOK
  <2>3. JobOK(pointer[j], private[j], "failing", worker'.unit)
    BY <2>1, MovesOK
  <2>4. JobOK("failed", private[j], "away", worker'.unit)
    BY <2>1, <2>3, FailedOK
  <2> QED
    BY <2>2, <2>4
<1>6. \A c \in Callers : caller[c].at # "idle" /\ caller[c].job = j /\ Live(j)' =>
          Waiting(caller[c], q, private'[j])
  BY <1>1, FailedCalls, WorkerOf DEF Live
<1>7. /\ UNCHANGED <<public, caller>> /\ private' = private
      /\ startLock' \in Holders /\ lock' \in [VinJobs -> Holders]
  BY <1>1, WorkerOf DEF locks
<1>8. full' \in BOOLEAN /\ stop' \in BOOLEAN /\ troubles' \in Nat
  BY <1>1 DEF QueueInv, QueueTypeOK, TablesOK
<1> QED
  BY <1>1, <1>2, <1>3, <1>4, <1>5, <1>6, <1>7, <1>8, WorkerOf, WorkerFrame

\* start.lock is kept while there is something to settle.
LEMMA LooksStep ==
    ASSUME QueueInv, Reconcile
    PROVE  QueueInv'
<1>1. /\ worker.at = "marked" /\ worker.at \in Collecting \cup Ending
      /\ UNCHANGED <<databases, world, caller>>
      /\ \/ worker' = Idle /\ Release("worker")
         \/ Goes("reconciling") /\ UNCHANGED locks
         \/ Goes("unreconciled") /\ Release("worker")
  BY DEF Reconcile, Ending, Settling
<1> PICK j \in VinJobs : j = worker.job
  BY <1>1, WorkerOf
<1>2. {"reconciling", "unreconciled"} \subseteq Ending /\ "idle" \in Away
  BY DEF Ending, Settling, Away
<1>3. /\ worker' \in WorkerRow
      /\ \/ worker'.at \in Away /\ worker'.job = None /\ Release("worker")
         \/ worker'.at = "reconciling" /\ worker'.job = j /\ UNCHANGED locks
         \/ worker'.at = "unreconciled" /\ worker'.job = j /\ Release("worker")
  BY <1>1, <1>2, WorkerMoves, WorkerIsIdle
<1> QED
  BY <1>1, <1>3, WorkerLeaves DEF Away, Settling

\* The private state of a job marked failed follows, unless it is lost or full.
LEMMA ReconcileStep ==
    ASSUME QueueInv, ReconcileCommits
    PROVE  QueueInv'
<1>1. /\ worker.at = "reconciling" /\ worker.at \in Collecting \cup Ending /\ Release("worker")
      /\ UNCHANGED <<pointer, public, world, caller>>
  BY DEF ReconcileCommits, Ending, Settling
<1> PICK j \in VinJobs : j = worker.job
  BY <1>1, WorkerOf
<1>2. /\ \/ private' = private
         \/ Opens(j) /\ \E r \in Reconciled(private[j]) : Stored(j, r)
      /\ worker' = Idle \/ Goes("unreconciled")
  BY DEF ReconcileCommits
<1>3. /\ worker' \in WorkerRow
      /\ \/ worker'.at \in Away /\ worker'.job = None
         \/ worker'.at = "unreconciled" /\ worker'.job = j
  <2>1. "unreconciled" \in Ending /\ "idle" \in Away
    BY DEF Ending, Away
  <2> QED
    BY <1>1, <1>2, <2>1, WorkerMoves, WorkerIsIdle
<1>4. LocksOK' /\ startLock' \in Holders /\ lock' \in [VinJobs -> Holders]
  BY <1>1, <1>3, WorkerReleases DEF Away, Settling
<1>5. /\ Place(j)' \in {"away", "unreconciled"} /\ worker'.at \notin {"working", "error"}
      /\ \/ worker'.at \in Away /\ worker'.job = None
         \/ worker'.at \in Collecting \cup Ending /\ worker'.job = j
  BY <1>3, QueueConstants DEF Place, Away, Ending
<1>6. pointer' = pointer /\ pointer[j] # "none" /\ UNCHANGED <<public, world, caller>>
  BY <1>1, WorkerOf DEF Statuses, Active
<1>7. CASE private' = private
  <2>1. Live(j)' => JobOK(pointer[j], private'[j], Place(j)', worker'.unit)
    BY <1>5, <1>7, LiveJob, MovesOK DEF Live
  <2>2. \A c \in Callers : caller[c].at # "idle" /\ caller[c].job = j /\ Live(j)' =>
            Waiting(caller[c], pointer[j], private'[j])
    BY <1>1, <1>7, WorkerOf DEF Live
  <2> QED
    BY <1>1, <1>3, <1>4, <1>5, <1>6, <1>7, <2>1, <2>2, SameWorld, WorkerOf, WorkerFrame
<1>8. CASE Opens(j) /\ \E r \in Reconciled(private[j]) : Stored(j, r)
  <2> PICK r \in Reconciled(private[j]) : Stored(j, r)
    BY <1>8
  <2>1. /\ Live(j) /\ private[j] \in Private
        /\ JobOK(pointer[j], private[j], "reconciling", worker.unit)
    BY <1>1, <1>8, LiveJob, WorkerOf DEF Opens
  <2>2. pointer[j] \notin Active
    BY <2>1 DEF JobOK, Collected, Settling
  <2>3. /\ r \in Private /\ JobOK(pointer[j], r, "reconciling", worker.unit)
        /\ r.cancel = private[j].cancel /\ ~r.inflight
    BY <2>1, <2>2, ReconciledOK
  <2>4. /\ private' \in [VinJobs -> Private \cup {Lost}] /\ private'[j] = r
        /\ \A k \in VinJobs \ {j} : private'[k] = private[k]
    BY <2>3, StoredIn
  <2>5. JobOK(pointer[j], r, Place(j)', worker'.unit)
    BY <1>5, <2>3, MovesOK
  <2>6. Rests(private[j]) => Rests(r)
    BY <2>3 DEF Rests
  <2>7. \A c \in Callers : caller[c].at # "idle" /\ caller[c].job = j =>
           Waiting(caller[c], pointer[j], r)
    BY <1>8, <2>6, Unlocked
  <2> QED
    BY <1>1, <1>3, <1>4, <1>5, <1>6, <2>4, <2>5, <2>7, SameWorld, WorkerOf, WorkerFrame
<1> QED
  BY <1>2, <1>7, <1>8

\* A worker that is nowhere, and comes or goes.
LEMMA IdleFrame ==
    ASSUME QueueInv, UNCHANGED <<private, caller>>, troubles' \in Nat,
           stop' \in BOOLEAN, full' \in BOOLEAN,
           public' \in [PublicJobs -> Work], pointer' \in [Jobs -> Statuses \cup {"none"}],
           \A k \in Jobs : \/ pointer'[k] = pointer[k]
                           \/ pointer[k] = "running" /\ pointer'[k] = "queued"
                              /\ worker.at \in Away,
           worker' = worker \/ (worker' \in WorkerRow /\ worker'.at \in Away /\ worker'.job = None),
           LocksOK', startLock' \in Holders, lock' \in [VinJobs -> Holders]
    PROVE  QueueInv'
<1>1. TablesOK'
  BY DEF QueueInv, QueueTypeOK, TablesOK
<1>2. \A k \in Jobs : pointer[k] # "none" => pointer'[k] # "none"
  OBVIOUS
<1>3. WorkerOK'
  <2>1. \A k \in Jobs : pointer[k] # "none" => pointer'[k] # "none"
    BY <1>2
  <2>2. worker \in WorkerRow /\ WorkerOK
    BY DEF QueueInv, QueueTypeOK, WorkerOK
  <2>3. worker.at \notin Away => worker.job \in Jobs
    BY <2>2 DEF WorkerOK, WorkerRow, OnPublic, Away, Collecting, Ending, Settling, Jobs
  <2>4. CASE worker' = worker
    BY <2>1, <2>2, <2>3, <2>4 DEF WorkerOK
  <2>5. CASE worker' \in WorkerRow /\ worker'.at \in Away /\ worker'.job = None
    BY <2>5 DEF WorkerOK, OnPublic, Away, Collecting, Ending, Settling
  <2> QED
    BY <2>4, <2>5
<1>4. CallsOK'
  BY <1>2 DEF QueueInv, QueueTypeOK, CallsOK, Jobs
<1>5. OneActive'
  <2>1. \A k \in Jobs : pointer'[k] \in Active => pointer[k] \in Active
    BY DEF Active
  <2> QED
    BY <2>1, NoneMoreActive DEF QueueInv
<1>6. JobsOK'
  <2> SUFFICES ASSUME NEW k \in VinJobs, Live(k)'
               PROVE  JobOK(pointer'[k], private'[k], Place(k)', worker'.unit)
    BY DEF JobsOK
  <2>1. /\ private[k] \in Private /\ private'[k] = private[k] /\ k \in Jobs
        /\ JobOK(pointer[k], private[k], Place(k), worker.unit)
    BY LiveJob DEF Live, Jobs
  <2>2. JobOK(pointer[k], private[k], Place(k)', worker'.unit)
    <3>1. CASE worker' = worker
      BY <2>1, <3>1 DEF Place
    <3>2. CASE worker'.job = None
      BY <2>1, <3>2, MovesOK, QueueConstants DEF Place
    <3> QED
      BY <3>1, <3>2
  <2>3. CASE pointer'[k] = pointer[k]
    BY <2>1, <2>2, <2>3
  <2>4. CASE pointer[k] = "running" /\ pointer'[k] = "queued" /\ worker.at \in Away
    <3>1. Place(k) = "away" /\ Place(k)' = "away"
      BY <2>4, QueueConstants DEF QueueInv, QueueTypeOK, WorkerOK, Place
    <3>2. pointer[k] \in Active /\ pointer'[k] \in Active
      BY <2>4 DEF Active
    <3>3. JobOK(pointer[k], private[k], "away", worker.unit)
      BY <2>1, <3>1
    <3>4. JobOK(pointer'[k], private[k], "away", worker'.unit)
      BY <2>1, <3>2, <3>3, ClaimedOK
    <3> QED
      BY <2>1, <3>1, <3>4
  <2> QED
    BY <2>1, <2>3, <2>4
<1>7. WaitersOK'
  <2>1. \A c \in Callers : caller[c].at # "idle" => caller[c].job \in VinJobs /\ caller[c].job \in Jobs
    BY DEF QueueInv, QueueTypeOK, CallsOK, Jobs
  <2> QED
    BY <2>1 DEF QueueInv, WaitersOK, Waiting, Live, Active
<1> QED
  BY <1>1, <1>3, <1>4, <1>5, <1>6, <1>7 DEF QueueInv, QueueTypeOK

LEMMA BootStep ==
    ASSUME QueueInv, Boot
    PROVE  QueueInv'
<1>1. /\ worker.at = "down" /\ worker' = Idle /\ stop' = FALSE
      /\ UNCHANGED <<private, locks, full, caller, troubles>>
      /\ pointer' = [j \in Jobs |-> IF pointer[j] = "running" THEN "queued" ELSE pointer[j]]
      /\ public' = [j \in PublicJobs |-> [u \in Units |->
                       IF public[j][u] = "running" THEN "pending" ELSE public[j][u]]]
  BY DEF Boot
<1>2. public' \in [PublicJobs -> Work]
  <2>1. \A j \in PublicJobs, u \in Units : public[j][u] \in UnitStates
    BY DEF QueueInv, QueueTypeOK, TablesOK, Work
  <2> QED
    BY <1>1, <2>1 DEF Work, UnitStates
<1>3. /\ pointer' \in [Jobs -> Statuses \cup {"none"}]
      /\ \A k \in Jobs : \/ pointer'[k] = pointer[k]
                         \/ pointer[k] = "running" /\ pointer'[k] = "queued" /\ worker.at \in Away
  BY <1>1 DEF QueueInv, QueueTypeOK, TablesOK, Statuses, Active, Away
<1>4. /\ worker' \in WorkerRow /\ worker'.at \in Away /\ worker'.job = None
      /\ worker'.at \notin Settling
  BY <1>1, WorkerIsIdle DEF Away, Settling
<1>5. LocksOK' /\ startLock' \in Holders /\ lock' \in [VinJobs -> Holders]
  BY <1>1, <1>4 DEF QueueInv, QueueTypeOK, TablesOK, LocksOK, locks
<1>6. troubles' \in Nat /\ stop' \in BOOLEAN /\ full' \in BOOLEAN
  BY <1>1 DEF QueueInv, QueueTypeOK, TablesOK
<1> QED
  BY <1>1, <1>2, <1>3, <1>4, <1>5, <1>6, IdleFrame

\* Crashes, signals, the store: nothing of the databases changes.
LEMMA SurroundingsStep ==
    ASSUME QueueInv, Exit \/ Crash \/ Sigterm \/ FillsUp \/ Frees
    PROVE  QueueInv'
<1>1. UNCHANGED <<pointer, public, private, caller>>
  BY DEF Exit, Crash, Sigterm, FillsUp, Frees, databases
<1>2. troubles' \in Nat /\ stop' \in BOOLEAN /\ full' \in BOOLEAN
  <2>1. troubles \in Nat /\ stop \in BOOLEAN /\ full \in BOOLEAN
    BY DEF QueueInv, QueueTypeOK, TablesOK
  <2>2. /\ troubles' = troubles \/ troubles' = troubles + 1
        /\ stop' = stop \/ stop' = TRUE
        /\ full' = full \/ full' = TRUE \/ full' = FALSE
    BY DEF Exit, Crash, Sigterm, FillsUp, Frees, world
  <2>3. troubles' \in Nat
    BY <2>1, <2>2
  <2>4. stop' \in BOOLEAN /\ full' \in BOOLEAN
    BY <2>1, <2>2, Zenon
  <2> QED
    BY <2>3, <2>4
<1>3. \/ worker' = worker /\ UNCHANGED locks
      \/ worker' = [Idle EXCEPT !.at = "down"] /\ (UNCHANGED locks \/ Release("worker"))
  BY DEF Exit, Crash, Sigterm, FillsUp, Frees
<1>4. worker' = worker \/ (worker' \in WorkerRow /\ worker'.at \in Away /\ worker'.job = None)
  BY <1>3, WorkerRests DEF Away
<1>5. LocksOK' /\ startLock' \in Holders /\ lock' \in [VinJobs -> Holders]
  <2>1. CASE UNCHANGED locks
    <3>1. worker'.at \in Settling => worker.at \in Settling
      BY <1>4 DEF Away, Settling
    <3> QED
      BY <1>1, <2>1, <3>1 DEF QueueInv, QueueTypeOK, TablesOK, LocksOK, locks
  <2>2. CASE Release("worker") /\ worker' = [Idle EXCEPT !.at = "down"]
    BY <1>1, <2>2, WorkerReleases, WorkerRests DEF Away, Settling
  <2> QED
    BY <1>3, <2>1, <2>2
<1>6. pointer' \in [Jobs -> Statuses \cup {"none"}] /\ public' \in [PublicJobs -> Work]
  BY <1>1 DEF QueueInv, QueueTypeOK, TablesOK
<1> QED
  BY <1>1, <1>2, <1>4, <1>5, <1>6, IdleFrame

LEMMA ClaimStep ==
    ASSUME QueueInv, NEW j \in Jobs, Claim(j)
    PROVE  QueueInv'
<1>1. /\ worker.at = "idle" /\ pointer[j] = "queued" /\ pointer' = [pointer EXCEPT ![j] = "running"]
      /\ worker' = [Idle EXCEPT !.job = j, !.at = IF j \in VinJobs THEN "claimed" ELSE "public"]
      /\ UNCHANGED <<public, private, locks, world, caller>>
  BY DEF Claim
<1>2. /\ worker' \in WorkerRow /\ worker'.job = j
      /\ worker'.at = IF j \in VinJobs THEN "claimed" ELSE "public"
      /\ worker.job = None
  BY <1>1 DEF Idle, WorkerRow, OnPublic, Collecting, QueueInv, QueueTypeOK, WorkerOK, Away
<1>3. /\ pointer' \in [Jobs -> Statuses \cup {"none"}] /\ pointer'[j] = "running"
      /\ \A k \in Jobs \ {j} : pointer'[k] = pointer[k]
  BY <1>1 DEF QueueInv, QueueTypeOK, TablesOK, Statuses, Active
<1>4. QueueTypeOK'
  <2>1. TablesOK'
    BY <1>1, <1>3 DEF QueueInv, QueueTypeOK, TablesOK, locks, world
  <2>2. WorkerOK'
    BY <1>2, <1>3 DEF WorkerOK, OnPublic, Away, Collecting, Ending, Settling, Jobs
  <2>3. CallsOK'
    BY <1>1, <1>3 DEF QueueInv, QueueTypeOK, CallsOK, Jobs
  <2> QED
    BY <2>1, <2>2, <2>3 DEF QueueTypeOK
<1>5. OneActive'
  <2>1. \A k \in Jobs : pointer'[k] \in Active => pointer[k] \in Active
    BY <1>1, <1>3 DEF Active
  <2> QED
    BY <2>1, NoneMoreActive DEF QueueInv
<1>6. JobsOK'
  <2> SUFFICES ASSUME NEW k \in VinJobs, Live(k)'
               PROVE  JobOK(pointer'[k], private'[k], Place(k)', worker'.unit)
    BY DEF JobsOK
  <2>1. /\ private[k] \in Private /\ private'[k] = private[k] /\ k \in Jobs /\ Place(k) = "away"
        /\ JobOK(pointer[k], private[k], "away", worker.unit)
    BY <1>1, <1>2, LiveJob, QueueConstants DEF Live, Jobs, Place
  <2>2. CASE k = j
    <3>1. Place(k)' = "claimed"
      BY <1>2, <2>2 DEF Place
    <3>2. pointer[k] \in Active /\ pointer'[k] \in Active
      BY <1>1, <1>3, <2>2 DEF Active
    <3> QED
      BY <2>1, <3>1, <3>2, ClaimedOK
  <2>3. CASE k # j
    <3>1. Place(k)' = "away" /\ pointer'[k] = pointer[k]
      BY <1>2, <1>3, <2>1, <2>3 DEF Place
    <3> QED
      BY <2>1, <3>1, MovesOK
  <2> QED
    BY <2>2, <2>3
<1>7. WaitersOK' /\ LocksOK'
  <2>1. \A c \in Callers : caller[c].at # "idle" => caller[c].job \in VinJobs /\ caller[c].job \in Jobs
    BY DEF QueueInv, QueueTypeOK, CallsOK, Jobs
  <2>2. worker'.at \notin Settling
    BY <1>2 DEF Settling
  <2> QED
    BY <1>1, <1>3, <2>1, <2>2 DEF QueueInv, WaitersOK, Waiting, LocksOK, Live, Active, locks
<1> QED
  BY <1>4, <1>5, <1>6, <1>7 DEF QueueInv

\* Private state that is gone owes nothing, and its pointer may say so.
LEMMA LossStep ==
    ASSUME QueueInv, NEW j \in VinJobs, Lose(j) \/ Prune(j)
    PROVE  QueueInv'
<1>1. /\ ~Live(j)' /\ UNCHANGED <<public, locks, full, stop, worker, caller>> /\ troubles' \in Nat
      /\ private' \in [VinJobs -> Private \cup {Lost}]
      /\ \A k \in VinJobs \ {j} : private'[k] = private[k]
  BY DEF Lose, Prune, Live, world, QueueInv, QueueTypeOK, TablesOK
<1>2. /\ pointer' \in [Jobs -> Statuses \cup {"none"}]
      /\ \A k \in Jobs \ {j} : pointer'[k] = pointer[k]
      /\ pointer'[j] = pointer[j] \/ pointer'[j] = "failed"
  BY DEF Lose, Prune, QueueInv, QueueTypeOK, TablesOK, Statuses, Active, Jobs
<1>3. j \in Jobs /\ \A k \in Jobs : pointer[k] # "none" => pointer'[k] # "none"
  BY <1>2 DEF Jobs
<1>4. QueueTypeOK'
  <2>1. TablesOK'
    BY <1>1, <1>2 DEF QueueInv, QueueTypeOK, TablesOK, locks
  <2>2. WorkerOK'
    BY <1>1, <1>3 DEF QueueInv, QueueTypeOK, WorkerOK, Jobs, OnPublic, Away, Collecting, Ending,
       WorkerRow
  <2>3. CallsOK'
    BY <1>1, <1>3 DEF QueueInv, QueueTypeOK, CallsOK, Jobs
  <2> QED
    BY <2>1, <2>2, <2>3 DEF QueueTypeOK
<1>5. OneActive'
  <2>1. \A k \in Jobs : pointer'[k] \in Active => pointer[k] \in Active
    BY <1>2, <1>3 DEF Active
  <2> QED
    BY <2>1, NoneMoreActive DEF QueueInv
<1>6. \A k \in VinJobs \ {j} : pointer'[k] = pointer[k] /\ private'[k] = private[k]
  BY <1>1, <1>2 DEF Jobs
<1>7. JobsOK'
  BY <1>1, <1>6, OneJob DEF QueueInv
<1>8. WaitersOK' /\ LocksOK'
  <2>1. WaitersOK'
    BY <1>1, <1>6, OtherCalls DEF QueueInv, QueueTypeOK, CallsOK
  <2>2. LocksOK'
    BY <1>1 DEF QueueInv, LocksOK, locks
  <2> QED
    BY <2>1, <2>2
<1> QED
  BY <1>4, <1>5, <1>7, <1>8 DEF QueueInv

-----------------------------------------------------------------------------

LEMMA WorkerKeeps ==
    ASSUME QueueInv, WorkerStep
    PROVE  QueueInv'
BY PublicWork, ResetStep, NextOperationStep, GivesUpStep, OperationEnds, PublishStep,
   CommitPublishStep, WorkerFailsStep, MarkFailedStep, LooksStep, ReconcileStep DEF WorkerStep

LEMMA QueueStarts == QueueInit => QueueInv
<1> SUFFICES ASSUME QueueInit PROVE QueueInv
  OBVIOUS
<1> USE DEF QueueInit
<1>1. TablesOK
  BY DEF TablesOK, Work, NoWork, UnitStates, Holders
<1>2. WorkerOK
  BY DEF WorkerOK, Idle, WorkerRow, Away, OnPublic, Collecting, Ending, Settling
<1>3. CallsOK
  BY DEF CallsOK, NoCall, CallRow
<1>4. OneActive
  BY DEF OneActive, Active
<1>5. JobsOK /\ WaitersOK
  BY DEF JobsOK, WaitersOK, Live, NoCall
<1>6. LocksOK
  BY DEF LocksOK, NoCall, Idle, Starting, Settling
<1> QED
  BY <1>1, <1>2, <1>3, <1>4, <1>5, <1>6 DEF QueueInv, QueueTypeOK

LEMMA QueueKeeps == QueueInv /\ [QueueNext]_queueVars => QueueInv'
<1> SUFFICES ASSUME QueueInv, [QueueNext]_queueVars PROVE QueueInv'
  OBVIOUS
<1>1. CASE UNCHANGED queueVars
  <2>1. /\ pointer' = pointer /\ public' = public /\ private' = private /\ UNCHANGED locks
        /\ UNCHANGED <<full, stop, worker, caller, troubles>>
    BY <1>1 DEF queueVars, locks
  <2>2. QueueTypeOK'
    BY <2>1 DEF QueueInv, QueueTypeOK, TablesOK, WorkerOK, CallsOK, locks
  <2>3. OneActive' /\ JobsOK' /\ WaitersOK' /\ LocksOK'
    BY <2>1 DEF QueueInv, OneActive, JobsOK, WaitersOK, LocksOK, Live, Place, locks
  <2> QED
    BY <2>2, <2>3 DEF QueueInv
<1>2. ASSUME NEW j \in PublicJobs, NEW u \in Units, StartPublic(j, u) \/ ExtendPublic(j, u)
      PROVE  QueueInv'
  BY <1>2, PublicCall
<1>3. ASSUME NEW j \in PublicJobs, CancelPublic(j)
      PROVE  QueueInv'
  BY <1>3, PublicCall
<1>4. ASSUME NEW c \in Callers, CallerStep(c) \/ Die(c)
      PROVE  QueueInv'
  BY <1>4, CallersKeep
<1> QED
  BY <1>1, <1>2, <1>3, <1>4, StartVinStep, CallStep, BootStep, ClaimStep, SurroundingsStep,
     WorkerKeeps, LossStep DEF QueueNext

\* The invariant holds of the queue with its calls, its worker and every fault.
THEOREM QueueCorrect == QueueSpec => []QueueInv
BY QueueStarts, QueueKeeps, PTL DEF QueueSpec

\* Every table, the worker and every call keep their types (j1_research.py,
\* j1_vin_store.py, j1_vin_worker.py).
THEOREM QueueTypeCorrect == QueueSpec => []QueueTypeOK
<1>1. QueueInv => QueueTypeOK
  BY DEF QueueInv
<1> QED
  BY <1>1, QueueCorrect, PTL

\* At most one job, public or private, is queued or runs (the check for "j1_busy" that
\* every start and extension makes in its transaction).
THEOREM OneJobActive == QueueSpec => []OneActive
<1>1. QueueInv => OneActive
  BY DEF QueueInv
<1> QED
  BY <1>1, QueueCorrect, PTL

\* Work that is owed to a job with a row is scheduled: the pointer that precedes the
\* private commit, the worker's last transaction and every crash between leave none behind.
THEOREM WorkStaysScheduled == QueueSpec => []WorkIsScheduled
<1>1. QueueInv => WorkIsScheduled
  BY DEF QueueInv, JobsOK, JobOK, Scheduled, Owed, Due, WorkIsScheduled
<1> QED
  BY <1>1, QueueCorrect, PTL

\* However often the worker dies, a unit of work is tried at most twice
\* (_reset_interrupted).
THEOREM TriesAreCounted == QueueSpec => []TriedTwiceAtMost
<1>1. QueueInv => TriedTwiceAtMost
  BY DEF QueueInv, JobsOK, JobOK, Counted, TriedTwiceAtMost
<1> QED
  BY <1>1, QueueCorrect, PTL

\* While the switch stays on, no operation runs for an analysis that was declared final
\* (record_facts refuses while one does; what is added or found later reopens it).
THEOREM FinalStaysQuiet == QueueSpec => []FinalIsQuiet
<1>1. QueueInv => FinalIsQuiet
  BY DEF QueueInv, JobsOK, JobOK, Quiet, Place, FinalIsQuiet
<1> QED
  BY <1>1, QueueCorrect, PTL
=============================================================================
