----------------------------- MODULE EffectLane -----------------------------
(***************************************************************************)
(* The lane on which the Telegram bridge runs its external effects one at  *)
(* a time: EffectExecutor (telegram_effects.py).  OwnerBridge is a client  *)
(* of it and knows only that one request at a time is in the lane.         *)
(*                                                                         *)
(* Everything runs in one event loop, so an action is what happens between *)
(* two suspensions.  An operation is external code: it may end at any      *)
(* time, cancelled or not, or never, and only the timers bound the wait.   *)
(***************************************************************************)
EXTENDS Naturals, Sequences, FiniteSets

CONSTANTS
    Items,      \* submissions
    Jobs, NoJob, JobOf,     \* the Telegram job a submission works for, if any
    Capacity    \* of the queue

ASSUME LaneConstants ==
    /\ Capacity \in Nat
    /\ NoJob \notin Jobs
    /\ JobOf \in [Items -> Jobs \cup {NoJob}]

VARIABLES
    answer,     \* the future of each submission
    queue,      \* _pending
    worker,     \* _worker: the task of _consume
    begun,      \* submissions whose operation was created
    ops,        \* operations that have not ended (_operation, while not done)
    activeJob,  \* active_job_id
    failed, closed,
    closer,     \* where close() stands
    unwoken     \* clients that captured progress_event, submitted, and had no signal since

laneVars == <<answer, queue, worker, begun, ops, activeJob, failed, closed, closer, unwoken>>

\* "none" was not submitted, "pending" waits; "result" is the operation's own
\* outcome, an exception of it included.
Refusals == {"busy", "held", "queue_timeout", "withdrawn"}
Answers == {"none", "pending", "result", "timeout", "cancelled"} \cup Refusals

\* "created" has not had its first turn, "waiting" waits for the operation until
\* the deadline, "cleaning" for a cancelled one; "ended" stands for no task too.
WorkerSteps == {"ended", "created", "waiting", "cleaning"}
Ended == [step |-> "ended", items |-> {}, cancelled |-> FALSE]
Working(step, i) == [step |-> step, items |-> {i}, cancelled |-> FALSE]

LaneTypeOK ==
    /\ answer \in [Items -> Answers]
    /\ queue \in Seq(Items)
    /\ worker \in [step : WorkerSteps, items : SUBSET Items, cancelled : BOOLEAN]
    /\ begun \subseteq Items /\ ops \subseteq Items
    /\ activeJob \in Jobs \cup {NoJob}
    /\ failed \in BOOLEAN /\ closed \in BOOLEAN
    /\ closer \in {"open", "worker", "operation", "done"}
    /\ unwoken \subseteq Items

Init ==
    /\ answer = [i \in Items |-> "none"]
    /\ queue = <<>> /\ worker = Ended
    /\ begun = {} /\ ops = {} /\ activeJob = NoJob
    /\ failed = FALSE /\ closed = FALSE /\ closer = "open"
    /\ unwoken = {}

Pending(i) == answer[i] = "pending"
Queued == {queue[n] : n \in 1..Len(queue)}

\* Of the submissions in S, those still pending get this answer.
Answered(ans, S, a) == [i \in Items |-> IF i \in S /\ ans[i] = "pending" THEN a ELSE ans[i]]

Active == worker.step # "ended" \/ ops # {}

HasJobWork(j) ==
    \/ Active /\ activeJob = j
    \/ \E i \in Queued : Pending(i) /\ JobOf[i] = j

-----------------------------------------------------------------------------
(* submit, up to the first suspension, and its waiter *)

Refuse(i, a, rest) ==
    /\ answer' = [answer EXCEPT ![i] = a]
    /\ queue' = rest
    /\ UNCHANGED <<worker, activeJob>>

Employ(i, rest) ==
    /\ answer' = [answer EXCEPT ![i] = "pending"]
    /\ queue' = rest
    /\ worker' = Working("created", i)
    /\ activeJob' = JobOf[i]

Enqueue(i, rest) ==
    /\ answer' = [answer EXCEPT ![i] = "pending"]
    /\ queue' = Append(rest, i)
    /\ UNCHANGED <<worker, activeJob>>

\* The queue without the entries that have their answer.  A recursive function,
\* since the provers know nothing of SelectSeq.
Waiting ==
    LET kept[n \in 0..Len(queue)] ==
            IF n = 0 THEN <<>>
            ELSE IF Pending(queue[n]) THEN Append(kept[n - 1], queue[n])
            ELSE kept[n - 1]
    IN  kept[Len(queue)]

\* Entries that have their answer leave the queue before places are counted.
Submit(i) ==
    /\ answer[i] = "none"
    /\ LET waiting == Waiting IN
       \/ (closed \/ failed) /\ Refuse(i, "held", queue)
       \/ /\ ~closed /\ ~failed
          /\ \/ ~Active /\ Employ(i, waiting)
             \/ Active /\ Len(waiting) >= Capacity /\ Refuse(i, "busy", waiting)
             \/ Active /\ Len(waiting) < Capacity /\ Enqueue(i, waiting)
    /\ unwoken' = unwoken \cup {i}
    /\ UNCHANGED <<begun, ops, failed, closed, closer>>

\* A waiter that goes away before the start withdraws the submission; later its
\* going away changes nothing here.
Withdraw(i) ==
    /\ Pending(i) /\ i \notin begun
    /\ answer' = [answer EXCEPT ![i] = "withdrawn"]
    /\ UNCHANGED <<queue, worker, begun, ops, activeJob, failed, closed, closer, unwoken>>

\* The timer of a queued submission.
Expire(i) ==
    /\ i \in Queued /\ Pending(i)
    /\ answer' = [answer EXCEPT ![i] = "queue_timeout"]
    /\ UNCHANGED <<queue, worker, begun, ops, activeJob, failed, closed, closer, unwoken>>

OperationEnds(i) ==
    /\ i \in ops
    /\ ops' = ops \ {i}
    /\ UNCHANGED <<answer, queue, worker, begun, activeJob, failed, closed, closer, unwoken>>

-----------------------------------------------------------------------------
(* _consume and _execute: one turn of the worker *)

\* The operation of i starts; ans and rest are the answers and the queue by then.
Start(i, ans, rest) ==
    /\ answer' = ans
    /\ queue' = rest
    /\ worker' = Working("waiting", i)
    /\ begun' = begun \cup {i} /\ ops' = ops \cup {i}
    /\ activeJob' = JobOf[i]

\* The finally of _consume.
Finish_Unanswered(ans, rest) ==
    /\ answer' = ans
    /\ queue' = <<>>
    /\ worker' = Ended
    /\ activeJob' = IF ops = {} THEN NoJob ELSE activeJob
    /\ unwoken' = {}
    /\ UNCHANGED <<begun, ops>>
Finish_JobForgotten(ans, rest) ==
    /\ answer' = Answered(ans, {rest[n] : n \in 1..Len(rest)}, "held")
    /\ queue' = <<>>
    /\ worker' = Ended
    /\ activeJob' = NoJob
    /\ unwoken' = {}
    /\ UNCHANGED <<begun, ops>>
Finish(ans, rest) ==
    /\ answer' = Answered(ans, {rest[n] : n \in 1..Len(rest)}, "held")
    /\ queue' = <<>>
    /\ worker' = Ended
    /\ activeJob' = IF ops = {} THEN NoJob ELSE activeJob
    /\ unwoken' = {}
    /\ UNCHANGED <<begun, ops>>

\* Entries are taken from the queue until one starts: answered ones are passed
\* over, and late ones (the timer may come after the worker) answered.  Only an
\* executed submission is followed by a signal.
Passed(ans, k) == Answered(ans, {queue[n] : n \in 1..k}, "queue_timeout")

Proceed(ans, executed) ==
    \/ (closed \/ failed \/ queue = <<>>) /\ Finish(ans, queue)
    \/ /\ ~closed /\ ~failed
       /\ \E k \in 1..Len(queue) :
             LET i == queue[k]  rest == SubSeq(queue, k + 1, Len(queue)) IN
             \/ ans[i] = "pending" /\ Start(i, Passed(ans, k - 1), rest)
                                   /\ unwoken' = IF executed THEN {} ELSE unwoken
             \/ rest = <<>> /\ Finish(Passed(ans, k), rest)

\* The first turn, on the submission that employed the worker.
Begin_Withdrawn(i) ==
    /\ worker.step = "created" /\ ~worker.cancelled
    /\ Start(i, answer, queue)
    /\ UNCHANGED <<failed, closed, closer, unwoken>>
Begin(i) ==
    /\ worker.step = "created" /\ ~worker.cancelled
    /\ \/ Pending(i) /\ Start(i, answer, queue) /\ UNCHANGED unwoken
       \/ Pending(i) /\ Proceed(Answered(answer, {i}, "timeout"), TRUE)
       \/ ~Pending(i) /\ Proceed(answer, FALSE)
    /\ UNCHANGED <<failed, closed, closer>>

Settle(i) ==
    /\ worker.step = "waiting" /\ ~worker.cancelled /\ i \notin ops
    /\ Proceed(Answered(answer, {i}, "result"), TRUE)
    /\ UNCHANGED <<failed, closed, closer>>

\* The deadline: the operation is cancelled and given time to end.
Overrun(i) ==
    /\ worker.step = "waiting" /\ ~worker.cancelled /\ i \in ops
    /\ worker' = Working("cleaning", i)
    /\ UNCHANGED <<answer, queue, begun, ops, activeJob, failed, closed, closer, unwoken>>

CleanedUp(i) ==
    /\ worker.step = "cleaning" /\ ~worker.cancelled /\ i \notin ops
    /\ Proceed(Answered(answer, {i}, "timeout"), TRUE)
    /\ UNCHANGED <<failed, closed, closer>>

GiveUp_StaysOpen(i) ==
    /\ worker.step = "cleaning" /\ ~worker.cancelled /\ i \in ops
    /\ Proceed(Answered(answer, {i}, "timeout"), TRUE)
    /\ UNCHANGED <<failed, closed, closer>>

\* It did not end in time: the lane stops for good.
GiveUp(i) ==
    /\ worker.step = "cleaning" /\ ~worker.cancelled /\ i \in ops
    /\ failed' = TRUE
    /\ Finish(Answered(answer, {i}, "timeout"), queue)
    /\ UNCHANGED <<closed, closer>>

\* close() cancelled the task: before its first turn none of its code runs.
Cancelled(i) ==
    /\ worker.step # "ended" /\ worker.cancelled
    /\ \/ /\ worker.step = "created"
          /\ worker' = Ended
          /\ UNCHANGED <<answer, queue, begun, ops, activeJob, unwoken>>
       \/ /\ worker.step # "created"
          /\ Finish(Answered(answer, {i}, "cancelled"), queue)
    /\ UNCHANGED <<failed, closed, closer>>

Turn ==
    \E i \in worker.items :
        \/ Begin(i) \/ Settle(i) \/ Overrun(i) \/ CleanedUp(i) \/ GiveUp(i) \/ Cancelled(i)

-----------------------------------------------------------------------------
(* close, at its suspensions.  The cancelled worker always ends in the next   *)
(* turn of the loop, so the timeout of the first wait is left out.            *)

Close_Silent ==
    /\ ~closed /\ closed' = TRUE
    /\ worker' = [worker EXCEPT !.cancelled = worker.step # "ended"]
    /\ closer' = "worker"
    /\ UNCHANGED <<answer, queue, begun, ops, activeJob, failed, unwoken>>
Close ==
    /\ ~closed /\ closed' = TRUE
    /\ worker' = [worker EXCEPT !.cancelled = worker.step # "ended"]
    /\ closer' = "worker"
    /\ unwoken' = {}
    /\ UNCHANGED <<answer, queue, begun, ops, activeJob, failed>>

WorkerGone ==
    /\ closer = "worker" /\ worker.step = "ended"
    /\ closer' = IF ops = {} THEN "done" ELSE "operation"
    /\ UNCHANGED <<answer, queue, worker, begun, ops, activeJob, failed, closed, unwoken>>

OperationGone_Patient ==
    /\ closer = "operation" /\ ops = {}
    /\ closer' = "done"
    /\ UNCHANGED <<answer, queue, worker, begun, ops, activeJob, failed, closed, unwoken>>

\* The second wait ends with the operation or with its timer.
OperationGone ==
    /\ closer = "operation"
    /\ failed' = (failed \/ ops # {})
    /\ closer' = "done"
    /\ UNCHANGED <<answer, queue, worker, begun, ops, activeJob, closed, unwoken>>

CloseGoesOn == WorkerGone \/ OperationGone

-----------------------------------------------------------------------------
Next ==
    \/ \E i \in Items : Submit(i) \/ Withdraw(i) \/ Expire(i) \/ OperationEnds(i)
    \/ Turn \/ Close \/ CloseGoesOn

\* The loop gives every ready task a turn and fires every timer; clients and
\* operations owe nothing.
Fairness ==
    /\ \A i \in Items : WF_laneVars(Expire(i))
    /\ WF_laneVars(Turn) /\ WF_laneVars(CloseGoesOn)

Spec == Init /\ [][Next]_laneVars /\ Fairness

-----------------------------------------------------------------------------
(* Safety *)

\* Two effects never overlap, also when one overruns its deadline, resists its
\* cancellation or outlives the lane.
OneOperation == Cardinality(ops) <= 1

\* A client that was told "busy", "held" or "queue timeout", or withdrew, may
\* try again: its effect has not begun and never will.
RefusedNeverBegins == \A i \in Items : answer[i] \in Refusals => i \notin begun

\* While an effect of a job runs or may still start, has_job_work says so, and
\* the execution of the job is not declared finished.
JobWorkIsVisible ==
    \A i \in Items :
        (i \in ops \/ (Pending(i) /\ i \in Queued \cup worker.items)) /\ JobOf[i] # NoJob
            => HasJobWork(JobOf[i])

(* Liveness *)

\* While the lane is open every submission gets its answer, whatever the
\* operations do.
AnsweredWhileOpen == \A i \in Items : Pending(i) ~> (~Pending(i) \/ closed)

\* A client that was refused a place is woken to try again, even if the signal
\* comes before it waits for it.
RefusedIsWoken ==
    \A i \in Items : answer[i] \in {"busy", "queue_timeout"} ~> i \notin unwoken

\* close() ends, though an operation may never.
CloseEnds == closed ~> closer = "done"
=============================================================================
