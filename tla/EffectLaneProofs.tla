--------------------------- MODULE EffectLaneProofs ---------------------------
(***************************************************************************)
(* Effects of the bridge never overlap, are seen while they run, and never *)
(* begin once refused, for any submissions, jobs and capacity, whatever    *)
(* the operations do and whenever the lane is closed.                      *)
(***************************************************************************)
EXTENDS EffectLane, FiniteSetTheorems, SequenceTheorems, TLAPS

\* The worker's operation is the only one; a worker that has not had its turn has
\* none yet, and one that is gone leaves its operation only to a lane that takes
\* no more submissions.
WorkerShape ==
    worker = [step |-> worker.step, items |-> worker.items, cancelled |-> worker.cancelled]
AtMostOne == \E i : ops \subseteq {i}
CreatedHasNone == worker.step = "created" => ops = {}
BusyOwnsIt ==
    worker.step \in {"waiting", "cleaning"} => \A i \in worker.items : ops \subseteq {i}
GoneIsShut == worker.step = "ended" => ops = {} \/ failed \/ closed
CancelledByClose == worker.cancelled => closed

LaneInv ==
    /\ WorkerShape /\ worker.step \in WorkerSteps
    /\ AtMostOne /\ CreatedHasNone /\ BusyOwnsIt /\ GoneIsShut /\ CancelledByClose
    /\ failed \in BOOLEAN /\ closed \in BOOLEAN

\* What Start and Finish leave behind when no operation runs.
LEMMA StartAlone ==
    ASSUME NEW i, NEW ans, NEW rest, Start(i, ans, rest), ops = {},
           failed' \in BOOLEAN, closed' \in BOOLEAN
    PROVE  LaneInv'
<1>1. /\ worker' = [step |-> "waiting", items |-> {i}, cancelled |-> FALSE]
      /\ ops' = {i}
  BY DEF Start, Working
<1>2. /\ worker'.step = "waiting" /\ worker'.items = {i} /\ worker'.cancelled = FALSE
  BY <1>1
<1>3. WorkerShape' /\ worker'.step \in WorkerSteps
  BY <1>1, <1>2 DEF WorkerShape, WorkerSteps
<1>4. AtMostOne' /\ BusyOwnsIt'
  BY <1>1, <1>2 DEF AtMostOne, BusyOwnsIt
<1>5. CreatedHasNone' /\ GoneIsShut' /\ CancelledByClose'
  BY <1>2 DEF CreatedHasNone, GoneIsShut, CancelledByClose
<1> QED
  BY <1>3, <1>4, <1>5 DEF LaneInv

LEMMA EndedWorker ==
    ASSUME worker' = Ended, ops' = ops, AtMostOne, ops = {} \/ failed' \/ closed',
           failed' \in BOOLEAN, closed' \in BOOLEAN
    PROVE  LaneInv'
<1>1. /\ worker' = [step |-> "ended", items |-> {}, cancelled |-> FALSE]
      /\ worker'.step = "ended" /\ worker'.cancelled = FALSE
  BY DEF Ended
<1>2. WorkerShape' /\ worker'.step \in WorkerSteps
  BY <1>1 DEF WorkerShape, WorkerSteps
<1>3. AtMostOne' /\ GoneIsShut'
  BY <1>1 DEF AtMostOne, GoneIsShut
<1>4. CreatedHasNone' /\ BusyOwnsIt' /\ CancelledByClose'
  BY <1>1 DEF CreatedHasNone, BusyOwnsIt, CancelledByClose
<1> QED
  BY <1>2, <1>3, <1>4 DEF LaneInv

\* A turn that goes on with the queue does so without an operation.
LEMMA ProceedAlone ==
    ASSUME NEW ans, NEW executed, Proceed(ans, executed), LaneInv, ops = {},
           UNCHANGED <<failed, closed>>
    PROVE  LaneInv'
<1>1. failed' \in BOOLEAN /\ closed' \in BOOLEAN /\ AtMostOne
  BY DEF LaneInv
<1>2. ASSUME NEW f, NEW rest, Finish(f, rest) PROVE LaneInv'
  <2>1. worker' = Ended /\ ops' = ops
    BY <1>2 DEF Finish
  <2> QED
    BY <2>1, <1>1, EndedWorker
<1>3. ASSUME NEW i, NEW f, NEW rest, Start(i, f, rest) PROVE LaneInv'
  BY <1>3, <1>1, StartAlone
<1> QED
  BY <1>2, <1>3 DEF Proceed

\* A step that touches neither the worker nor what the lane takes.
LEMMA LaneFrame ==
    ASSUME LaneInv, worker' = worker, ops' \subseteq ops, failed => failed', closed => closed',
           failed' \in BOOLEAN, closed' \in BOOLEAN
    PROVE  LaneInv'
<1>1. AtMostOne'
  BY DEF LaneInv, AtMostOne
<1>2. /\ WorkerShape' /\ worker'.step \in WorkerSteps /\ CreatedHasNone'
      /\ GoneIsShut' /\ CancelledByClose'
  BY DEF LaneInv, WorkerShape, CreatedHasNone, GoneIsShut, CancelledByClose
<1>3. BusyOwnsIt'
  BY DEF LaneInv, BusyOwnsIt
<1> QED
  BY <1>1, <1>2, <1>3 DEF LaneInv

\* A submission employs a worker only when nothing runs and the lane is open.
LEMMA SubmitKeeps ==
    ASSUME LaneInv, NEW i \in Items, Submit(i)
    PROVE  LaneInv'
<1>1. /\ UNCHANGED <<ops, failed, closed>>
      /\ failed' \in BOOLEAN /\ closed' \in BOOLEAN /\ AtMostOne
  BY DEF Submit, LaneInv
<1>2. CASE worker' = worker
  BY <1>1, <1>2, LaneFrame
<1>3. CASE worker' = Working("created", i) /\ ops = {}
  <2>1. /\ worker' = [step |-> "created", items |-> {i}, cancelled |-> FALSE]
        /\ worker'.step = "created" /\ worker'.cancelled = FALSE
    BY <1>3 DEF Working
  <2>2. WorkerShape' /\ worker'.step \in WorkerSteps
    BY <2>1 DEF WorkerShape, WorkerSteps
  <2>3. AtMostOne' /\ CreatedHasNone' /\ BusyOwnsIt' /\ GoneIsShut' /\ CancelledByClose'
    BY <1>1, <1>3, <2>1
    DEF AtMostOne, CreatedHasNone, BusyOwnsIt, GoneIsShut, CancelledByClose
  <2> QED
    BY <1>1, <2>2, <2>3 DEF LaneInv
<1> QED
  BY <1>2, <1>3 DEF Submit, Refuse, Employ, Enqueue, Active

\* A turn of the worker: whatever it does next, its own operation is over, or it
\* leaves it to a lane that is shut.
LEMMA TurnKeeps ==
    ASSUME LaneInv, Turn
    PROVE  LaneInv'
<1>1. PICK i \in worker.items :
          Begin(i) \/ Settle(i) \/ Overrun(i) \/ CleanedUp(i) \/ GiveUp(i) \/ Cancelled(i)
  BY DEF Turn
<1>2. failed \in BOOLEAN /\ closed \in BOOLEAN /\ AtMostOne
  BY DEF LaneInv
<1>3. CASE Begin(i)
  <2>1. ops = {} /\ UNCHANGED <<failed, closed>>
    BY <1>3 DEF Begin, LaneInv, CreatedHasNone
  <2>2. ASSUME NEW f, NEW executed, Proceed(f, executed) PROVE LaneInv'
    BY <2>1, <2>2, ProceedAlone
  <2>3. ASSUME NEW f, NEW rest, Start(i, f, rest) PROVE LaneInv'
    BY <1>2, <2>1, <2>3, StartAlone
  <2> QED
    BY <1>3, <2>2, <2>3 DEF Begin
<1>4. CASE Settle(i)
  <2>1. ops = {} /\ UNCHANGED <<failed, closed>>
    BY <1>4 DEF Settle, LaneInv, BusyOwnsIt
  <2> QED
    BY <1>4, <2>1, ProceedAlone DEF Settle
<1>5. CASE Overrun(i)
  <2>1. /\ worker' = [step |-> "cleaning", items |-> {i}, cancelled |-> FALSE]
        /\ worker'.step = "cleaning" /\ worker'.items = {i} /\ worker'.cancelled = FALSE
        /\ UNCHANGED <<ops, failed, closed>>
    BY <1>5 DEF Overrun, Working
  <2>2. ops \subseteq {i}
    BY <1>5 DEF Overrun, LaneInv, BusyOwnsIt
  <2>3. WorkerShape' /\ worker'.step \in WorkerSteps
    BY <2>1 DEF WorkerShape, WorkerSteps
  <2>4. AtMostOne' /\ CreatedHasNone' /\ BusyOwnsIt' /\ GoneIsShut' /\ CancelledByClose'
    BY <1>2, <2>1, <2>2
    DEF AtMostOne, CreatedHasNone, BusyOwnsIt, GoneIsShut, CancelledByClose
  <2> QED
    BY <1>2, <2>1, <2>3, <2>4 DEF LaneInv
<1>6. CASE CleanedUp(i)
  <2>1. ops = {} /\ UNCHANGED <<failed, closed>>
    BY <1>6 DEF CleanedUp, LaneInv, BusyOwnsIt
  <2> QED
    BY <1>6, <2>1, ProceedAlone DEF CleanedUp
<1>7. CASE GiveUp(i)
  <2>1. worker' = Ended /\ ops' = ops /\ failed' = TRUE /\ closed' = closed
    BY <1>7 DEF GiveUp, Finish
  <2> QED
    BY <1>2, <2>1, EndedWorker
<1>8. CASE Cancelled(i)
  <2>1. worker' = Ended /\ ops' = ops /\ UNCHANGED <<failed, closed>>
    BY <1>8 DEF Cancelled, Finish
  <2>2. closed
    BY <1>8 DEF Cancelled, LaneInv, CancelledByClose
  <2> QED
    BY <1>2, <2>1, <2>2, EndedWorker
<1> QED
  BY <1>1, <1>3, <1>4, <1>5, <1>6, <1>7, <1>8

\* close() cancels the worker and shuts the lane in one step.
LEMMA CloseKeeps ==
    ASSUME LaneInv, Close
    PROVE  LaneInv'
<1>1. /\ closed' = TRUE /\ UNCHANGED <<ops, failed>>
      /\ worker' = [worker EXCEPT !.cancelled = worker.step # "ended"]
      /\ worker = [step |-> worker.step, items |-> worker.items, cancelled |-> worker.cancelled]
  BY DEF Close, LaneInv, WorkerShape
<1>2. worker' = [step |-> worker.step, items |-> worker.items,
                 cancelled |-> worker.step # "ended"]
  BY <1>1
<1>3. worker'.step = worker.step /\ worker'.items = worker.items
  BY <1>2
<1>4. WorkerShape' /\ worker'.step \in WorkerSteps
  BY <1>2, <1>3 DEF WorkerShape, LaneInv
<1>5. AtMostOne' /\ CreatedHasNone' /\ BusyOwnsIt' /\ GoneIsShut' /\ CancelledByClose'
  BY <1>1, <1>3
  DEF LaneInv, AtMostOne, CreatedHasNone, BusyOwnsIt, GoneIsShut, CancelledByClose
<1> QED
  BY <1>1, <1>4, <1>5 DEF LaneInv

\* What the lane names as its job is the job of the operation that runs, also of
\* one that outlived its worker, and of the submission that employs the worker.
JobIsNamed ==
    /\ \A i \in ops \cup worker.items : activeJob = JobOf[i]
    /\ worker.step = "ended" => worker.items = {}

LEMMA StartNames ==
    ASSUME NEW i, NEW ans, NEW rest, Start(i, ans, rest), ops = {}
    PROVE  JobIsNamed'
<1>1. ops' = {i} /\ activeJob' = JobOf[i]
  BY DEF Start
<1>2. worker' = [step |-> "waiting", items |-> {i}, cancelled |-> FALSE]
  BY DEF Start, Working
<1>3. worker'.items = {i} /\ worker'.step = "waiting"
  BY <1>2
<1> QED
  BY <1>1, <1>3 DEF JobIsNamed

LEMMA FinishNames ==
    ASSUME NEW ans, NEW rest, Finish(ans, rest), JobIsNamed
    PROVE  JobIsNamed'
<1>1. ops' = ops /\ (ops # {} => activeJob' = activeJob)
  BY DEF Finish
<1>2. worker' = [step |-> "ended", items |-> {}, cancelled |-> FALSE]
  BY DEF Finish, Ended
<1>3. worker'.items = {}
  BY <1>2
<1> QED
  BY <1>1, <1>3 DEF JobIsNamed

LEMMA ProceedNames ==
    ASSUME NEW ans, NEW executed, Proceed(ans, executed), ops = {}, JobIsNamed
    PROVE  JobIsNamed'
BY StartNames, FinishNames DEF Proceed

LEMMA SubmitNames ==
    ASSUME JobIsNamed, NEW i \in Items, Submit(i)
    PROVE  JobIsNamed'
<1>1. ops' = ops
  BY DEF Submit
<1>2. CASE worker' = worker /\ activeJob' = activeJob
  BY <1>1, <1>2 DEF JobIsNamed
<1>3. CASE worker' = Working("created", i) /\ activeJob' = JobOf[i] /\ ops = {}
  <2>1. worker' = [step |-> "created", items |-> {i}, cancelled |-> FALSE]
    BY <1>3 DEF Working
  <2>2. worker'.items = {i} /\ worker'.step = "created"
    BY <2>1
  <2> QED
    BY <1>1, <1>3, <2>2 DEF JobIsNamed
<1> QED
  BY <1>2, <1>3 DEF Submit, Refuse, Employ, Enqueue, Active

LEMMA TurnNames ==
    ASSUME LaneInv, JobIsNamed, Turn
    PROVE  JobIsNamed'
<1>1. PICK i \in worker.items :
          Begin(i) \/ Settle(i) \/ Overrun(i) \/ CleanedUp(i) \/ GiveUp(i) \/ Cancelled(i)
  BY DEF Turn
<1>2. CASE Begin(i)
  <2>1. ops = {}
    BY <1>2 DEF Begin, LaneInv, CreatedHasNone
  <2> QED
    BY <1>2, <2>1, StartNames, ProceedNames DEF Begin
<1>3. CASE Settle(i)
  <2>1. ops = {}
    BY <1>3 DEF Settle, LaneInv, BusyOwnsIt
  <2> QED
    BY <1>3, <2>1, ProceedNames DEF Settle
<1>4. CASE Overrun(i)
  <2>1. /\ worker' = [step |-> "cleaning", items |-> {i}, cancelled |-> FALSE]
        /\ UNCHANGED <<ops, activeJob>>
    BY <1>4 DEF Overrun, Working
  <2>2. worker'.items = {i} /\ worker'.step = "cleaning"
    BY <2>1
  <2> QED
    BY <2>1, <2>2 DEF JobIsNamed
<1>5. CASE CleanedUp(i)
  <2>1. ops = {}
    BY <1>5 DEF CleanedUp, LaneInv, BusyOwnsIt
  <2> QED
    BY <1>5, <2>1, ProceedNames DEF CleanedUp
<1>6. CASE GiveUp(i)
  BY <1>6, FinishNames DEF GiveUp
<1>7. CASE Cancelled(i)
  <2>1. CASE worker' = Ended /\ UNCHANGED <<ops, activeJob>>
    <3>1. worker' = [step |-> "ended", items |-> {}, cancelled |-> FALSE]
      BY <2>1 DEF Ended
    <3>2. worker'.items = {}
      BY <3>1
    <3> QED
      BY <2>1, <3>2 DEF JobIsNamed
  <2> QED
    BY <1>7, <2>1, FinishNames DEF Cancelled
<1> QED
  BY <1>1, <1>2, <1>3, <1>4, <1>5, <1>6, <1>7

LEMMA CloseNames ==
    ASSUME LaneInv, JobIsNamed, Close
    PROVE  JobIsNamed'
<1>1. /\ UNCHANGED <<ops, activeJob>>
      /\ worker' = [worker EXCEPT !.cancelled = worker.step # "ended"]
      /\ worker = [step |-> worker.step, items |-> worker.items, cancelled |-> worker.cancelled]
  BY DEF Close, LaneInv, WorkerShape
<1>2. worker' = [step |-> worker.step, items |-> worker.items,
                 cancelled |-> worker.step # "ended"]
  BY <1>1
<1>3. worker'.step = worker.step /\ worker'.items = worker.items
  BY <1>2
<1> QED
  BY <1>1, <1>3 DEF JobIsNamed

\* Induction over the natural numbers, for a set instead of a predicate, which the
\* provers can instantiate.
LEMMA SetInduction ==
    ASSUME NEW S, 0 \in S, \A n \in Nat : n \in S => n + 1 \in S
    PROVE  Nat \subseteq S
<1> DEFINE Less == {pair \in Nat \X Nat : pair[1] < pair[2]}
<1>1. IsWellFoundedOn(Less, Nat)
  BY NatLessThanWellFounded DEF OpToRel
<1> SUFFICES ASSUME Nat \ S # {} PROVE FALSE
  OBVIOUS
<1> HIDE DEF Less
<1>2. PICK n \in Nat \ S : \A m \in Nat \ S : ~(<<m, n>> \in Less)
  <2>1. Nat \ S \subseteq Nat
    OBVIOUS
  <2> QED
    BY <1>1, <2>1, WFMin
<1>3. n - 1 \in Nat \ S
  <2>1. n # 0
    OBVIOUS
  <2>2. n - 1 \in Nat /\ (n - 1) + 1 = n
    BY <2>1
  <2> QED
    BY <2>2
<1>4. <<n - 1, n>> \in Less
  BY <1>3 DEF Less
<1> QED
  BY <1>2, <1>3, <1>4

NoRepeats(s) == \A m, n \in 1..Len(s) : s[m] = s[n] => m = n
Members(s) == {s[n] : n \in 1..Len(s)}

\* Filtering the queue brings in nothing new and no repetition.
LEMMA WaitingFilters ==
    ASSUME queue \in Seq(Items), NoRepeats(queue)
    PROVE  Waiting \in Seq(Items) /\ NoRepeats(Waiting) /\ Members(Waiting) \subseteq Queued
<1> DEFINE
    Step(f, i) == IF i = 0 THEN <<>>
                  ELSE IF Pending(queue[i]) THEN Append(f[i - 1], queue[i])
                  ELSE f[i - 1]
    Filter(f, n) == f = [i \in 0..n |-> Step(f, i)]
<1>1. Len(queue) \in Nat
  OBVIOUS
<1>2. \E f : Filter(f, Len(queue))
  <2> DEFINE S == {n \in Nat : \E f : Filter(f, n)}
  <2>1. 0 \in S
    <3>1. Filter([i \in 0..0 |-> <<>>], 0)
      OBVIOUS
    <3> QED
      BY <3>1
  <2>2. ASSUME NEW n \in Nat, n \in S PROVE n + 1 \in S
    <3>1. PICK f : Filter(f, n)
      BY <2>2
    <3> DEFINE g == [i \in 0..(n + 1) |-> IF i = n + 1 THEN Step(f, i) ELSE f[i]]
    <3>2. \A i \in 0..n : f[i] = Step(f, i)
      BY <3>1
    <3>3. \A i \in 0..(n + 1) : g[i] = Step(g, i)
      <4> SUFFICES ASSUME NEW i \in 0..(n + 1) PROVE g[i] = Step(g, i)
        OBVIOUS
      <4>1. g[i] = Step(f, i)
        BY <3>2
      <4>2. CASE i = 0
        BY <4>1, <4>2
      <4>3. CASE i # 0
        <5>1. i - 1 \in 0..(n + 1) /\ i - 1 # n + 1
          BY <4>3
        <5>2. g[i - 1] = f[i - 1]
          BY <5>1
        <5> QED
          BY <4>1, <5>2
      <4> QED
        BY <4>2, <4>3
    <3>4. Filter(g, n + 1)
      <4>1. g = [i \in 0..(n + 1) |-> g[i]]
        OBVIOUS
      <4> HIDE DEF g, Step
      <4> QED
        BY <3>3, <4>1
    <3> HIDE DEF g, Filter
    <3> QED
      BY <3>4
  <2> HIDE DEF S
  <2>3. Nat \subseteq S
    BY <2>1, <2>2, SetInduction
  <2> QED
    BY <1>1, <2>3 DEF S
<1> DEFINE kept == CHOOSE f : Filter(f, Len(queue))
<1>3. Filter(kept, Len(queue)) 
  BY <1>2
<1>4. Waiting = kept[Len(queue)]
  BY DEF Waiting
<1> HIDE DEF kept
<1>5. \A n \in 0..Len(queue) : kept[n] = Step(kept, n)
  BY <1>3
<1> HIDE DEF Filter
<1> DEFINE
    Good(n) == /\ kept[n] \in Seq(Items) /\ NoRepeats(kept[n])
               /\ \A k \in 1..Len(kept[n]) : \E m \in 1..n : kept[n][k] = queue[m]
    T == {n \in Nat : n <= Len(queue) => Good(n)}
<1>6. Good(0)
  <2>1. kept[0] = <<>>
    BY <1>1, <1>5
  <2>2. kept[0] \in Seq(Items) /\ Len(kept[0]) = 0
    BY <2>1, EmptySeq
  <2>3. NoRepeats(kept[0])
    BY <2>2 DEF NoRepeats
  <2> QED
    BY <2>2, <2>3
<1>7. ASSUME NEW n \in Nat, n + 1 <= Len(queue), Good(n) PROVE Good(n + 1)
  <2>1. Good(n)
    BY <1>7
  <2>2. queue[n + 1] \in Items
    BY <1>1, <1>7
  <2>3. CASE kept[n + 1] = kept[n]
    BY <2>1, <2>3
  <2>4. CASE kept[n + 1] = Append(kept[n], queue[n + 1])
    <3> DEFINE old == kept[n]  new == kept[n + 1]
    <3>1. /\ new \in Seq(Items) /\ Len(new) = Len(old) + 1
          /\ \A k \in 1..Len(old) : new[k] = old[k]
          /\ new[Len(old) + 1] = queue[n + 1]
      BY <2>1, <2>2, <2>4, AppendProperties
    <3>2. \A k \in 1..Len(old) : \E m \in 1..n : old[k] = queue[m]
      BY <2>1
    <3>3. NoRepeats(old) /\ old \in Seq(Items)
      BY <2>1
    <3> HIDE DEF old, new
    <3>4. Len(old) \in Nat
      BY <3>3
    <3>5. \A k \in 1..Len(old) : new[k] # new[Len(new)]
      <4>1. \A m \in 1..n : queue[m] # queue[n + 1]
        BY <1>1, <1>7 DEF NoRepeats
      <4>2. \A k \in 1..Len(old) : old[k] # queue[n + 1]
        BY <3>2, <4>1
      <4>3. Len(new) = Len(old) + 1 /\ new[Len(new)] = queue[n + 1]
        BY <3>1
      <4> QED
        BY <3>1, <4>2, <4>3
    <3>6. NoRepeats(new)
      <4> SUFFICES ASSUME NEW k \in 1..Len(new), NEW l \in 1..Len(new), new[k] = new[l]
                   PROVE  k = l
        BY DEF NoRepeats
      <4>1. CASE k = Len(new) \/ l = Len(new)
        BY <3>1, <3>4, <3>5, <4>1
      <4>2. CASE k # Len(new) /\ l # Len(new)
        BY <3>1, <3>3, <3>4, <4>2 DEF NoRepeats
      <4> QED
        BY <4>1, <4>2
    <3>7. \A k \in 1..Len(new) : \E m \in 1..(n + 1) : new[k] = queue[m]
      BY <3>1, <3>2, <3>4
    <3> QED
      BY <3>1, <3>6, <3>7 DEF old, new
  <2> QED
    <3>1. kept[n + 1] = Step(kept, n + 1) /\ (n + 1) - 1 = n /\ n + 1 # 0
      BY <1>1, <1>5, <1>7
    <3> QED
      BY <2>3, <2>4, <3>1
<1> HIDE DEF Good
<1>8. Nat \subseteq T
  <2>1. 0 \in T
    BY <1>6
  <2>2. \A n \in Nat : n \in T => n + 1 \in T
    BY <1>1, <1>7
  <2> HIDE DEF T
  <2> QED
    BY <2>1, <2>2, SetInduction
<1>9. Good(Len(queue))
  BY <1>1, <1>8
<1>10. \A k \in 1..Len(Waiting) : Waiting[k] \in Queued
  BY <1>1, <1>4, <1>9 DEF Good, Queued
<1>11. Members(Waiting) \subseteq Queued
  BY <1>10 DEF Members
<1> QED
  BY <1>4, <1>9, <1>11 DEF Good

\* What is known of the answers ans, the queue q, the worker's submissions and the
\* begun effects: an effect begins at most once, from the queue or from the worker
\* that it employs, and nobody refused stands in the way of it.
Unspoilt(ans, q, started) ==
    /\ ans \in [Items -> Answers] /\ q \in Seq(Items) /\ NoRepeats(q)
    /\ Members(q) \cap started = {}
    /\ \A i \in Items : ans[i] = "none" => i \notin Members(q) \cup started
    /\ \A i \in Items : ans[i] \in Refusals => i \notin started

Newcomers ==
    /\ worker.items \subseteq Items
    /\ \A i \in worker.items : answer[i] # "none"
    /\ worker.step = "created" => worker.items \cap (Queued \cup begun) = {}
    /\ worker.step \notin {"created", "ended"} => worker.items \subseteq begun

RefusalInv == Unspoilt(answer, queue, begun) /\ Newcomers

LEMMA MembersOfQueue == Queued = Members(queue)
BY DEF Queued, Members

\* A tail of the queue.
LEMMA TailOfQueue ==
    ASSUME queue \in Seq(Items), NoRepeats(queue), NEW k \in 1..Len(queue)
    PROVE  LET rest == SubSeq(queue, k + 1, Len(queue)) IN
           /\ rest \in Seq(Items) /\ NoRepeats(rest) /\ Members(rest) \subseteq Members(queue)
           /\ queue[k] \notin Members(rest)
<1> DEFINE rest == SubSeq(queue, k + 1, Len(queue))
<1>1. Len(queue) \in Nat /\ k \in 1..Len(queue)
  OBVIOUS
<1>2. \A n \in (k + 1)..Len(queue) : queue[n] \in Items
  OBVIOUS
<1>3. /\ rest \in Seq(Items)
      /\ Len(rest) = Len(queue) - k
      /\ \A n \in 1..Len(queue) - k : rest[n] = queue[k + n]
  <2>1. k + 1 \in Int /\ Len(queue) \in Int
    BY <1>1
  <2>2. /\ rest \in Seq(Items)
        /\ Len(rest) = IF k + 1 <= Len(queue) THEN Len(queue) - (k + 1) + 1 ELSE 0
        /\ \A n \in 1..Len(queue) - (k + 1) + 1 : rest[n] = queue[(k + 1) + n - 1]
    BY <1>2, <2>1, SubSeqProperties
  <2> HIDE DEF rest
  <2>3. Len(rest) = Len(queue) - k
    BY <1>1, <2>2
  <2>4. ASSUME NEW n \in 1..Len(queue) - k PROVE rest[n] = queue[k + n]
    <3>1. (k + 1) + n - 1 = k + n /\ n \in 1..Len(queue) - (k + 1) + 1
      BY <1>1
    <3> QED
      BY <2>2, <3>1
  <2> QED
    BY <2>2, <2>3, <2>4
<1> HIDE DEF rest
<1>4. NoRepeats(rest)
  BY <1>1, <1>3 DEF NoRepeats
<1>5. Members(rest) \subseteq Members(queue)
  <2> SUFFICES ASSUME NEW n \in 1..Len(rest) PROVE rest[n] \in Members(queue)
    BY DEF Members
  <2>1. rest[n] = queue[k + n] /\ k + n \in 1..Len(queue)
    BY <1>1, <1>3
  <2> QED
    BY <2>1 DEF Members
<1>6. queue[k] \notin Members(rest)
  BY <1>1, <1>3 DEF Members, NoRepeats
<1> QED
  BY <1>3, <1>4, <1>5, <1>6 DEF rest

\* An answer to submissions that were not begun, or one that is no refusal.
LEMMA AnsweredUnspoilt ==
    ASSUME NEW ans, NEW q, NEW started, Unspoilt(ans, q, started),
           NEW set, NEW a \in Answers \ {"none", "pending"},
           a \in Refusals => set \cap started = {}
    PROVE  Unspoilt(Answered(ans, set, a), q, started)
<1>1. Answered(ans, set, a) \in [Items -> Answers]
  BY DEF Unspoilt, Answered
<1>2. \A i \in Items : Answered(ans, set, a)[i] =
                         IF i \in set /\ ans[i] = "pending" THEN a ELSE ans[i]
  BY DEF Answered
<1>3. "none" \notin Refusals
  BY DEF Refusals
<1> QED
  BY <1>1, <1>2, <1>3 DEF Unspoilt

\* Fewer entries wait.
LEMMA ShorterUnspoilt ==
    ASSUME NEW ans, NEW q, NEW started, Unspoilt(ans, q, started),
           NEW rest \in Seq(Items), NoRepeats(rest), Members(rest) \subseteq Members(q)
    PROVE  Unspoilt(ans, rest, started)
BY DEF Unspoilt

\* A pending submission that does not wait in the queue begins.
LEMMA BegunUnspoilt ==
    ASSUME NEW ans, NEW q, NEW started, Unspoilt(ans, q, started),
           NEW i \in Items, ans[i] = "pending", i \notin Members(q)
    PROVE  Unspoilt(ans, q, started \cup {i})
<1>1. "pending" \notin Refusals
  BY DEF Refusals
<1> QED
  BY <1>1 DEF Unspoilt

LEMMA StartUnspoilt ==
    ASSUME NEW i \in Items, NEW ans, NEW rest, Unspoilt(ans, rest, begun),
           ans[i] = "pending", i \notin Members(rest), Start(i, ans, rest)
    PROVE  RefusalInv'
<1>1. answer' = ans /\ queue' = rest /\ begun' = begun \cup {i}
  BY DEF Start
<1>2. worker' = [step |-> "waiting", items |-> {i}, cancelled |-> FALSE]
  BY DEF Start, Working
<1>3. worker'.items = {i} /\ worker'.step = "waiting"
  BY <1>2
<1>4. Unspoilt(ans, rest, begun \cup {i})
  BY BegunUnspoilt
<1>5. Newcomers'
  BY <1>1, <1>3 DEF Newcomers
<1> QED
  BY <1>1, <1>4, <1>5 DEF RefusalInv

LEMMA FinishUnspoilt ==
    ASSUME NEW ans, NEW rest, Unspoilt(ans, rest, begun), Finish(ans, rest)
    PROVE  RefusalInv'
<1>1. /\ answer' = Answered(ans, Members(rest), "held")
      /\ queue' = <<>> /\ begun' = begun
  BY DEF Finish, Members
<1>2. worker' = [step |-> "ended", items |-> {}, cancelled |-> FALSE]
  BY DEF Finish, Ended
<1>3. worker'.items = {} /\ worker'.step = "ended"
  BY <1>2
<1>4. Unspoilt(Answered(ans, Members(rest), "held"), rest, begun)
  <2>1. Members(rest) \cap begun = {}
    BY DEF Unspoilt
  <2>2. "held" \in Answers \ {"none", "pending"}
    BY DEF Answers, Refusals
  <2> QED
    BY <2>1, <2>2, AnsweredUnspoilt
<1>5. /\ <<>> \in Seq(Items) /\ NoRepeats(<<>>) /\ Members(<<>>) = {}
  BY EmptySeq DEF NoRepeats, Members
<1>6. Unspoilt(Answered(ans, Members(rest), "held"), <<>>, begun)
  BY <1>4, <1>5, ShorterUnspoilt
<1>7. Newcomers'
  BY <1>3 DEF Newcomers
<1> QED
  BY <1>1, <1>6, <1>7 DEF RefusalInv

LEMMA ProceedUnspoilt ==
    ASSUME NEW ans, NEW executed, Unspoilt(ans, queue, begun), Proceed(ans, executed)
    PROVE  RefusalInv'
<1>1. CASE Finish(ans, queue)
  BY <1>1, FinishUnspoilt
<1>2. ASSUME NEW k \in 0..Len(queue) PROVE Unspoilt(Passed(ans, k), queue, begun)
  <2> DEFINE set == {queue[n] : n \in 1..k}
  <2>1. set \subseteq Members(queue)
    BY DEF Unspoilt, Members
  <2>2. set \cap begun = {}
    BY <2>1 DEF Unspoilt
  <2>3. "queue_timeout" \in Answers \ {"none", "pending"}
    BY DEF Answers, Refusals
  <2> QED
    BY <2>2, <2>3, AnsweredUnspoilt DEF Passed
<1>3. ASSUME NEW k \in 1..Len(queue), NEW rest, rest = SubSeq(queue, k + 1, Len(queue))
      PROVE  /\ rest \in Seq(Items) /\ NoRepeats(rest) /\ Members(rest) \subseteq Members(queue)
             /\ queue[k] \notin Members(rest)
  BY <1>3, TailOfQueue DEF Unspoilt
<1>4. ASSUME NEW k \in 1..Len(queue), NEW rest, rest = SubSeq(queue, k + 1, Len(queue)),
             Finish(Passed(ans, k), rest)
      PROVE  RefusalInv'
  <2>1. Unspoilt(Passed(ans, k), queue, begun)
    <3>1. k \in 0..Len(queue)
      OBVIOUS
    <3> QED
      BY <1>2, <3>1
  <2>2. /\ rest \in Seq(Items) /\ NoRepeats(rest) /\ Members(rest) \subseteq Members(queue)
    BY <1>3, <1>4
  <2>3. Unspoilt(Passed(ans, k), rest, begun)
    BY <2>1, <2>2, ShorterUnspoilt
  <2> QED
    BY <1>4, <2>3, FinishUnspoilt
<1>5. ASSUME NEW k \in 1..Len(queue), NEW rest, rest = SubSeq(queue, k + 1, Len(queue)),
             ans[queue[k]] = "pending", Start(queue[k], Passed(ans, k - 1), rest)
      PROVE  RefusalInv'
  <2>1. k - 1 \in 0..Len(queue) /\ queue[k] \in Items
    BY DEF Unspoilt
  <2>2. Unspoilt(Passed(ans, k - 1), rest, begun)
    BY <1>2, <1>3, <1>5, <2>1, ShorterUnspoilt
  <2>3. queue[k] \notin {queue[n] : n \in 1..k - 1}
    BY DEF Unspoilt, NoRepeats
  <2>4. Passed(ans, k - 1)[queue[k]] = "pending"
    BY <1>5, <2>1, <2>3 DEF Passed, Answered
  <2> QED
    BY <1>3, <1>5, <2>1, <2>2, <2>4, StartUnspoilt
<1> QED
  BY <1>1, <1>4, <1>5 DEF Proceed

\* A step that moves neither the worker nor the queue, and answers only submissions
\* that have not begun.
LEMMA RefusalFrame ==
    ASSUME RefusalInv, UNCHANGED <<queue, begun>>, worker'.items = worker.items,
           worker'.step = worker.step, Unspoilt(answer, queue, begun)',
           \A i \in Items : answer[i] # "none" => answer'[i] # "none"
    PROVE  RefusalInv'
<1>1. worker.items \subseteq Items
  BY DEF RefusalInv, Newcomers
<1> QED
  BY <1>1 DEF RefusalInv, Newcomers, Queued

LEMMA SubmitUnspoilt ==
    ASSUME RefusalInv, NEW i \in Items, Submit(i)
    PROVE  RefusalInv'
<1>1. /\ answer[i] = "none" /\ i \notin Queued /\ i \notin begun /\ begun' = begun
      /\ i \notin worker.items
      /\ queue \in Seq(Items) /\ NoRepeats(queue) /\ Unspoilt(answer, queue, begun)
  BY MembersOfQueue DEF Submit, RefusalInv, Unspoilt, Newcomers
<1>2. Waiting \in Seq(Items) /\ NoRepeats(Waiting) /\ Members(Waiting) \subseteq Queued
  BY <1>1, WaitingFilters
<1>3. ASSUME NEW a \in Answers \ {"none"}
      PROVE  Unspoilt([answer EXCEPT ![i] = a], queue, begun)
  BY <1>1 DEF Unspoilt
<1>4. ASSUME NEW a \in Answers \ {"none"}
      PROVE  Unspoilt([answer EXCEPT ![i] = a], Waiting, begun)
  BY <1>2, <1>3, MembersOfQueue, ShorterUnspoilt
<1>5. /\ "pending" \in Answers \ {"none"} /\ "busy" \in Answers \ {"none"}
      /\ "held" \in Answers \ {"none"}
  BY DEF Answers, Refusals
<1>6. ASSUME NEW a \in Answers \ {"none"}, NEW rest \in {queue, Waiting}, Refuse(i, a, rest)
      PROVE  RefusalInv'
  <2>1. Unspoilt(answer', queue', begun')
    BY <1>1, <1>3, <1>4, <1>6 DEF Refuse
  <2>2. Members(rest) \subseteq Queued
    BY <1>2, <1>6, MembersOfQueue
  <2>3. Queued' = Members(rest)
    BY <1>6 DEF Refuse, Queued, Members
  <2>4. Newcomers'
    BY <1>1, <1>6, <2>2, <2>3 DEF Refuse, RefusalInv, Newcomers, Unspoilt
  <2> QED
    BY <2>1, <2>4 DEF RefusalInv
<1>7. CASE Employ(i, Waiting)
  <2>1. Unspoilt(answer', queue', begun')
    BY <1>1, <1>4, <1>5, <1>7 DEF Employ
  <2>2. worker' = [step |-> "created", items |-> {i}, cancelled |-> FALSE]
    BY <1>7 DEF Employ, Working
  <2>3. worker'.step = "created" /\ worker'.items = {i}
    BY <2>2
  <2>4. Queued' = Members(Waiting)
    BY <1>7 DEF Employ, Queued, Members
  <2>5. answer'[i] = "pending"
    BY <1>1, <1>7 DEF Employ, Unspoilt
  <2>6. Newcomers'
    BY <1>1, <1>2, <2>3, <2>4, <2>5 DEF Newcomers
  <2> QED
    BY <2>1, <2>6 DEF RefusalInv
<1>8. CASE Enqueue(i, Waiting)
  <2> DEFINE longer == Append(Waiting, i)
  <2>1. /\ longer \in Seq(Items) /\ Len(longer) = Len(Waiting) + 1 /\ Len(Waiting) \in Nat
        /\ \A n \in 1..Len(Waiting) : longer[n] = Waiting[n]
        /\ longer[Len(Waiting) + 1] = i
    BY <1>2, AppendProperties
  <2> HIDE DEF longer
  <2>2. Members(longer) = Members(Waiting) \cup {i}
    BY <2>1 DEF Members
  <2>3. i \notin Members(Waiting)
    BY <1>1, <1>2
  <2>4. NoRepeats(longer)
    BY <1>2, <2>1, <2>3 DEF NoRepeats, Members
  <2>5. answer' = [answer EXCEPT ![i] = "pending"] /\ queue' = longer /\ worker' = worker
    BY <1>8 DEF Enqueue, longer
  <2>6. Unspoilt(answer', Waiting, begun)
    BY <1>4, <1>5, <2>5
  <2>7. answer'[i] = "pending" /\ "pending" \notin Refusals
    BY <1>1, <2>5 DEF Unspoilt, Refusals
  <2>8. Unspoilt(answer', longer, begun)
    BY <1>1, <2>1, <2>2, <2>4, <2>6, <2>7 DEF Unspoilt
  <2>9. Queued' = Members(longer)
    BY <2>5 DEF Queued, Members
  <2>10. Newcomers'
    BY <1>1, <1>2, <2>2, <2>5, <2>9 DEF RefusalInv, Newcomers, Unspoilt
  <2> QED
    BY <1>1, <2>5, <2>8, <2>10 DEF RefusalInv
<1> QED
  BY <1>5, <1>6, <1>7, <1>8 DEF Submit

LEMMA TurnUnspoilt ==
    ASSUME RefusalInv, Turn
    PROVE  RefusalInv'
<1>1. PICK i \in worker.items :
          Begin(i) \/ Settle(i) \/ Overrun(i) \/ CleanedUp(i) \/ GiveUp(i) \/ Cancelled(i)
  BY DEF Turn
<1>2. i \in Items /\ Unspoilt(answer, queue, begun)
  BY DEF RefusalInv, Newcomers
<1>3. ASSUME NEW a \in {"result", "timeout", "cancelled"}
      PROVE  Unspoilt(Answered(answer, {i}, a), queue, begun)
  <2>1. a \in Answers \ {"none", "pending"} /\ a \notin Refusals
    BY DEF Answers, Refusals
  <2> QED
    BY <1>2, <2>1, AnsweredUnspoilt
<1>4. CASE Begin(i)
  <2>1. i \notin Members(queue)
    BY <1>4, MembersOfQueue DEF Begin, RefusalInv, Newcomers
  <2>2. CASE Pending(i) /\ Start(i, answer, queue)
    BY <1>2, <2>1, <2>2, StartUnspoilt DEF Pending
  <2> QED
    BY <1>2, <1>3, <1>4, <2>2, ProceedUnspoilt DEF Begin
<1>5. CASE Settle(i) \/ CleanedUp(i)
  BY <1>3, <1>5, ProceedUnspoilt DEF Settle, CleanedUp
<1>6. CASE Overrun(i)
  <2>1. worker' = [step |-> "cleaning", items |-> {i}, cancelled |-> FALSE]
    BY <1>6 DEF Overrun, Working
  <2>2. worker'.step = "cleaning" /\ worker'.items = {i}
    BY <2>1
  <2>3. i \in begun /\ answer[i] # "none"
    BY <1>6 DEF Overrun, RefusalInv, Newcomers
  <2>4. UNCHANGED <<answer, queue, begun>>
    BY <1>6 DEF Overrun
  <2>5. Newcomers'
    BY <1>2, <2>2, <2>3, <2>4 DEF Newcomers
  <2> QED
    BY <1>2, <2>4, <2>5 DEF RefusalInv
<1>7. CASE GiveUp(i)
  BY <1>3, <1>7, FinishUnspoilt DEF GiveUp
<1>8. CASE Cancelled(i)
  <2>1. CASE worker' = Ended /\ UNCHANGED <<answer, queue, begun>>
    <3>1. worker' = [step |-> "ended", items |-> {}, cancelled |-> FALSE]
      BY <2>1 DEF Ended
    <3>2. worker'.step = "ended" /\ worker'.items = {}
      BY <3>1
    <3>3. Newcomers'
      BY <3>2 DEF Newcomers
    <3> QED
      BY <1>2, <2>1, <3>3 DEF RefusalInv
  <2>2. CASE Finish(Answered(answer, {i}, "cancelled"), queue)
    BY <1>3, <2>2, FinishUnspoilt
  <2> QED
    BY <1>8, <2>1, <2>2 DEF Cancelled
<1> QED
  BY <1>1, <1>4, <1>5, <1>6, <1>7, <1>8

(***************************************************************************)
(* Results                                                                 *)
(***************************************************************************)

\* The inductive invariant: who may still have an operation running.
THEOREM LaneInvariant == Spec => []LaneInv
<1>1. Init => LaneInv
  <2> SUFFICES ASSUME Init PROVE LaneInv
    OBVIOUS
  <2>1. /\ worker = [step |-> "ended", items |-> {}, cancelled |-> FALSE]
        /\ worker.step = "ended" /\ worker.cancelled = FALSE
        /\ ops = {} /\ failed = FALSE /\ closed = FALSE
    BY DEF Init, Ended
  <2>2. WorkerShape /\ worker.step \in WorkerSteps
    BY <2>1 DEF WorkerShape, WorkerSteps
  <2>3. AtMostOne /\ CreatedHasNone /\ BusyOwnsIt /\ GoneIsShut /\ CancelledByClose
    BY <2>1 DEF AtMostOne, CreatedHasNone, BusyOwnsIt, GoneIsShut, CancelledByClose
  <2> QED
    BY <2>1, <2>2, <2>3 DEF LaneInv
<1>2. LaneInv /\ [Next]_laneVars => LaneInv'
  <2> SUFFICES ASSUME LaneInv, [Next]_laneVars PROVE LaneInv'
    OBVIOUS
  <2>1. failed \in BOOLEAN /\ closed \in BOOLEAN
    BY DEF LaneInv
  <2>2. CASE UNCHANGED laneVars
    BY <2>1, <2>2, LaneFrame DEF laneVars
  <2>3. ASSUME NEW i \in Items, Submit(i) PROVE LaneInv'
    BY <2>3, SubmitKeeps
  <2>4. ASSUME NEW i \in Items, Withdraw(i) \/ Expire(i) \/ OperationEnds(i) PROVE LaneInv'
    BY <2>1, <2>4, LaneFrame DEF Withdraw, Expire, OperationEnds
  <2>5. CASE Turn
    BY <2>5, TurnKeeps
  <2>6. CASE Close
    BY <2>6, CloseKeeps
  <2>7. CASE CloseGoesOn
    BY <2>1, <2>7, LaneFrame DEF CloseGoesOn, WorkerGone, OperationGone
  <2> QED
    BY <2>2, <2>3, <2>4, <2>5, <2>6, <2>7 DEF Next
<1> QED
  BY <1>1, <1>2, PTL DEF Spec

\* No external effect of the bridge runs beside another one.
THEOREM EffectsNeverOverlap == Spec => []OneOperation
<1>1. LaneInv => OneOperation
  <2> SUFFICES ASSUME LaneInv PROVE Cardinality(ops) <= 1
    BY DEF OneOperation
  <2>1. PICK i : ops \subseteq {i}
    BY DEF LaneInv, AtMostOne
  <2>2. ops = {} \/ ops = {i}
    BY <2>1
  <2>3. Cardinality({}) = 0 /\ Cardinality({i}) = 1
    BY FS_EmptySet, FS_Singleton
  <2> QED
    BY <2>2, <2>3
<1> QED
  BY <1>1, LaneInvariant, PTL

\* The execution of a job is not declared finished while one of its effects runs
\* or may still start: has_job_work tells of each, the effect of a lane that was
\* given up or closed included.
THEOREM EffectsOfJobsAreSeen == Spec => []JobWorkIsVisible
<1>1. Init => JobIsNamed
  <2> SUFFICES ASSUME Init PROVE JobIsNamed
    OBVIOUS
  <2>1. worker = [step |-> "ended", items |-> {}, cancelled |-> FALSE] /\ ops = {}
    BY DEF Init, Ended
  <2>2. worker.items = {}
    BY <2>1
  <2> QED
    BY <2>1, <2>2 DEF JobIsNamed
<1>2. LaneInv /\ JobIsNamed /\ [Next]_laneVars => JobIsNamed'
  <2> SUFFICES ASSUME LaneInv, JobIsNamed, [Next]_laneVars PROVE JobIsNamed'
    OBVIOUS
  <2>1. CASE ops' \subseteq ops /\ UNCHANGED <<worker, activeJob>>
    BY <2>1 DEF JobIsNamed
  <2>2. CASE UNCHANGED laneVars
    BY <2>1, <2>2 DEF laneVars
  <2>3. ASSUME NEW i \in Items, Submit(i) PROVE JobIsNamed'
    BY <2>3, SubmitNames
  <2>4. ASSUME NEW i \in Items, Withdraw(i) \/ Expire(i) \/ OperationEnds(i) PROVE JobIsNamed'
    BY <2>1, <2>4 DEF Withdraw, Expire, OperationEnds
  <2>5. CASE Turn
    BY <2>5, TurnNames
  <2>6. CASE Close
    BY <2>6, CloseNames
  <2>7. CASE CloseGoesOn
    BY <2>1, <2>7 DEF CloseGoesOn, WorkerGone, OperationGone
  <2> QED
    BY <2>2, <2>3, <2>4, <2>5, <2>6, <2>7 DEF Next
<1>3. JobIsNamed => JobWorkIsVisible
  <2> SUFFICES ASSUME JobIsNamed, NEW i \in Items,
                      i \in ops \/ (Pending(i) /\ i \in Queued \cup worker.items)
               PROVE  HasJobWork(JobOf[i])
    BY DEF JobWorkIsVisible
  <2>1. CASE i \in ops \cup worker.items
    BY <2>1 DEF JobIsNamed, HasJobWork, Active
  <2>2. CASE Pending(i) /\ i \in Queued
    BY <2>2 DEF HasJobWork
  <2> QED
    BY <2>1, <2>2
<1> QED
  BY <1>1, <1>2, <1>3, LaneInvariant, PTL DEF Spec

\* An effect that was refused has not begun and never will.
THEOREM RefusedStayUnbegun == Spec => []RefusedNeverBegins
<1>1. Init => RefusalInv
  <2> SUFFICES ASSUME Init PROVE RefusalInv
    OBVIOUS
  <2>1. /\ answer = [i \in Items |-> "none"] /\ queue = <<>> /\ begun = {}
        /\ worker = [step |-> "ended", items |-> {}, cancelled |-> FALSE]
    BY DEF Init, Ended
  <2>2. worker.step = "ended" /\ worker.items = {}
    BY <2>1
  <2>3. queue \in Seq(Items) /\ NoRepeats(queue) /\ Members(queue) = {}
    BY <2>1, EmptySeq DEF NoRepeats, Members
  <2>4. answer \in [Items -> Answers] /\ \A i \in Items : answer[i] \notin Refusals
    BY <2>1 DEF Answers, Refusals
  <2> QED
    BY <2>1, <2>2, <2>3, <2>4 DEF RefusalInv, Unspoilt, Newcomers
<1>2. LaneInv /\ RefusalInv /\ [Next]_laneVars => RefusalInv'
  <2> SUFFICES ASSUME LaneInv, RefusalInv, [Next]_laneVars PROVE RefusalInv'
    OBVIOUS
  <2>1. CASE UNCHANGED <<answer, queue, begun, worker>>
    BY <2>1 DEF RefusalInv, Newcomers, Queued
  <2>2. CASE UNCHANGED laneVars
    BY <2>1, <2>2 DEF laneVars
  <2>3. ASSUME NEW i \in Items, Submit(i) PROVE RefusalInv'
    BY <2>3, SubmitUnspoilt
  <2>4. ASSUME NEW i \in Items, Withdraw(i) \/ Expire(i) PROVE RefusalInv'
    <3>1. PICK a \in {"withdrawn", "queue_timeout"} : answer' = [answer EXCEPT ![i] = a]
      BY <2>4 DEF Withdraw, Expire
    <3>2. answer[i] = "pending" /\ i \notin begun /\ UNCHANGED <<queue, begun, worker>>
      BY <2>4, MembersOfQueue DEF Withdraw, Expire, Pending, RefusalInv, Unspoilt
    <3>3. a \in Answers /\ a # "none"
      BY DEF Answers, Refusals
    <3>4. Unspoilt(answer', queue, begun)
      BY <3>1, <3>2, <3>3 DEF RefusalInv, Unspoilt
    <3>5. \A k \in Items : answer[k] # "none" => answer'[k] # "none"
      BY <3>1, <3>2, <3>3 DEF RefusalInv, Unspoilt
    <3> QED
      BY <3>2, <3>4, <3>5, RefusalFrame
  <2>5. ASSUME NEW i \in Items, OperationEnds(i) PROVE RefusalInv'
    BY <2>1, <2>5 DEF OperationEnds
  <2>6. CASE Turn
    BY <2>6, TurnUnspoilt
  <2>7. CASE Close
    <3>1. /\ UNCHANGED <<answer, queue, begun>>
          /\ worker' = [worker EXCEPT !.cancelled = worker.step # "ended"]
          /\ worker = [step |-> worker.step, items |-> worker.items,
                        cancelled |-> worker.cancelled]
      BY <2>7 DEF Close, LaneInv, WorkerShape
    <3>2. worker' = [step |-> worker.step, items |-> worker.items,
                     cancelled |-> worker.step # "ended"]
      BY <3>1
    <3>3. worker'.step = worker.step /\ worker'.items = worker.items
      BY <3>2
    <3> QED
      BY <3>1, <3>3, RefusalFrame DEF RefusalInv
  <2>8. CASE CloseGoesOn
    BY <2>1, <2>8 DEF CloseGoesOn, WorkerGone, OperationGone
  <2> QED
    BY <2>2, <2>3, <2>4, <2>5, <2>6, <2>7, <2>8 DEF Next
<1>3. RefusalInv => RefusedNeverBegins
  BY DEF RefusalInv, Unspoilt, RefusedNeverBegins
<1> QED
  BY <1>1, <1>2, <1>3, LaneInvariant, PTL DEF Spec
=============================================================================
