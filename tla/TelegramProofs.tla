--------------------------- MODULE TelegramProofs ---------------------------
(***************************************************************************)
(* What holds of TelegramInbox for any clients, messages, requests and     *)
(* effects, and for any caller; that the callers of TelegramTurns are such *)
(* callers; and what holds of its turns, its sends and its answers.        *)
(***************************************************************************)
EXTENDS TelegramTurns, TLAPS

USE DEF Live, Active, Over, JobStates, Proofs, Phases

\* A client's revision going up leaves the rows of the jobs what they are.
LEMMA BehindType ==
    ASSUME NEW js \in [Jobs -> JobRow], NEW p
    PROVE  Behind(js, p) \in [Jobs -> JobRow]
<1>1. ASSUME NEW j \in Jobs PROVE [js[j] EXCEPT !.current = FALSE] \in JobRow
  <2>1. js[j] \in JobRow
    OBVIOUS
  <2> QED
    BY <2>1 DEF JobRow
<1> QED
  BY <1>1 DEF Behind

\* Detaching and releasing leave events events and jobs jobs.
LEMMA DetachedType ==
    ASSUME NEW es \in [Events -> EventRow], NEW S
    PROVE  Detached(es, S) \in [Events -> EventRow]
BY DEF Detached, EventRow

LEMMA ReleasedType ==
    ASSUME NEW js \in [Jobs -> JobRow], NEW S
    PROVE  Released(js, S) \in [Jobs -> JobRow]
BY DEF Released, JobRow

LEMMA InitType == InboxInit => InboxTypeOK
<1>1. NoEvent \in EventRow
  BY DEF NoEvent, EventRow
<1>2. UnusedJob \in JobRow
  BY DEF UnusedJob, JobRow
<1>3. NoEffect \in EffectRow
  BY DEF NoEffect, EffectRow
<1>4. FreeSlot \in [job : Jobs \cup {NoJob}, phase : Phases]
  BY DEF FreeSlot
<1> SUFFICES ASSUME InboxInit PROVE InboxTypeOK
  OBVIOUS
<1> USE DEF InboxInit
<1>5. /\ event \in [Events -> EventRow] /\ job \in [Jobs -> JobRow]
      /\ effect \in [Effects -> EffectRow]
  BY <1>1, <1>2, <1>3
<1>6. slot \in [job : Jobs \cup {NoJob}, phase : Phases]
  BY <1>4
<1>7. /\ thread \in [Peers -> {"none", "creating", "ready", "creation_unknown"}]
      /\ control \in [Peers -> {"active", "paused", "human_takeover"}]
  OBVIOUS
<1>8. duty \in {"never", "on", "off"} /\ paused \in BOOLEAN
  BY Zenon
<1> QED
  BY <1>5, <1>6, <1>7, <1>8 DEF InboxTypeOK

\* The calls about a client keep every row a row.
LEMMA PeerCallType == InboxTypeOK /\ PeerCall => InboxTypeOK'
<1> SUFFICES ASSUME InboxTypeOK, PeerCall PROVE InboxTypeOK'
  OBVIOUS
<1> USE DEF InboxTypeOK
<1>0. PICK p \in Peers :
        \/ \E e \in Events : Record(p, e) \/ \E j \in Jobs : RecordHeld(p, e, j)
        \/ \E es \in SUBSET Events : InvalidateContext(p, es) \/ \E j \in Jobs : Claim(j, p, es)
        \/ ObserveOutgoing(p) \/ Guide(p) \/ ForgetMissingThread(p)
        \/ \E c \in {"active", "paused", "human_takeover"} : SetClientControl(p, c)
  BY DEF PeerCall
<1>1. ASSUME NEW e \in Events, Record(p, e) PROVE InboxTypeOK'
  BY <1>1, BehindType, DetachedType DEF Record, Arrives, EventRow
<1>2. ASSUME NEW e \in Events, NEW j \in Jobs, RecordHeld(p, e, j) PROVE InboxTypeOK'
  <2>1. [UnusedJob EXCEPT !.peer = p, !.state = "needs_review", !.proof = "not_started",
                          !.current = TRUE] \in JobRow
    BY DEF UnusedJob, JobRow
  <2>2. job' \in [Jobs -> JobRow]
    BY <1>2, <2>1, BehindType DEF RecordHeld
  <2>3. event' \in [Events -> EventRow]
    BY <1>2, DetachedType DEF RecordHeld, Arrives, EventRow
  <2>4. UNCHANGED <<effect, slot, thread, control, duty, paused>>
    BY <1>2 DEF RecordHeld, Arrives
  <2> QED
    BY <2>2, <2>3, <2>4
<1>3. ASSUME NEW es \in SUBSET Events, InvalidateContext(p, es) PROVE InboxTypeOK'
  <2>1. ASSUME NEW f \in Effects PROVE [effect[f] EXCEPT !.exact = FALSE] \in EffectRow
    <3>1. effect[f] \in EffectRow
      OBVIOUS
    <3> QED
      BY <3>1 DEF EffectRow
  <2>2. effect' \in [Effects -> EffectRow]
    BY <1>3, <2>1 DEF InvalidateContext
  <2>3. job' \in [Jobs -> JobRow]
    BY <1>3, BehindType DEF InvalidateContext
  <2> QED
    BY <1>3, <2>2, <2>3 DEF InvalidateContext
<1>4. ASSUME NEW es \in SUBSET Events, NEW j \in Jobs, Claim(j, p, es) PROVE InboxTypeOK'
  <2>1. [UnusedJob EXCEPT !.peer = p, !.state = "claimed", !.current = TRUE, !.granted = TRUE]
            \in JobRow
    BY DEF UnusedJob, JobRow
  <2>2. job' \in [Jobs -> JobRow] /\ event' \in [Events -> EventRow]
    BY <1>4, <2>1 DEF Claim, EventRow
  <2> QED
    BY <1>4, <2>2 DEF Claim
<1>5. CASE ObserveOutgoing(p)
  BY <1>5, BehindType DEF ObserveOutgoing
<1>6. ASSUME NEW c \in {"active", "paused", "human_takeover"}, SetClientControl(p, c)
      PROVE InboxTypeOK'
  <2> DEFINE W == Releasable(job, control', p)
  <2>1. job' = Released(Behind(job, p), W) /\ event' = Detached(event, W)
    BY <1>6 DEF SetClientControl
  <2>2. job' \in [Jobs -> JobRow] /\ event' \in [Events -> EventRow]
    <3> HIDE DEF W
    <3> QED BY <2>1, BehindType, ReleasedType, DetachedType
  <2> QED
    BY <1>6, <2>2 DEF SetClientControl
<1>7. CASE Guide(p)
  BY <1>7, BehindType DEF Guide
<1>8. CASE ForgetMissingThread(p)
  BY <1>8 DEF ForgetMissingThread, SetThread
<1> QED
  BY <1>0, <1>1, <1>2, <1>3, <1>4, <1>5, <1>6, <1>7, <1>8

\* The calls that start, stop and settle an execution keep every row a row.
LEMMA ExecutionCallType == InboxTypeOK /\ ExecutionCall => InboxTypeOK'
<1> SUFFICES ASSUME InboxTypeOK, ExecutionCall PROVE InboxTypeOK'
  OBVIOUS
<1> USE DEF InboxTypeOK
<1>0. PICK j \in Jobs :
        \/ PreparePeerThread(j) \/ BindPeerThread(j) \/ BindReviewedThread(j)
        \/ ReplaceMissingThread(j) \/ MarkThreadUnknown(j)
        \/ StartIntent(j) \/ BindTurn(j) \/ DeadlinePasses(j)
        \/ \E k \in {"start_rejected", "not_started", "terminal"}, proof \in Proofs :
              FinishManual(j, k, proof) \/ FinishExecution(j, k, proof)
        \/ ReleaseJob(j) \/ NeedsReview(j) \/ DeferFailed(j)
        \/ ContinueBoundTurn(j) \/ RetryNoEffects(j)
  BY DEF ExecutionCall
<1>a. job[j] \in JobRow
  OBVIOUS
<1>1. CASE PreparePeerThread(j) \/ BindPeerThread(j) \/ BindReviewedThread(j)
           \/ ReplaceMissingThread(j) \/ MarkThreadUnknown(j)
  BY <1>1 DEF PreparePeerThread, BindPeerThread, BindReviewedThread, ReplaceMissingThread,
              MarkThreadUnknown, SetThread
<1>2. CASE StartIntent(j)
  <2>1. [job[j] EXCEPT !.state = "start_intent", !.thread = TRUE] \in JobRow
    BY <1>a DEF JobRow
  <2> QED
    BY <1>2, <2>1 DEF StartIntent
<1>3. CASE BindTurn(j)
  <2> DEFINE state == IF job[j].state = "needs_review" THEN "needs_review" ELSE "running"
  <2>1. [job[j] EXCEPT !.turn = TRUE, !.state = state] \in JobRow
    BY <1>a DEF JobRow
  <2> QED
    BY <1>3, <2>1 DEF BindTurn
<1>4. CASE DeadlinePasses(j) \/ NeedsReview(j)
  <2>1. /\ [job[j] EXCEPT !.granted = FALSE] \in JobRow
        /\ [job[j] EXCEPT !.state = "needs_review"] \in JobRow
    BY <1>a DEF JobRow
  <2>2. CASE DeadlinePasses(j)
    BY <2>1, <2>2 DEF DeadlinePasses
  <2>3. CASE NeedsReview(j)
    BY <2>1, <2>3 DEF NeedsReview
  <2> QED
    BY <1>4, <2>2, <2>3
<1>5. ASSUME NEW k, NEW proof \in Proofs, FinishManual(j, k, proof) PROVE InboxTypeOK'
  <2>1. [job[j] EXCEPT !.state = "needs_review", !.manual = FALSE] \in JobRow
    BY <1>a DEF JobRow
  <2> QED
    BY <1>5, <2>1 DEF FinishManual, FreeSlot
<1>6. ASSUME NEW k, NEW proof \in Proofs, FinishExecution(j, k, proof) PROVE InboxTypeOK'
  <2> DEFINE st == [job EXCEPT ![j] = Stopped(j, proof)]
             W == Releasable(st, control, job[j].peer)
  <2>1. Stopped(j, proof) \in JobRow
    BY <1>a DEF Stopped, JobRow
  <2>2. st \in [Jobs -> JobRow]
    BY <2>1
  <2>3. job' = Released(st, W) /\ event' = Detached(event, W)
    BY <1>6 DEF FinishExecution
  <2>4. job' \in [Jobs -> JobRow] /\ event' \in [Events -> EventRow]
    <3> HIDE DEF W, st
    <3> QED BY <2>2, <2>3, ReleasedType, DetachedType
  <2>5. thread' \in [Peers -> {"none", "creating", "ready", "creation_unknown"}]
    BY <1>6 DEF FinishExecution
  <2>6. slot' \in [job : Jobs \cup {NoJob}, phase : Phases]
        /\ UNCHANGED <<effect, control, duty, paused>>
    BY <1>6 DEF FinishExecution, FreeSlot
  <2> QED
    BY <2>4, <2>5, <2>6
<1>7. CASE ReleaseJob(j)
  <2>0. [job[j] EXCEPT !.state = "needs_review", !.proof = "not_started"] \in JobRow
    BY <1>a DEF JobRow
  <2>1. job' \in [Jobs -> JobRow] /\ event' \in [Events -> EventRow]
    BY <1>7, <2>0, ReleasedType, DetachedType DEF ReleaseJob
  <2>2. thread' \in [Peers -> {"none", "creating", "ready", "creation_unknown"}]
    BY <1>7 DEF ReleaseJob
  <2>3. slot' \in [job : Jobs \cup {NoJob}, phase : Phases]
        /\ UNCHANGED <<effect, control, duty, paused>>
    BY <1>7 DEF ReleaseJob, FreeSlot
  <2> QED
    BY <2>1, <2>2, <2>3
<1>8. CASE DeferFailed(j)
  BY <1>8, DetachedType DEF DeferFailed, JobRow
<1>9. CASE ContinueBoundTurn(j)
  <2>1. [job[j] EXCEPT !.state = "running", !.granted = TRUE, !.manual = TRUE] \in JobRow
    BY <1>a DEF JobRow
  <2> QED
    BY <1>9, <2>1 DEF ContinueBoundTurn
<1>10. CASE RetryNoEffects(j)
  <2>1. NoEffect \in EffectRow
    BY DEF NoEffect, EffectRow
  <2>2. job' \in [Jobs -> JobRow]
    <3>1. [job[j] EXCEPT !.state = "released", !.granted = TRUE, !.manual = FALSE] \in JobRow
      BY <1>a DEF JobRow
    <3> QED
      BY <1>10, <3>1 DEF RetryNoEffects
  <2>3. event' \in [Events -> EventRow] /\ effect' \in [Effects -> EffectRow]
    BY <1>10, <2>1, DetachedType DEF RetryNoEffects
  <2> QED
    BY <1>10, <2>2, <2>3 DEF RetryNoEffects
<1> QED
  BY <1>0, <1>1, <1>2, <1>3, <1>4, <1>5, <1>6, <1>7, <1>8, <1>9, <1>10

\* The calls of the agent keep every row a row.
LEMMA AgentCallType == InboxTypeOK /\ AgentCall => InboxTypeOK'
<1> SUFFICES ASSUME InboxTypeOK, AgentCall PROVE InboxTypeOK'
  OBVIOUS
<1> USE DEF InboxTypeOK
<1>1. ASSUME NEW j \in Jobs, NEW es \in SUBSET Events, RefreshJob(j, es) PROVE InboxTypeOK'
  <2>1. NoEffect \in EffectRow
    BY DEF NoEffect, EffectRow
  <2>2. ASSUME NEW f \in Effects PROVE effect'[f] \in EffectRow
    <3>1. effect[f] \in EffectRow /\ job[j] \in JobRow
      OBVIOUS
    <3>2. [effect[f] EXCEPT !.same = effect[f].same /\ job[j].current] \in EffectRow
      BY <3>1, Zenon DEF EffectRow, JobRow
    <3> QED
      BY <1>1, <2>1, <3>1, <3>2 DEF RefreshJob
  <2>3. effect' \in [Effects -> EffectRow]
    BY <1>1, <2>2 DEF RefreshJob
  <2>4. job' \in [Jobs -> JobRow] /\ event' \in [Events -> EventRow]
    <3>1. job[j] \in JobRow /\ \A e \in Events : event[e] \in EventRow
      OBVIOUS
    <3>2. [job[j] EXCEPT !.current = TRUE] \in JobRow
      BY <3>1 DEF JobRow
    <3>3. \A e \in Events : [event[e] EXCEPT !.job = j] \in EventRow
      BY <3>1 DEF EventRow
    <3> QED
      BY <1>1, <3>2, <3>3 DEF RefreshJob
  <2> QED
    BY <1>1, <2>3, <2>4 DEF RefreshJob
<1>2. ASSUME NEW j \in Jobs, NEW f \in Effects, NEW k \in Kinds, ReserveEffect(j, f, k)
      PROVE InboxTypeOK'
  <2>1. [job |-> j, kind |-> k, about |-> Of(j), exact |-> TRUE, same |-> TRUE,
         state |-> "reserved"] \in EffectRow
    BY DEF EffectRow, Of
  <2> QED
    BY <1>2, <2>1 DEF ReserveEffect
<1>3. ASSUME NEW j \in Jobs, NEW o \in Outcomes, Result(j, o) PROVE InboxTypeOK'
  <2>1. ASSUME NEW closed \in {"reply_verified", "no_reply_needed"}, Complete(j, closed)
        PROVE  job' \in [Jobs -> JobRow] /\ event' \in [Events -> EventRow]
    <3>1. job[j] \in JobRow /\ \A e \in Events : event[e] \in EventRow
      OBVIOUS
    <3>2. [job[j] EXCEPT !.state = "completed"] \in JobRow
      BY <3>1 DEF JobRow
    <3>3. \A e \in Events : [event[e] EXCEPT !.state = closed] \in EventRow
      BY <3>1 DEF EventRow
    <3> QED
      BY <2>1, <3>2, <3>3 DEF Complete
  <2>2. job' \in [Jobs -> JobRow] /\ event' \in [Events -> EventRow]
    <3>1. CASE \E closed \in {"reply_verified", "no_reply_needed"} : Complete(j, closed)
      BY <3>1, <2>1
    <3>2. CASE job' = [job EXCEPT ![j].state = "waiting_control"] /\ UNCHANGED event
      <4>1. job[j] \in JobRow
        OBVIOUS
      <4>2. [job[j] EXCEPT !.state = "waiting_control"] \in JobRow
        BY <4>1 DEF JobRow
      <4> QED
        BY <3>2, <4>2
    <3> QED
      BY <1>3, <3>1, <3>2 DEF Result
  <2>3. slot' \in [job : Jobs \cup {NoJob}, phase : Phases]
        /\ UNCHANGED <<effect, thread, control, duty, paused>>
    BY <1>3 DEF Result, FreeSlot
  <2> QED
    BY <2>2, <2>3
<1>4. ASSUME NEW f \in Effects, MarkEffectIntent(f) \/ VerifyEffect(f) PROVE InboxTypeOK'
  <2>1. effect[f] \in EffectRow
    OBVIOUS
  <2>2. /\ [effect[f] EXCEPT !.state = "attempted"] \in EffectRow
        /\ [effect[f] EXCEPT !.state = "verified"] \in EffectRow
    BY <2>1 DEF EffectRow
  <2> QED
    BY <1>4, <2>2 DEF MarkEffectIntent, VerifyEffect
<1> QED
  BY <1>1, <1>2, <1>3, <1>4 DEF AgentCall

\* The rows stay rows, whoever calls.
THEOREM TypeCorrect == InboxSpec => []InboxTypeOK
<1>1. InboxTypeOK /\ [InboxNext]_inboxVars => InboxTypeOK'
  <2> SUFFICES ASSUME InboxTypeOK, [InboxNext]_inboxVars PROVE InboxTypeOK'
    OBVIOUS
  <2>1. CASE PeerCall
    BY <2>1, PeerCallType
  <2>2. CASE ExecutionCall
    BY <2>2, ExecutionCallType
  <2>3. CASE AgentCall
    BY <2>3, AgentCallType
  <2>4. ASSUME NEW on \in BOOLEAN, DutySet(on) PROVE InboxTypeOK'
    BY <2>4, Zenon DEF DutySet, InboxTypeOK
  <2>5. ASSUME NEW on \in BOOLEAN, SetExecutionPaused(on) PROVE InboxTypeOK'
    <3>1. ASSUME NEW i \in Jobs PROVE [job[i] EXCEPT !.granted = FALSE] \in JobRow
      <4>1. job[i] \in JobRow
        BY DEF InboxTypeOK
      <4> QED
        BY <4>1 DEF JobRow
    <3>2. job' \in [Jobs -> JobRow]
      BY <2>5, <3>1 DEF SetExecutionPaused
    <3> QED
      BY <2>5, <3>2, Zenon DEF SetExecutionPaused, InboxTypeOK
  <2>6. CASE UNCHANGED inboxVars
    BY <2>6 DEF inboxVars, InboxTypeOK
  <2> QED
    BY <2>1, <2>2, <2>3, <2>4, <2>5, <2>6 DEF InboxNext
<1> QED
  BY <1>1, InitType, PTL DEF InboxSpec

-----------------------------------------------------------------------------
(* What the helpers do to the columns the invariants speak of *)

LEMMA BehindStates ==
    ASSUME NEW js \in [Jobs -> JobRow], NEW p, NEW j \in Jobs
    PROVE  /\ Behind(js, p)[j].state = js[j].state /\ Behind(js, p)[j].peer = js[j].peer
           /\ Behind(js, p)[j].proof = js[j].proof /\ Behind(js, p)[j].manual = js[j].manual
BY DEF Behind, JobRow

LEMMA ReleasedStates ==
    ASSUME NEW js \in [Jobs -> JobRow], NEW S, NEW j \in Jobs
    PROVE  /\ Released(js, S)[j].state = IF j \in S THEN "released" ELSE js[j].state
           /\ Released(js, S)[j].peer = js[j].peer
           /\ Released(js, S)[j].proof = js[j].proof /\ Released(js, S)[j].manual = js[j].manual
BY DEF Released, JobRow

LEMMA DetachedStates ==
    ASSUME NEW es \in [Events -> EventRow], NEW S, NEW e \in Events
    PROVE  /\ Detached(es, S)[e].state = es[e].state /\ Detached(es, S)[e].peer = es[e].peer
           /\ Detached(es, S)[e].job = IF es[e].job \in S /\ es[e].state = "open"
                                       THEN NoJob ELSE es[e].job
BY DEF Detached, EventRow

\* A message is assigned to a request that is in use.
EventsHaveJobs == \A e \in Events : event[e].job # NoJob => job[event[e].job].state # "none"

\* A recovery in the slot is under way or in review, and its turn has a proof.
ManualInSlot ==
    slot.phase = "manual" =>
        /\ slot.job \in Jobs /\ job[slot.job].state \in {"running", "needs_review"}
        /\ job[slot.job].proof # "none" /\ job[slot.job].manual

Inv == InboxTypeOK /\ ManualInSlot /\ LiveJobHoldsSlot /\ EventsFollowJobs /\ EventsHaveJobs

\* What the invariant says of the messages and the requests that hold them.
Order == LiveJobHoldsSlot /\ EventsFollowJobs /\ EventsHaveJobs

\* No call ends a recovery and leaves it in the slot.
LEMMA ManualStep == InboxTypeOK /\ ManualInSlot /\ InboxNext => ManualInSlot'
<1> SUFFICES ASSUME InboxTypeOK, ManualInSlot, InboxNext, slot'.phase = "manual"
             PROVE  /\ slot'.job \in Jobs /\ job'[slot'.job].state \in {"running", "needs_review"}
                    /\ job'[slot'.job].proof # "none" /\ job'[slot'.job].manual
  BY DEF ManualInSlot
<1> DEFINE m == slot.job
<1>t. /\ job \in [Jobs -> JobRow] /\ slot \in [job : Jobs \cup {NoJob}, phase : Phases]
  BY DEF InboxTypeOK
\* Most calls leave the slot and the row in it alone.
<1>k. ASSUME slot' = slot,
             m \in Jobs => /\ job[m].state \in {"running", "needs_review"} =>
                                job'[m].state \in {"running", "needs_review"}
                           /\ job'[m].proof = job[m].proof /\ job'[m].manual = job[m].manual
      PROVE  /\ slot'.job \in Jobs /\ job'[slot'.job].state \in {"running", "needs_review"}
             /\ job'[slot'.job].proof # "none" /\ job'[slot'.job].manual
  BY <1>k, Zenon DEF ManualInSlot
<1> DEFINE Kept == m \in Jobs =>
              /\ job[m].state \in {"running", "needs_review"} =>
                                job'[m].state \in {"running", "needs_review"}
              /\ job'[m].proof = job[m].proof /\ job'[m].manual = job[m].manual
           Goal == /\ slot'.job \in Jobs /\ job'[slot'.job].state \in {"running", "needs_review"}
                   /\ job'[slot'.job].proof # "none" /\ job'[slot'.job].manual
<1>g. slot' = slot /\ Kept => Goal
  BY <1>k
<1> HIDE DEF Goal
<1>1. ASSUME NEW p \in Peers, NEW e \in Events, Record(p, e) \/ \E j \in Jobs : RecordHeld(p, e, j)
      PROVE  slot' = slot /\ Kept
  <2>1. slot' = slot
    BY <1>1 DEF Record, RecordHeld, Arrives
  <2>2. Behind(job, p) \in [Jobs -> JobRow]
    BY <1>t, BehindType
  <2>3. ASSUME m \in Jobs PROVE job'[m] = Behind(job, p)[m]
    <3>1. CASE Record(p, e)
      BY <3>1 DEF Record
    <3>2. ASSUME NEW j \in Jobs, RecordHeld(p, e, j) PROVE job'[m] = Behind(job, p)[m]
      <4>1. job[j].state = "none" /\ job[m].state # "none"
        BY <3>2, <2>1 DEF RecordHeld, ManualInSlot
      <4>2. m # j
        BY <4>1
      <4> DEFINE row == [UnusedJob EXCEPT !.peer = p, !.state = "needs_review",
                                          !.proof = "not_started", !.current = TRUE]
      <4>3. job' = [Behind(job, p) EXCEPT ![j] = row]
        BY <3>2 DEF RecordHeld
      <4> HIDE DEF row, m
      <4> QED
        BY <4>2, <4>3, <2>2, <2>3
    <3> QED
      BY <1>1, <3>1, <3>2
  <2>4. \A i \in Jobs : /\ Behind(job, p)[i].state = job[i].state
                        /\ Behind(job, p)[i].proof = job[i].proof
                        /\ Behind(job, p)[i].manual = job[i].manual
    BY <1>t, BehindStates
  <2> HIDE DEF m
  <2> QED
    BY <2>1, <2>3, <2>4
<1>2. ASSUME NEW p \in Peers,
              (\E es \in SUBSET Events : InvalidateContext(p, es)) \/ ObserveOutgoing(p) \/ Guide(p)
      PROVE  slot' = slot /\ Kept
  <2>1. slot' = slot /\ job' = Behind(job, p)
    BY <1>2 DEF InvalidateContext, ObserveOutgoing, Guide
  <2>2. \A i \in Jobs : /\ Behind(job, p)[i].state = job[i].state
                        /\ Behind(job, p)[i].proof = job[i].proof
                        /\ Behind(job, p)[i].manual = job[i].manual
    BY <1>t, BehindStates
  <2> HIDE DEF m
  <2> QED
    BY <2>1, <2>2
<1>3. ASSUME NEW p \in Peers, NEW es \in SUBSET Events, NEW j \in Jobs, Claim(j, p, es) PROVE FALSE
  BY <1>3 DEF Claim
<1>4. ASSUME NEW p \in Peers, NEW c, SetClientControl(p, c) PROVE slot' = slot /\ Kept
  <2> DEFINE W == Releasable(job, control', p)
  <2>1. slot' = slot /\ job' = Released(Behind(job, p), W)
    BY <1>4 DEF SetClientControl
  <2>2. \A i \in W : job[i].state = "waiting_control"
    BY DEF Releasable
  <2> HIDE DEF W
  <2>3. Behind(job, p) \in [Jobs -> JobRow]
    BY <1>t, BehindType
  <2>4. ASSUME m \in Jobs
        PROVE  /\ job'[m].state = IF m \in W THEN "released" ELSE job[m].state
               /\ job'[m].proof = job[m].proof /\ job'[m].manual = job[m].manual
    <3> DEFINE B == Behind(job, p)
    <3>1. \A i \in Jobs : /\ B[i].state = job[i].state
                          /\ B[i].proof = job[i].proof /\ B[i].manual = job[i].manual
      BY <1>t, BehindStates
    <3>2. B \in [Jobs -> JobRow] /\ job' = Released(B, W)
      BY <2>1, <2>3
    <3> HIDE DEF B
    <3>3. \A i \in Jobs : /\ Released(B, W)[i].state = IF i \in W THEN "released" ELSE B[i].state
                          /\ Released(B, W)[i].proof = B[i].proof
                          /\ Released(B, W)[i].manual = B[i].manual
      BY <3>2, ReleasedStates
    <3> HIDE DEF m
    <3> QED
      BY <2>4, <3>1, <3>2, <3>3
  <2> QED
    BY <2>1, <2>2, <2>4
<1>6. ASSUME NEW p \in Peers, ForgetMissingThread(p) PROVE slot' = slot /\ Kept
  BY <1>6 DEF ForgetMissingThread, SetThread
<1>7. ASSUME PeerCall PROVE Goal
  BY <1>7, <1>g, <1>1, <1>2, <1>3, <1>4, <1>6 DEF PeerCall
<1>8. ASSUME NEW j \in Jobs,
             PreparePeerThread(j) \/ BindPeerThread(j) \/ BindReviewedThread(j)
             \/ ReplaceMissingThread(j) \/ MarkThreadUnknown(j)
      PROVE  slot' = slot /\ Kept
  BY <1>8 DEF PreparePeerThread, BindPeerThread, BindReviewedThread, ReplaceMissingThread,
              MarkThreadUnknown, SetThread
<1>9. ASSUME NEW j \in Jobs, StartIntent(j) \/ BindTurn(j) PROVE FALSE
  BY <1>9, <1>t DEF StartIntent, BindTurn
<1>10. ASSUME NEW j \in Jobs, DeadlinePasses(j) \/ NeedsReview(j) PROVE slot' = slot /\ Kept
  <2>1. CASE DeadlinePasses(j)
    <3>1. slot' = slot /\ job' = [job EXCEPT ![j] = [job[j] EXCEPT !.granted = FALSE]]
      BY <2>1 DEF DeadlinePasses
    <3>2. job[j] \in JobRow
      BY <1>t
    <3> QED
      BY <3>1, <3>2, <1>t DEF JobRow
  <2>2. CASE NeedsReview(j)
    <3>1. slot' = slot /\ job' = [job EXCEPT ![j] = [job[j] EXCEPT !.state = "needs_review"]]
      BY <2>2 DEF NeedsReview
    <3>2. job[j] \in JobRow
      BY <1>t
    <3> QED
      BY <3>1, <3>2, <1>t DEF JobRow
  <2> QED
    BY <1>10, <2>1, <2>2
<1>11. ASSUME NEW j \in Jobs, NEW k, NEW proof,
               FinishManual(j, k, proof) \/ FinishExecution(j, k, proof)
       PROVE  FALSE
  BY <1>11 DEF FinishManual, FinishExecution, FreeSlot
<1>12. ASSUME NEW j \in Jobs, ReleaseJob(j) PROVE slot' = slot /\ Kept
  <2>1. slot' = slot /\ job[j].state = "claimed"
    BY <1>12 DEF ReleaseJob, FreeSlot
  <2>2. m \in Jobs /\ m # j
    BY <2>1 DEF ManualInSlot
  <2>3. job'[m].state = job[m].state /\ job'[m].proof = job[m].proof
        /\ job'[m].manual = job[m].manual
    BY <1>12, <2>2, <1>t, ReleasedStates DEF ReleaseJob
  <2> QED
    BY <2>1, <2>3
<1>13. ASSUME NEW j \in Jobs, DeferFailed(j) \/ RetryNoEffects(j) PROVE FALSE
  BY <1>13, InboxConstants DEF DeferFailed, RetryNoEffects, Reviewed, SlotFree, ManualInSlot
<1>14. ASSUME NEW j \in Jobs, ContinueBoundTurn(j) PROVE Goal
  <2>1. /\ slot' = [job |-> j, phase |-> "manual"] /\ job[j].proof # "none"
        /\ job' = [job EXCEPT ![j] = [job[j] EXCEPT !.state = "running", !.granted = TRUE,
                                                    !.manual = TRUE]]
    BY <1>14 DEF ContinueBoundTurn, Reviewed
  <2>2. job[j] \in JobRow
    BY <1>t
  <2> QED
    BY <2>1, <2>2, <1>t DEF JobRow, Goal
<1>15. ASSUME ExecutionCall PROVE Goal
  BY <1>15, <1>g, <1>8, <1>9, <1>10, <1>11, <1>12, <1>13, <1>14 DEF ExecutionCall
<1>16. ASSUME NEW j \in Jobs, NEW es \in SUBSET Events, RefreshJob(j, es) PROVE slot' = slot /\ Kept
  <2>1. slot' = slot /\ job' = [job EXCEPT ![j] = [job[j] EXCEPT !.current = TRUE]]
    BY <1>16 DEF RefreshJob
  <2>2. job[j] \in JobRow
    BY <1>t
  <2> QED
    BY <2>1, <2>2, <1>t DEF JobRow
<1>17. ASSUME NEW j \in Jobs, NEW o \in Outcomes, Result(j, o) PROVE slot' = slot /\ Kept
  <2>1. slot' = slot
    BY <1>17 DEF Result, FreeSlot
  <2>2. m \in Jobs /\ job[m].proof # "none" /\ job[m].manual
    BY <2>1 DEF ManualInSlot
  <2>3. m # j
    BY <1>17, <2>1, <2>2, <1>t DEF Result, FreeSlot
  <2>4. job'[m] = job[m]
    BY <1>17, <2>2, <2>3, <1>t DEF Result, Complete
  <2> QED
    BY <2>1, <2>4
<1>18. ASSUME AgentCall PROVE Goal
  <2>1. ASSUME NEW f \in Effects,
               (\E j \in Jobs, k \in Kinds : ReserveEffect(j, f, k)) \/ MarkEffectIntent(f)
               \/ VerifyEffect(f)
        PROVE  slot' = slot /\ Kept
    BY <2>1 DEF ReserveEffect, MarkEffectIntent, VerifyEffect
  <2> QED
    BY <1>18, <1>g, <1>16, <1>17, <2>1 DEF AgentCall
<1>19. ASSUME NEW on \in BOOLEAN, DutySet(on) \/ SetExecutionPaused(on) PROVE slot' = slot /\ Kept
  <2>1. CASE DutySet(on)
    BY <2>1 DEF DutySet
  <2>2. CASE SetExecutionPaused(on)
    <3>1. slot' = slot /\ job' = [i \in Jobs |-> [job[i] EXCEPT !.granted = FALSE]]
      BY <2>2 DEF SetExecutionPaused
    <3>2. m \in Jobs => job[m] \in JobRow
      BY <1>t
    <3> QED
      BY <3>1, <3>2 DEF JobRow
  <2> QED
    BY <1>19, <2>1, <2>2
<1>20. Goal
  BY <1>g, <1>7, <1>15, <1>18, <1>19 DEF InboxNext
<1> QED
  BY <1>20 DEF Goal

\* Where no message changes, no request loses its client, begins or ends for its
\* messages, and none becomes live out of the slot, the order stays.
LEMMA QuietStep ==
    ASSUME Inv, InboxTypeOK', UNCHANGED event,
           \A i \in Jobs :
              /\ job'[i].peer = job[i].peer
              /\ job[i].state # "none" => job'[i].state # "none"
              /\ job[i].state = "completed" => job'[i].state = "completed"
              /\ job'[i].state \in Over => job[i].state \in Over
              /\ job'[i].state \in Live => slot'.job = i
    PROVE  Order'
BY DEF Inv, Order, InboxTypeOK, LiveJobHoldsSlot, EventsFollowJobs, EventsHaveJobs, EventRow

\* Where the requests in S, none of them completed, let their messages go, and the
\* others are as in a quiet step, the order stays.
LEMMA LetGoStep ==
    ASSUME Inv, InboxTypeOK', NEW S \in SUBSET Jobs, event' = Detached(event, S),
           \A i \in Jobs :
              /\ job'[i].peer = job[i].peer
              /\ i \in S => job[i].state # "completed" /\ job'[i].state # "none"
              /\ i \notin S => /\ job[i].state # "none" => job'[i].state # "none"
                               /\ job[i].state = "completed" => job'[i].state = "completed"
                               /\ job'[i].state \in Over => job[i].state \in Over
              /\ job'[i].state \in Live => slot'.job = i
    PROVE  Order'
<1>1. /\ event \in [Events -> EventRow]
      /\ \A d \in Events : event[d].job \in Jobs \cup {NoJob}
  BY DEF Inv, InboxTypeOK, EventRow
<1>2. \A d \in Events :
        /\ event'[d].state = event[d].state /\ event'[d].peer = event[d].peer
        /\ event'[d].job = IF event[d].job \in S /\ event[d].state = "open"
                           THEN NoJob ELSE event[d].job
  BY <1>1, DetachedStates
<1>3. LiveJobHoldsSlot'
  BY DEF LiveJobHoldsSlot
<1>4. EventsHaveJobs'
  BY <1>1, <1>2 DEF Inv, EventsHaveJobs
<1>5. EventsFollowJobs'
  BY <1>1, <1>2 DEF Inv, EventsFollowJobs
<1> QED
  BY <1>3, <1>4, <1>5 DEF Order

\* The calls about a client.
LEMMA PeerCallOrder == Inv /\ InboxTypeOK' /\ PeerCall => Order'
<1> SUFFICES ASSUME Inv, InboxTypeOK', PeerCall PROVE Order'
  OBVIOUS
<1> USE InboxConstants
<1>t. /\ job \in [Jobs -> JobRow] /\ event \in [Events -> EventRow]
      /\ slot \in [job : Jobs \cup {NoJob}, phase : Phases]
  BY DEF Inv, InboxTypeOK
<1>0. PICK p \in Peers :
        \/ \E e \in Events : Record(p, e) \/ \E j \in Jobs : RecordHeld(p, e, j)
        \/ \E es \in SUBSET Events : InvalidateContext(p, es) \/ \E j \in Jobs : Claim(j, p, es)
        \/ ObserveOutgoing(p) \/ Guide(p) \/ ForgetMissingThread(p)
        \/ \E c \in {"active", "paused", "human_takeover"} : SetClientControl(p, c)
  BY DEF PeerCall
<1>b. \A i \in Jobs : Behind(job, p)[i].state = job[i].state /\ Behind(job, p)[i].peer = job[i].peer
  BY <1>t, BehindStates
<1>1. CASE (\E es \in SUBSET Events : InvalidateContext(p, es)) \/ ObserveOutgoing(p)
           \/ Guide(p) \/ ForgetMissingThread(p)
  <2>1. /\ UNCHANGED event /\ slot' = slot
        /\ \A i \in Jobs : job'[i].state = job[i].state /\ job'[i].peer = job[i].peer
    BY <1>1, <1>b DEF InvalidateContext, ObserveOutgoing, Guide, ForgetMissingThread, SetThread
  <2> QED
    BY <2>1, QuietStep DEF Inv, LiveJobHoldsSlot
<1>2. ASSUME NEW e \in Events, NEW j \in Jobs \cup {NoJob}, Arrives(p, e, j),
             j = NoJob \/ (j \in Jobs /\ job[j].state = "none"),
             \A i \in Jobs : i # j => job'[i].state = job[i].state /\ job'[i].peer = job[i].peer,
             j # NoJob => job'[j].state = "needs_review" /\ job'[j].peer = p
      PROVE  Order'
  <2> DEFINE F == FailedWaiters(p)
  <2>1. /\ \A d \in Events : d # e =>
             /\ event'[d].state = event[d].state /\ event'[d].peer = event[d].peer
             /\ event'[d].job = event[d].job \/ event'[d].job = NoJob
        /\ event'[e] = [peer |-> p, job |-> j, state |-> "open"]
        /\ slot' = slot
    <3>1. /\ event' = [Detached(event, F) EXCEPT ![e] = [peer |-> p, job |-> j, state |-> "open"]]
          /\ slot' = slot
      BY <1>2 DEF Arrives
    <3>2. Detached(event, F) \in [Events -> EventRow]
      BY <1>t, DetachedType
    <3>3. \A d \in Events : /\ Detached(event, F)[d].state = event[d].state
                            /\ Detached(event, F)[d].peer = event[d].peer
                            /\ \/ Detached(event, F)[d].job = event[d].job
                               \/ Detached(event, F)[d].job = NoJob
      <4> HIDE DEF F
      <4> QED BY <1>t, DetachedStates
    <3> QED
      BY <3>1, <3>2, <3>3
  <2>2. \A d \in Events : event'[d].job \in Jobs \cup {NoJob}
    BY DEF InboxTypeOK, EventRow
  <2>3. LiveJobHoldsSlot'
    BY <1>2, <2>1 DEF Inv, LiveJobHoldsSlot
  <2>4. EventsHaveJobs'
    BY <1>2, <2>1, <2>2 DEF Inv, EventsHaveJobs
  <2>5. EventsFollowJobs'
    BY <1>2, <2>1, <2>2 DEF Inv, EventsFollowJobs, EventsHaveJobs
  <2> QED
    BY <2>3, <2>4, <2>5 DEF Order
<1>3. ASSUME NEW e \in Events, Record(p, e) PROVE Order'
  BY <1>3, <1>2, <1>b DEF Record
<1>4. ASSUME NEW e \in Events, NEW j \in Jobs, RecordHeld(p, e, j) PROVE Order'
  <2> DEFINE row == [UnusedJob EXCEPT !.peer = p, !.state = "needs_review",
                                      !.proof = "not_started", !.current = TRUE]
  <2>1. row.state = "needs_review" /\ row.peer = p
    BY DEF UnusedJob
  <2>2. job' = [Behind(job, p) EXCEPT ![j] = row] /\ job[j].state = "none" /\ Arrives(p, e, j)
    BY <1>4 DEF RecordHeld
  <2>3. Behind(job, p) \in [Jobs -> JobRow]
    BY <1>t, BehindType
  <2> HIDE DEF row
  <2>4. /\ \A i \in Jobs : i # j => job'[i].state = job[i].state /\ job'[i].peer = job[i].peer
        /\ job'[j].state = "needs_review" /\ job'[j].peer = p
    BY <2>1, <2>2, <2>3, <1>b
  <2> QED
    BY <2>2, <2>4, <1>2
<1>5. ASSUME NEW es \in SUBSET Events, NEW j \in Jobs, Claim(j, p, es) PROVE Order'
  <2> DEFINE row == [UnusedJob EXCEPT !.peer = p, !.state = "claimed", !.current = TRUE,
                                      !.granted = TRUE]
  <2>1. row.state = "claimed" /\ row.peer = p
    BY DEF UnusedJob
  <2>2. /\ job' = [job EXCEPT ![j] = row] /\ job[j].state = "none" /\ slot.job = NoJob
        /\ slot'.job = j
        /\ \A d \in es : event[d].peer = p /\ event[d].state = "open"
        /\ event' = [d \in Events |-> IF d \in es THEN [event[d] EXCEPT !.job = j] ELSE event[d]]
    BY <1>5 DEF Claim, SlotFree, Unassigned
  <2> HIDE DEF row
  <2>3. /\ job'[j].state = "claimed" /\ job'[j].peer = p
        /\ \A i \in Jobs : i # j => job'[i] = job[i]
    BY <2>1, <2>2, <1>t
  <2>4. \A d \in Events :
          /\ event'[d].state = event[d].state /\ event'[d].peer = event[d].peer
          /\ event'[d].job = IF d \in es THEN j ELSE event[d].job
    BY <2>2, <1>t DEF EventRow
  <2>5. \A d \in Events : event[d].job \in Jobs \cup {NoJob}
    BY <1>t DEF EventRow
  <2>6. LiveJobHoldsSlot'
    BY <2>2, <2>3 DEF Inv, LiveJobHoldsSlot
  <2>7. EventsHaveJobs'
    BY <2>2, <2>3, <2>4, <2>5 DEF Inv, EventsHaveJobs
  <2>8. EventsFollowJobs'
    BY <2>2, <2>3, <2>4, <2>5 DEF Inv, EventsFollowJobs, EventsHaveJobs
  <2> QED
    BY <2>6, <2>7, <2>8 DEF Order
<1>6. ASSUME NEW c \in {"active", "paused", "human_takeover"}, SetClientControl(p, c)
      PROVE Order'
  <2> DEFINE W == Releasable(job, control', p)
  <2>1. job' = Released(Behind(job, p), W) /\ event' = Detached(event, W) /\ slot' = slot
    BY <1>6 DEF SetClientControl
  <2>2. W \subseteq Jobs /\ \A i \in W : job[i].state = "waiting_control"
    BY DEF Releasable
  <2> HIDE DEF W
  <2>3. Behind(job, p) \in [Jobs -> JobRow]
    BY <1>t, BehindType
  <2>4. \A i \in Jobs : /\ job'[i].peer = job[i].peer
                        /\ job'[i].state = IF i \in W THEN "released" ELSE job[i].state
    BY <2>1, <2>3, <1>b, ReleasedStates
  <2>5. \A i \in Jobs : job[i].state \in Live => slot.job = i
    BY DEF Inv, LiveJobHoldsSlot
  <2> QED
    BY <2>1, <2>2, <2>4, <2>5, LetGoStep
<1> QED
  BY <1>0, <1>1, <1>3, <1>4, <1>5, <1>6

\* The calls that start, stop and settle an execution.
LEMMA ExecutionCallOrder == Inv /\ InboxTypeOK' /\ ExecutionCall => Order'
<1> SUFFICES ASSUME Inv, InboxTypeOK', NEW j \in Jobs,
        \/ PreparePeerThread(j) \/ BindPeerThread(j) \/ BindReviewedThread(j)
        \/ ReplaceMissingThread(j) \/ MarkThreadUnknown(j)
        \/ StartIntent(j) \/ BindTurn(j) \/ DeadlinePasses(j)
        \/ \E k \in {"start_rejected", "not_started", "terminal"}, proof \in Proofs :
              FinishManual(j, k, proof) \/ FinishExecution(j, k, proof)
        \/ ReleaseJob(j) \/ NeedsReview(j) \/ DeferFailed(j)
        \/ ContinueBoundTurn(j) \/ RetryNoEffects(j)
             PROVE  Order'
  BY DEF ExecutionCall
<1> USE InboxConstants
<1>t. /\ job \in [Jobs -> JobRow] /\ event \in [Events -> EventRow]
      /\ slot \in [job : Jobs \cup {NoJob}, phase : Phases]
  BY DEF Inv, InboxTypeOK
<1>l. \A i \in Jobs : job[i].state \in Live => slot.job = i
  BY DEF Inv, LiveJobHoldsSlot
<1>1. CASE PreparePeerThread(j) \/ BindPeerThread(j) \/ BindReviewedThread(j)
           \/ ReplaceMissingThread(j) \/ MarkThreadUnknown(j)
  <2>1. UNCHANGED <<event, job, slot>>
    BY <1>1 DEF PreparePeerThread, BindPeerThread, BindReviewedThread, ReplaceMissingThread,
                MarkThreadUnknown, SetThread
  <2> QED
    BY <2>1, <1>l, QuietStep
<1>2. CASE StartIntent(j)
  <2>1. /\ UNCHANGED event /\ slot'.job = slot.job /\ job[j].state = "claimed"
        /\ job'[j].state = "start_intent" /\ job'[j].peer = job[j].peer
        /\ \A i \in Jobs : i # j => job'[i] = job[i]
    BY <1>2, <1>t DEF StartIntent, JobRow
  <2> QED
    BY <2>1, <1>l, QuietStep
<1>3. CASE BindTurn(j)
  <2>1. /\ UNCHANGED event /\ slot'.job = slot.job /\ slot.job = j
        /\ job[j].state \in {"start_intent", "needs_review"}
        /\ job'[j].state \in {"running", "needs_review"} /\ job'[j].peer = job[j].peer
        /\ \A i \in Jobs : i # j => job'[i] = job[i]
    BY <1>3, <1>t DEF BindTurn, JobRow
  <2> QED
    BY <2>1, <1>l, QuietStep
<1>4. CASE DeadlinePasses(j)
  <2>1. /\ UNCHANGED <<event, slot>>
        /\ \A i \in Jobs : job'[i].state = job[i].state /\ job'[i].peer = job[i].peer
    BY <1>4, <1>t DEF DeadlinePasses, JobRow
  <2> QED
    BY <2>1, <1>l, QuietStep
<1>5. CASE NeedsReview(j)
  <2>1. /\ UNCHANGED <<event, slot>> /\ job[j].state \in Active
        /\ job'[j].state = "needs_review" /\ job'[j].peer = job[j].peer
        /\ \A i \in Jobs : i # j => job'[i] = job[i]
    BY <1>5, <1>t DEF NeedsReview, JobRow
  <2> QED
    BY <2>1, <1>l, QuietStep
<1>6. CASE ReleaseJob(j)
  <2>1. job[j].state = "claimed" /\ slot.job = j /\ (slot'.job = j \/ slot' = FreeSlot)
    BY <1>6, <1>l DEF ReleaseJob
  <2>a. \A i \in Jobs : i # j => job[i].state \notin Live
    BY <2>1, <1>l
  <2>2. CASE thread[job[j].peer] \in {"creating", "creation_unknown"}
    <3>1. /\ UNCHANGED event
          /\ job' = [job EXCEPT ![j] = [job[j] EXCEPT !.state = "needs_review",
                                                     !.proof = "not_started"]]
      BY <1>6, <2>2 DEF ReleaseJob
    <3>2. /\ job'[j].state = "needs_review" /\ job'[j].peer = job[j].peer
          /\ \A i \in Jobs : i # j => job'[i] = job[i]
      BY <3>1, <1>t DEF JobRow
    <3> QED
      BY <2>1, <2>a, <3>1, <3>2, QuietStep
  <2>3. CASE thread[job[j].peer] \notin {"creating", "creation_unknown"}
    <3>1. event' = Detached(event, {j}) /\ job' = Released(job, {j})
      BY <1>6, <2>3 DEF ReleaseJob
    <3>2. \A i \in Jobs : /\ job'[i].peer = job[i].peer
                          /\ job'[i].state = IF i = j THEN "released" ELSE job[i].state
      BY <3>1, <1>t, ReleasedStates
    <3>3. \A i \in Jobs : job'[i].state \notin Live
      BY <2>a, <3>2
    <3>4. /\ {j} \in SUBSET Jobs
          /\ \A i \in Jobs :
                /\ job'[i].peer = job[i].peer
                /\ i \in {j} => job[i].state # "completed" /\ job'[i].state # "none"
                /\ i \notin {j} => job'[i].state = job[i].state
      BY <2>1, <3>2
    <3> QED
      BY <3>1, <3>3, <3>4, LetGoStep
  <2> QED
    BY <2>2, <2>3
<1>7. CASE DeferFailed(j)
  <2>1. /\ job[j].state = "needs_review" /\ slot' = slot
        /\ job'[j].state = "failed_waiting_input" /\ job'[j].peer = job[j].peer
        /\ \A i \in Jobs : i # j => job'[i] = job[i]
        /\ UNCHANGED event \/ event' = Detached(event, {j})
    BY <1>7, <1>t DEF DeferFailed, JobRow
  <2>2. CASE UNCHANGED event
    BY <2>1, <2>2, <1>l, QuietStep
  <2>3. CASE event' = Detached(event, {j})
    BY <2>1, <2>3, <1>l, LetGoStep
  <2> QED
    BY <2>1, <2>2, <2>3
<1>8. CASE ContinueBoundTurn(j)
  <2>1. /\ UNCHANGED event /\ slot'.job = j /\ slot.job = NoJob
        /\ job[j].state = "needs_review"
        /\ job'[j].state = "running" /\ job'[j].peer = job[j].peer
        /\ \A i \in Jobs : i # j => job'[i] = job[i]
    BY <1>8, <1>t DEF ContinueBoundTurn, Reviewed, SlotFree, JobRow
  <2> QED
    BY <2>1, <1>l, QuietStep
<1>9. CASE RetryNoEffects(j)
  <2>1. /\ event' = Detached(event, {j}) /\ slot' = slot /\ job[j].state = "needs_review"
        /\ job'[j].state = "released" /\ job'[j].peer = job[j].peer
        /\ \A i \in Jobs : i # j => job'[i] = job[i]
    BY <1>9, <1>t DEF RetryNoEffects, Reviewed, JobRow
  <2> QED
    BY <2>1, <1>l, LetGoStep
\* A proof of the present execution: the slot is freed, and nothing else was live.
<1>10. ASSUME NEW k, NEW proof, FinishManual(j, k, proof) PROVE Order'
  <2>1. /\ UNCHANGED event /\ slot.job = j /\ slot.phase = "manual"
        /\ job' = [job EXCEPT ![j] = [job[j] EXCEPT !.state = "needs_review", !.manual = FALSE]]
    BY <1>10 DEF FinishManual
  <2>2. job[j].state \in {"running", "needs_review"}
    BY <2>1 DEF Inv, ManualInSlot
  <2>3. job[j] \in JobRow
    BY <1>t
  <2>4. /\ job'[j].state = "needs_review" /\ job'[j].peer = job[j].peer
        /\ \A i \in Jobs : i # j => job'[i] = job[i]
    BY <2>1, <2>3, <1>t DEF JobRow
  <2> QED
    BY <2>1, <2>2, <2>4, <1>l, QuietStep
<1>11. ASSUME NEW k, NEW proof, FinishExecution(j, k, proof) PROVE Order'
  <2> DEFINE S == [job EXCEPT ![j] = Stopped(j, proof)]
             W == Releasable(S, control, job[j].peer)
  <2>1. slot.job = j /\ job' = Released(S, W) /\ event' = Detached(event, W)
    BY <1>11 DEF FinishExecution
  <2>2. W \subseteq Jobs /\ \A i \in W : S[i].state = "waiting_control"
    BY DEF Releasable
  <2>3. /\ Stopped(j, proof).peer = job[j].peer
        /\ Stopped(j, proof).state = "needs_review" \/ Stopped(j, proof).state = job[j].state
        /\ job[j].state \in Live => Stopped(j, proof).state = "needs_review"
        /\ Stopped(j, proof).state = "needs_review" =>
              job[j].state \in Live \cup {"waiting_control", "needs_review"}
    BY <1>t DEF Stopped, JobRow
  <2>4. /\ \A i \in Jobs : i # j => S[i] = job[i]
        /\ S[j] = Stopped(j, proof)
    BY <1>t
  <2>5. S \in [Jobs -> JobRow]
    <3>1. /\ proof \in Proofs /\ job[j] \in JobRow
      BY <1>11, <1>t DEF FinishExecution, Provable
    <3>2. Stopped(j, proof) \in JobRow
      BY <3>1 DEF Stopped, JobRow
    <3> QED
      BY <3>2, <1>t
  <2> HIDE DEF S, W
  <2>6. \A i \in Jobs : /\ job'[i].peer = S[i].peer
                        /\ job'[i].state = IF i \in W THEN "released" ELSE S[i].state
    BY <2>1, <2>5, ReleasedStates
  <2>7. \A i \in Jobs : /\ S[i].peer = job[i].peer /\ S[i].state \notin Live
                        /\ i # j => S[i].state = job[i].state
    BY <2>1, <2>3, <2>4, <1>l
  <2>8. \A i \in Jobs : i \in W => job[i].state = "waiting_control"
    BY <2>2, <2>3, <2>4
  <2> QED
    BY <2>1, <2>2, <2>3, <2>4, <2>6, <2>7, <2>8, LetGoStep
<1> QED
  BY <1>1, <1>2, <1>3, <1>4, <1>5, <1>6, <1>7, <1>8, <1>9, <1>10, <1>11

\* The calls of the agent.
LEMMA AgentCallOrder == Inv /\ InboxTypeOK' /\ AgentCall => Order'
<1> SUFFICES ASSUME Inv, InboxTypeOK', AgentCall PROVE Order'
  OBVIOUS
<1> USE InboxConstants
<1>t. /\ job \in [Jobs -> JobRow] /\ event \in [Events -> EventRow]
      /\ slot \in [job : Jobs \cup {NoJob}, phase : Phases]
  BY DEF Inv, InboxTypeOK
<1>l. \A i \in Jobs : job[i].state \in Live => slot.job = i
  BY DEF Inv, LiveJobHoldsSlot
<1>e. \A d \in Events : event[d].job \in Jobs \cup {NoJob}
  BY <1>t DEF EventRow
<1>1. ASSUME NEW f \in Effects,
             (\E j \in Jobs, k \in Kinds : ReserveEffect(j, f, k)) \/ MarkEffectIntent(f)
             \/ VerifyEffect(f)
      PROVE  Order'
  <2>1. UNCHANGED <<event, job, slot>>
    BY <1>1 DEF ReserveEffect, MarkEffectIntent, VerifyEffect
  <2> QED
    BY <2>1, <1>l, QuietStep
<1>2. ASSUME NEW j \in Jobs, NEW es \in SUBSET Events, RefreshJob(j, es) PROVE Order'
  <2>1. /\ slot' = slot /\ job[j].state \in {"claimed", "running"}
        /\ job' = [job EXCEPT ![j] = [job[j] EXCEPT !.current = TRUE]]
        /\ \A d \in es : event[d].peer = job[j].peer /\ event[d].state = "open"
        /\ event' = [d \in Events |-> IF d \in es THEN [event[d] EXCEPT !.job = j] ELSE event[d]]
    BY <1>2 DEF RefreshJob, Unassigned
  <2>2. \A i \in Jobs : job'[i].state = job[i].state /\ job'[i].peer = job[i].peer
    BY <2>1, <1>t DEF JobRow
  <2>3. \A d \in Events :
          /\ event'[d].state = event[d].state /\ event'[d].peer = event[d].peer
          /\ event'[d].job = IF d \in es THEN j ELSE event[d].job
    BY <2>1, <1>t DEF EventRow
  <2>4. LiveJobHoldsSlot'
    BY <2>1, <2>2, <1>l DEF LiveJobHoldsSlot
  <2>5. EventsHaveJobs'
    BY <2>1, <2>2, <2>3, <1>e DEF Inv, EventsHaveJobs
  <2>6. EventsFollowJobs'
    BY <2>1, <2>2, <2>3, <1>e DEF Inv, EventsFollowJobs
  <2> QED
    BY <2>4, <2>5, <2>6 DEF Order
<1>3. ASSUME NEW j \in Jobs, NEW o \in Outcomes, Result(j, o) PROVE Order'
  <2>1. /\ job[j].state \in {"running", "needs_review"}
        /\ slot' = slot \/ slot = [job |-> j, phase |-> "manual"]
    BY <1>3, Zenon DEF Result
  <2>2. job[j] \in JobRow
    BY <1>t
  <2>3. \A i \in Jobs : i # j /\ job[i].state \in Live => slot'.job = i
    BY <2>1, <1>l
  <2>4. CASE \E closed \in {"reply_verified", "no_reply_needed"} : Complete(j, closed)
    <3>1. PICK closed \in {"reply_verified", "no_reply_needed"} : Complete(j, closed)
      BY <2>4
    <3>2. /\ job'[j].state = "completed" /\ job'[j].peer = job[j].peer
          /\ \A i \in Jobs : i # j => job'[i] = job[i]
      BY <3>1, <2>2, <1>t DEF Complete, JobRow
    <3>3. \A d \in Events :
            /\ event'[d].peer = event[d].peer /\ event'[d].job = event[d].job
            /\ event'[d].state = IF event[d].job = j THEN closed ELSE event[d].state
      BY <3>1, <1>t DEF Complete, EventRow
    <3>4. LiveJobHoldsSlot'
      BY <3>2, <2>3 DEF LiveJobHoldsSlot
    <3>5. EventsHaveJobs'
      BY <3>2, <3>3, <1>e DEF Inv, EventsHaveJobs
    <3>6. EventsFollowJobs'
      BY <3>1, <3>2, <3>3, <1>e DEF Inv, EventsFollowJobs
    <3> QED
      BY <3>4, <3>5, <3>6 DEF Order
  <2>5. CASE UNCHANGED event
             /\ job' = [job EXCEPT ![j] = [job[j] EXCEPT !.state = "waiting_control"]]
    <3>1. /\ job'[j].state = "waiting_control" /\ job'[j].peer = job[j].peer
          /\ \A i \in Jobs : i # j => job'[i] = job[i]
      BY <2>5, <2>2, <1>t DEF JobRow
    <3> QED
      BY <2>1, <2>3, <2>5, <3>1, QuietStep
  <2>6. \/ Complete(j, "reply_verified") \/ Complete(j, "no_reply_needed")
        \/ UNCHANGED event /\ job' = [job EXCEPT ![j].state = "waiting_control"]
    BY <1>3, Zenon DEF Result
  <2>7. [job EXCEPT ![j].state = "waiting_control"]
            = [job EXCEPT ![j] = [job[j] EXCEPT !.state = "waiting_control"]]
    OBVIOUS
  <2> QED
    BY <2>4, <2>5, <2>6, <2>7
<1> QED
  BY <1>1, <1>2, <1>3 DEF AgentCall

\* Nothing a caller may do breaks what the invariant says.
LEMMA InvStep == Inv /\ InboxTypeOK' /\ [InboxNext]_inboxVars => Inv'
<1> SUFFICES ASSUME Inv, InboxTypeOK', [InboxNext]_inboxVars PROVE Inv'
  OBVIOUS
<1>l. \A i \in Jobs : job[i].state \in Live => slot.job = i
  BY DEF Inv, LiveJobHoldsSlot
<1>1. CASE UNCHANGED inboxVars
  BY <1>1 DEF inboxVars, Inv, InboxTypeOK, ManualInSlot, LiveJobHoldsSlot, EventsFollowJobs,
              EventsHaveJobs
<1>2. ASSUME NEW on \in BOOLEAN, DutySet(on) \/ SetExecutionPaused(on) PROVE Order'
  <2>1. /\ UNCHANGED <<event, slot>>
        /\ \A i \in Jobs : job'[i].state = job[i].state /\ job'[i].peer = job[i].peer
    <3>1. job \in [Jobs -> JobRow]
      BY DEF Inv, InboxTypeOK
    <3> QED
      BY <1>2, <3>1 DEF DutySet, SetExecutionPaused, JobRow
  <2> QED
    BY <2>1, <1>l, QuietStep
<1>3. CASE InboxNext
  <2>1. Order'
    BY <1>3, <1>2, PeerCallOrder, ExecutionCallOrder, AgentCallOrder DEF InboxNext
  <2>2. ManualInSlot'
    BY <1>3, ManualStep DEF Inv
  <2> QED
    BY <2>1, <2>2 DEF Inv, Order
<1> QED
  BY <1>1, <1>3

LEMMA InvInit == InboxInit => Inv
<1> SUFFICES ASSUME InboxInit PROVE Inv
  OBVIOUS
<1>1. /\ \A i \in Jobs : job[i].state = "none"
      /\ \A d \in Events : event[d].job = NoJob
      /\ slot.phase = "none"
  BY DEF InboxInit, UnusedJob, NoEvent, FreeSlot
<1> QED
  BY <1>1, InitType DEF Inv, ManualInSlot, LiveJobHoldsSlot, EventsFollowJobs, EventsHaveJobs

LEMMA AlwaysInv == InboxSpec => []Inv
<1> QED
  BY InvInit, InvStep, TypeCorrect, PTL DEF InboxSpec

\* One request at most is worked on, whoever calls the ledger in whatever order:
\* a live request has the global slot.
THEOREM SlotHeld == InboxSpec => []LiveJobHoldsSlot
<1>1. Inv => LiveJobHoldsSlot
  BY DEF Inv
<1> QED
  BY <1>1, AlwaysInv, PTL

\* No call of the ledger loses a message or closes it out of turn: a message goes
\* with a request of its client, and is closed with that request and only then.
THEOREM MessagesFollow == InboxSpec => []EventsFollowJobs
<1>1. Inv => EventsFollowJobs
  BY DEF Inv
<1> QED
  BY <1>1, AlwaysInv, PTL

-----------------------------------------------------------------------------
(* The callers of TelegramTurns *)

\* Every step of the dispatcher is a call of the ledger or leaves it alone.
LEMMA DispatchCalls == Dispatch => InboxNext \/ UNCHANGED inboxVars
<1> SUFFICES ASSUME Dispatch PROVE InboxNext \/ UNCHANGED inboxVars
  OBVIOUS
<1>1. ASSUME NEW j \in Jobs, NEW p \in Peers, NEW es \in SUBSET Events, ClaimNext(j, p, es)
      PROVE  InboxNext
  BY <1>1 DEF ClaimNext, InboxNext, PeerCall
<1>2. ASSUME NEW j \in Jobs,
             \/ NeedsReview(j) \/ PreparePeerThread(j) \/ BindPeerThread(j) \/ MarkThreadUnknown(j)
             \/ StartIntent(j) \/ BindTurn(j) \/ DeferFailed(j)
      PROVE  InboxNext
  BY <1>2, Zenon DEF InboxNext, ExecutionCall
<1>3. ASSUME NEW j \in Jobs, Prove(j) PROVE InboxNext
  <2>1. PICK k \in {"start_rejected", "not_started", "terminal"}, proof \in Proofs :
            FinishExecution(j, k, proof) \/ FinishManual(j, k, proof)
    BY <1>3, Zenon DEF Prove
  <2> QED
    BY <2>1, Zenon DEF InboxNext, ExecutionCall
<1>4. ASSUME NEW j \in Jobs, Reconcile(j) \/ SelectPeer(j) \/ BeforeStart(j) \/ TurnStarted(j)
      PROVE  InboxNext \/ UNCHANGED inboxVars
  <2>1. \/ NeedsReview(j) \/ PreparePeerThread(j) \/ BindPeerThread(j) \/ MarkThreadUnknown(j)
        \/ StartIntent(j) \/ BindTurn(j) \/ UNCHANGED inboxVars
    BY <1>4, Zenon DEF Reconcile, SelectPeer, BeforeStart, TurnStarted
  <2> QED
    BY <2>1, <1>2
<1>5. ASSUME NEW j \in Jobs, ReviewStopped(j) \/ Defer(j) \/ Hold(j)
      PROVE  InboxNext \/ UNCHANGED inboxVars
  BY <1>5, <1>2, Zenon DEF ReviewStopped, Defer, Hold
<1>6. ASSUME NEW j \in Jobs,
             AskForTurn(j) \/ Interrupted(j) \/ StopForPause(j) \/ InterruptTurn(j) \/ AppServer(j)
      PROVE  UNCHANGED inboxVars
  BY <1>6, Zenon DEF AskForTurn, Interrupted, StopForPause, InterruptTurn, AppServer
<1> QED
  BY <1>1, <1>3, <1>4, <1>5, <1>6, Zenon DEF Dispatch

\* So is every step of the bridge, its stopping included.
LEMMA SendCalls == Send \/ BridgeCrash => InboxNext \/ UNCHANGED inboxVars
<1> SUFFICES ASSUME Send \/ BridgeCrash PROVE InboxNext \/ UNCHANGED inboxVars
  OBVIOUS
<1>1. ASSUME NEW j \in Jobs, NEW f \in Effects, NEW k \in Kinds, DryRun(j, f, k) PROVE InboxNext
  BY <1>1, Zenon DEF DryRun, InboxNext, AgentCall
<1>2. ASSUME NEW f \in Effects, MarkEffectIntent(f) \/ VerifyEffect(f) PROVE InboxNext
  BY <1>2, Zenon DEF InboxNext, AgentCall
<1>3. ASSUME NEW j \in Jobs, NEW f \in Effects, Apply(j, f)
      PROVE  InboxNext \/ UNCHANGED inboxVars
  <2>1. NeedsReview(j) \/ UNCHANGED inboxVars
    BY <1>3, Zenon DEF Apply
  <2> QED
    BY <2>1, Zenon DEF InboxNext, ExecutionCall
<1>4. ASSUME NEW j \in Jobs, NEW f \in Effects,
             SendIntent(j, f) \/ SendFails(j, f) \/ SendAnswered(j, f) \/ ReadBack(j, f)
      PROVE  InboxNext \/ UNCHANGED inboxVars
  BY <1>4, <1>2, Zenon DEF SendIntent, SendFails, SendAnswered, ReadBack
<1>5. ASSUME NEW f \in Effects, Posted(f) PROVE UNCHANGED inboxVars
  BY <1>5 DEF Posted
<1>6. CASE BridgeCrash
  BY <1>6, <1>2, Zenon DEF BridgeCrash
<1> QED
  BY <1>1, <1>3, <1>4, <1>5, <1>6, Zenon DEF Send

\* So is what clients, staff, agent and operator do.
LEMMA PeopleCall == People => InboxNext
<1> SUFFICES ASSUME People PROVE InboxNext
  OBVIOUS
<1>1. ASSUME NEW p \in Peers, Client(p) PROVE InboxNext
  <2>1. PICK e \in Events : \/ Record(p, e) \/ InvalidateContext(p, {e})
                           \/ \E j \in Jobs : RecordHeld(p, e, j)
    BY <1>1, Zenon DEF Client
  <2>2. {e} \in SUBSET Events
    OBVIOUS
  <2> QED
    BY <2>1, <2>2, Zenon DEF InboxNext, PeerCall
<1>2. ASSUME NEW p \in Peers, Staff(p) PROVE InboxNext
  <2>1. \/ ObserveOutgoing(p) \/ Guide(p)
        \/ \E c \in {"active", "paused", "human_takeover"} : SetClientControl(p, c)
    BY <1>2, Zenon DEF Staff
  <2> QED
    BY <2>1, Zenon DEF InboxNext, PeerCall
<1>3. ASSUME NEW j \in Jobs, Agent(j) \/ DeadlinePasses(j) PROVE InboxNext
  <2>1. \/ \E es \in SUBSET Events : RefreshJob(j, es)
        \/ \E o \in Outcomes : Result(j, o)
        \/ ReleaseJob(j) \/ NeedsReview(j) \/ DeadlinePasses(j)
    BY <1>3, Zenon DEF Agent, Report
  <2> QED
    BY <2>1, Zenon DEF InboxNext, AgentCall, ExecutionCall
<1>4. CASE Operator
  <2>1. \/ \E on \in BOOLEAN : DutySet(on) \/ SetExecutionPaused(on)
        \/ \E j \in Jobs : \/ ContinueBoundTurn(j) \/ RetryNoEffects(j)
                          \/ BindReviewedThread(j) \/ ReplaceMissingThread(j)
        \/ \E p \in Peers : ForgetMissingThread(p)
    BY <1>4, Zenon DEF Operator
  <2> QED
    BY <2>1, Zenon DEF InboxNext, ExecutionCall, PeerCall
<1> QED
  BY <1>1, <1>2, <1>3, <1>4, Zenon DEF People

\* The programs around the ledger implement its open specification, for any
\* number of clients, messages, requests and troubles.
THEOREM TurnsCallInbox == TurnsSpec => InboxSpec
<1>1. TurnsInit => InboxInit
  BY DEF TurnsInit
<1>2. [TurnsNext]_turnsVars => [InboxNext]_inboxVars
  <2>1. TurnsNext => InboxNext \/ UNCHANGED inboxVars
    BY DispatchCalls, SendCalls, PeopleCall DEF TurnsNext, WakeCrash
  <2>2. UNCHANGED turnsVars => UNCHANGED inboxVars
    BY DEF turnsVars, inboxVars
  <2> QED
    BY <2>1, <2>2
<1> QED
  BY <1>1, <1>2, PTL DEF TurnsSpec, InboxSpec

-----------------------------------------------------------------------------
(* What the bridge sends *)

\* The bridge's two records of its sends keep their values.
SendsTyped ==
    /\ chat \in [Effects -> 0 .. 2]
    /\ ledger \in [Effects -> {"none", "intent", "sent", "verified"}]

\* Nobody but the bridge moves an effect: others take preparations away at most.
EffectsStay ==
    \A f \in Effects :
        \/ /\ effect'[f].state = effect[f].state /\ effect'[f].job = effect[f].job
           /\ effect'[f].kind = effect[f].kind /\ effect'[f].about = effect[f].about
        \/ effect[f].state \in {"none", "reserved"} /\ effect'[f].state = "none"

LEMMA PeopleLeaveEffects == InboxTypeOK /\ People => EffectsStay
<1> SUFFICES ASSUME InboxTypeOK, People PROVE EffectsStay
  OBVIOUS
<1>t. \A f \in Effects : effect[f] \in EffectRow
  BY DEF InboxTypeOK
<1>u. UNCHANGED effect => EffectsStay
  BY DEF EffectsStay
<1>1. ASSUME NEW p \in Peers, NEW es, InvalidateContext(p, es) PROVE EffectsStay
  <2>1. \A f \in Effects : \/ effect'[f] = effect[f]
                           \/ effect'[f] = [effect[f] EXCEPT !.exact = FALSE]
    BY <1>1 DEF InvalidateContext
  <2> QED
    BY <1>t, <2>1 DEF EffectsStay, EffectRow
<1>2. ASSUME NEW j \in Jobs, NEW es, RefreshJob(j, es) PROVE EffectsStay
  <2>1. \A f \in Effects :
          \/ effect'[f] = effect[f]
          \/ effect[f].state = "reserved" /\ effect'[f] = NoEffect
          \/ \E same : effect'[f] = [effect[f] EXCEPT !.same = same]
    BY <1>2, Zenon DEF RefreshJob
  <2>2. ASSUME NEW f \in Effects, NEW same, effect'[f] = [effect[f] EXCEPT !.same = same]
        PROVE  /\ effect'[f].state = effect[f].state /\ effect'[f].job = effect[f].job
               /\ effect'[f].kind = effect[f].kind /\ effect'[f].about = effect[f].about
    BY <1>t, <2>2 DEF EffectRow
  <2>3. NoEffect.state = "none"
    BY DEF NoEffect
  <2> QED
    BY <2>1, <2>2, <2>3, Zenon DEF EffectsStay
<1>3. ASSUME NEW j \in Jobs, RetryNoEffects(j) PROVE EffectsStay
  <2>1. \A f \in Effects :
          \/ effect'[f] = effect[f]
          \/ f \in EffectsOf(j) /\ f \notin Tried(j) /\ effect'[f] = NoEffect
    BY <1>3 DEF RetryNoEffects
  <2> QED
    BY <1>t, <2>1 DEF EffectsStay, EffectRow, NoEffect, EffectsOf, Tried
<1>4. ASSUME NEW p \in Peers, Client(p) PROVE EffectsStay
  BY <1>4, <1>1, <1>u DEF Client, Record, RecordHeld, Arrives
<1>5. ASSUME NEW p \in Peers, Staff(p) PROVE EffectsStay
  BY <1>5, <1>u DEF Staff, ObserveOutgoing, Guide, SetClientControl
<1>6. ASSUME NEW j \in Jobs, Agent(j) \/ DeadlinePasses(j) PROVE EffectsStay
  BY <1>6, <1>2, <1>u, Zenon
  DEF Agent, DeadlinePasses, Report, Result, ReleaseJob, NeedsReview
<1>7. CASE Operator
  BY <1>7, <1>3, <1>u, Zenon
  DEF Operator, DutySet, SetExecutionPaused, ContinueBoundTurn, BindReviewedThread,
      ReplaceMissingThread, ForgetMissingThread, SetThread
<1> QED
  BY <1>4, <1>5, <1>6, <1>7 DEF People

LEMMA DispatchLeavesEffects == Dispatch => UNCHANGED <<effect, send, flying, ledger, chat>>
<1> SUFFICES ASSUME NEW j \in Jobs,
        \/ \E p \in Peers, es \in SUBSET Events : ClaimNext(j, p, es)
        \/ Reconcile(j) \/ SelectPeer(j) \/ BeforeStart(j) \/ AskForTurn(j) \/ TurnStarted(j)
        \/ Interrupted(j) \/ StopForPause(j) \/ ReviewStopped(j) \/ InterruptTurn(j)
        \/ Prove(j) \/ Defer(j) \/ Hold(j) \/ AppServer(j)
    PROVE UNCHANGED <<effect, send, flying, ledger, chat>>
  BY DEF Dispatch
<1> USE DEF Usual, BridgeIdle
<1>1. UNCHANGED <<send, flying, ledger, chat>>
  BY DEF ClaimNext, Reconcile, SelectPeer, BeforeStart, AskForTurn, TurnStarted, Interrupted,
         StopForPause, ReviewStopped, InterruptTurn, Prove, Defer, Hold, AppServer
<1>2. UNCHANGED inboxVars => UNCHANGED effect
  BY DEF inboxVars
<1>3. NeedsReview(j) => UNCHANGED effect
  BY DEF NeedsReview
<1>4. ASSUME Prove(j) PROVE UNCHANGED effect
  BY <1>4, Zenon DEF Prove, FinishExecution, FinishManual
<1>5. ASSUME SelectPeer(j) \/ BeforeStart(j) \/ TurnStarted(j) \/ Defer(j)
      PROVE  UNCHANGED effect
  BY <1>5, <1>2, Zenon
  DEF SelectPeer, BeforeStart, TurnStarted, Defer, PreparePeerThread, BindPeerThread,
      MarkThreadUnknown, SetThread, StartIntent, BindTurn, DeferFailed
<1>6. ASSUME NEW p, NEW es, ClaimNext(j, p, es) PROVE UNCHANGED effect
  BY <1>6 DEF ClaimNext, Claim
<1>7. ASSUME \/ Reconcile(j) \/ AskForTurn(j) \/ Interrupted(j) \/ StopForPause(j)
             \/ ReviewStopped(j) \/ InterruptTurn(j) \/ Hold(j) \/ AppServer(j)
      PROVE  UNCHANGED effect
  BY <1>7, <1>2, <1>3, Zenon
  DEF Reconcile, AskForTurn, Interrupted, StopForPause, ReviewStopped, InterruptTurn, Hold,
      AppServer
<1> QED
  BY <1>1, <1>4, <1>5, <1>6, <1>7

\* How far the message of one effect has come, from its row, its entry and the chat.
SentRow(f) ==
    /\ f \in flying => chat[f] = 0
    /\ chat[f] <= 1
    /\ f \in flying \/ chat[f] > 0 =>
          effect[f].state \in {"attempted", "verified"} /\ ledger[f] # "none"
    /\ effect[f].state = "verified" => chat[f] = 1 /\ ledger[f] = "verified"
SendsOK == SendsTyped /\ \A f \in Effects : SentRow(f)

\* A step that leaves the message of g alone.
LEMMA RowStays ==
    ASSUME NEW g \in Effects, SentRow(g), SendsTyped,
           chat'[g] = chat[g], ledger'[g] = ledger[g], g \in flying' => g \in flying,
           \/ effect'[g].state = effect[g].state
           \/ effect[g].state \in {"none", "reserved"} /\ effect'[g].state \in {"none", "reserved"}
    PROVE  SentRow(g)'
BY DEF SentRow, SendsTyped

\* A step of the bridge concerns the message of one effect.
LEMMA OthersStay ==
    ASSUME SendsOK, SendsTyped', NEW f \in Effects, SentRow(f)',
           \A g \in Effects : g # f =>
              /\ chat'[g] = chat[g] /\ ledger'[g] = ledger[g] /\ (g \in flying' => g \in flying)
              /\ effect'[g] = effect[g]
    PROVE  SendsOK'
<1>1. ASSUME NEW g \in Effects, g # f PROVE SentRow(g)'
  BY <1>1, RowStays DEF SendsOK
<1> QED
  BY <1>1 DEF SendsOK

\* The inbox takes an intent, verifies an effect, holds a request back.
LEMMA MarkMoves ==
    ASSUME InboxTypeOK, NEW f \in Effects, MarkEffectIntent(f)
    PROVE  /\ effect[f].state = "reserved" /\ effect'[f].state = "attempted"
           /\ \A g \in Effects : g # f => effect'[g] = effect[g]
BY DEF InboxTypeOK, MarkEffectIntent, EffectRow

LEMMA VerifyMoves ==
    ASSUME InboxTypeOK, NEW f \in Effects, VerifyEffect(f)
    PROVE  /\ effect[f].state \in {"reserved", "attempted"} /\ effect'[f].state = "verified"
           /\ \A g \in Effects : g # f => effect'[g] = effect[g]
BY DEF InboxTypeOK, VerifyEffect, EffectRow

LEMMA SendKeeps == InboxTypeOK /\ SendsOK /\ Send => SendsOK'
<1> SUFFICES ASSUME InboxTypeOK, SendsOK, Send PROVE SendsOK'
  OBVIOUS
<1>t. SendsTyped /\ \A f \in Effects : SentRow(f)
  BY DEF SendsOK
<1>u. ASSUME UNCHANGED <<chat, ledger>>, flying' \subseteq flying, UNCHANGED effect PROVE SendsOK'
  <2>1. SendsTyped'
    BY <1>t, <1>u DEF SendsTyped
  <2> QED
    BY <1>t, <1>u, <2>1, RowStays DEF SendsOK
<1>1. ASSUME NEW j \in Jobs, NEW f \in Effects, NEW k \in Kinds, DryRun(j, f, k) PROVE SendsOK'
  <2>1. /\ UNCHANGED <<chat, ledger, flying>>
        /\ effect[f].state = "none" /\ effect'[f].state = "reserved"
        /\ \A g \in Effects : g # f => effect'[g] = effect[g]
    BY <1>1 DEF DryRun, ReserveEffect, InboxTypeOK
  <2>2. SendsTyped'
    BY <1>t, <2>1 DEF SendsTyped
  <2>3. SentRow(f)'
    BY <1>t, <2>1, RowStays
  <2> QED
    BY <2>1, <2>2, <2>3, OthersStay
<1>2. ASSUME NEW j \in Jobs, NEW f \in Effects, Apply(j, f) \/ SendFails(j, f) PROVE SendsOK'
  BY <1>2, <1>u, Zenon DEF Apply, SendFails, NeedsReview, inboxVars
<1>3. ASSUME NEW j \in Jobs, NEW f \in Effects, SendIntent(j, f) PROVE SendsOK'
  <2>1. /\ ledger[f] = "none" /\ ledger' = [ledger EXCEPT ![f] = "intent"]
        /\ flying' = flying \cup {f} /\ chat' = chat /\ MarkEffectIntent(f)
    BY <1>3 DEF SendIntent
  <2>2. SendsTyped' /\ ledger'[f] = "intent"
    BY <1>t, <2>1 DEF SendsTyped
  <2>3. SentRow(f)'
    BY <1>t, <2>1, <2>2, MarkMoves DEF SentRow, SendsTyped
  <2> QED
    BY <1>t, <2>1, <2>2, <2>3, MarkMoves, OthersStay DEF SendsTyped
<1>4. ASSUME NEW j \in Jobs, NEW f \in Effects, SendAnswered(j, f) PROVE SendsOK'
  <2>1. /\ ledger[f] = "intent" /\ ledger' = [ledger EXCEPT ![f] = "sent"]
        /\ UNCHANGED <<effect, flying, chat>>
    BY <1>4 DEF SendAnswered, inboxVars
  <2>2. SendsTyped' /\ ledger'[f] = "sent"
    BY <1>t, <2>1 DEF SendsTyped
  <2>3. SentRow(f)'
    BY <1>t, <2>1, <2>2 DEF SentRow
  <2> QED
    BY <1>t, <2>1, <2>2, <2>3, OthersStay DEF SendsTyped
<1>5. ASSUME NEW j \in Jobs, NEW f \in Effects, ReadBack(j, f) PROVE SendsOK'
  <2>1. /\ chat[f] > 0 /\ ledger' = [ledger EXCEPT ![f] = "verified"]
        /\ VerifyEffect(f) \/ (effect[f].state = "verified" /\ UNCHANGED effect)
        /\ UNCHANGED <<flying, chat>>
    BY <1>5 DEF ReadBack, inboxVars
  <2>2. /\ effect'[f].state = "verified"
        /\ \A g \in Effects : g # f => effect'[g] = effect[g]
    BY <2>1, VerifyMoves
  <2>3. SendsTyped' /\ ledger'[f] = "verified"
    BY <1>t, <2>1 DEF SendsTyped
  <2>4. SentRow(f)'
    BY <1>t, <2>1, <2>2, <2>3 DEF SentRow, SendsTyped
  <2> QED
    BY <1>t, <2>1, <2>2, <2>3, <2>4, OthersStay DEF SendsTyped
<1>6. ASSUME NEW f \in Effects, Posted(f) PROVE SendsOK'
  <2>1. /\ f \in flying /\ flying' = flying \ {f}
        /\ chat' = [chat EXCEPT ![f] = chat[f] + 1]
        /\ UNCHANGED <<effect, ledger>>
    BY <1>6 DEF Posted, inboxVars
  <2>2. chat[f] = 0 /\ chat'[f] = 1 /\ f \notin flying'
    BY <1>t, <2>1 DEF SentRow, SendsTyped
  <2>3. SendsTyped'
    BY <1>t, <2>1, <2>2 DEF SendsTyped
  <2>4. SentRow(f)'
    BY <1>t, <2>1, <2>2 DEF SentRow
  <2> QED
    BY <1>t, <2>1, <2>3, <2>4, OthersStay DEF SendsTyped
<1> QED
  BY <1>1, <1>2, <1>3, <1>4, <1>5, <1>6 DEF Send

\* Wherever the bridge stops, what was done of a send is known to the files.
LEMMA CrashKeeps == InboxTypeOK /\ SendsOK /\ BridgeCrash => SendsOK'
<1> SUFFICES ASSUME InboxTypeOK, SendsOK, BridgeCrash PROVE SendsOK'
  OBVIOUS
<1>t. SendsTyped /\ \A f \in Effects : SentRow(f)
  BY DEF SendsOK
<1>0. UNCHANGED <<flying, chat>>
  BY DEF BridgeCrash
<1>1. CASE UNCHANGED <<effect, ledger>>
  <2>1. SendsTyped'
    BY <1>t, <1>0, <1>1 DEF SendsTyped
  <2> QED
    BY <1>t, <1>0, <1>1, <2>1, RowStays DEF SendsOK
<1>2. ASSUME NEW f \in Effects, ledger[f] = "none", MarkEffectIntent(f), UNCHANGED ledger
      PROVE  SendsOK'
  <2>1. SendsTyped'
    BY <1>t, <1>0, <1>2 DEF SendsTyped
  <2>2. SentRow(f)'
    BY <1>t, <1>0, <1>2, MarkMoves DEF SentRow
  <2> QED
    BY <1>0, <1>2, <2>1, <2>2, MarkMoves, OthersStay
<1>3. ASSUME NEW f \in Effects, ledger[f] = "sent", ledger' = [ledger EXCEPT ![f] = "verified"],
             UNCHANGED effect
      PROVE  SendsOK'
  <2>1. SendsTyped' /\ ledger'[f] = "verified"
    BY <1>t, <1>0, <1>3 DEF SendsTyped
  <2>2. SentRow(f)'
    BY <1>t, <1>0, <1>3, <2>1 DEF SentRow
  <2> QED
    BY <1>t, <1>0, <1>3, <2>1, <2>2, OthersStay DEF SendsTyped
<1> QED
  BY <1>1, <1>2, <1>3, Zenon DEF BridgeCrash, inboxVars

LEMMA SendsStep == InboxTypeOK /\ SendsOK /\ [TurnsNext]_turnsVars => SendsOK'
<1> SUFFICES ASSUME InboxTypeOK, SendsOK, [TurnsNext]_turnsVars PROVE SendsOK'
  OBVIOUS
<1>1. ASSUME UNCHANGED <<flying, ledger, chat>>, EffectsStay PROVE SendsOK'
  <2>1. SendsTyped'
    BY <1>1 DEF SendsOK, SendsTyped
  <2>2. ASSUME NEW f \in Effects PROVE SentRow(f)'
    BY <1>1, RowStays DEF SendsOK, EffectsStay
  <2> QED
    BY <2>1, <2>2 DEF SendsOK
<1>2. UNCHANGED effect => EffectsStay
  BY DEF EffectsStay
<1>3. CASE Dispatch
  BY <1>1, <1>2, <1>3, DispatchLeavesEffects
<1>4. CASE People
  BY <1>1, <1>4, PeopleLeaveEffects DEF People
<1>5. CASE WakeCrash \/ UNCHANGED turnsVars
  BY <1>1, <1>2, <1>5 DEF WakeCrash, turnsVars, inboxVars
<1>6. CASE Send \/ BridgeCrash
  BY <1>6, SendKeeps, CrashKeeps
<1> QED
  BY <1>3, <1>4, <1>5, <1>6 DEF TurnsNext

LEMMA SendsInit == TurnsInit => SendsOK
<1> SUFFICES ASSUME TurnsInit PROVE SendsOK
  OBVIOUS
<1>1. /\ chat = [f \in Effects |-> 0] /\ ledger = [f \in Effects |-> "none"] /\ flying = {}
      /\ \A f \in Effects : effect[f].state = "none"
  BY DEF TurnsInit, InboxInit, NoEffect
<1> QED
  BY <1>1 DEF SendsOK, SendsTyped, SentRow

\* A message is given to Telegram once, after both intents, and what is called
\* verified stands in the chat, wherever the bridge was stopped.
THEOREM MessagesSentOnce == TurnsSpec => []SentOnce
<1>1. SendsOK => SentOnce
  BY DEF SendsOK, SendsTyped, SentRow, SentOnce
<1>2. TurnsSpec => []InboxTypeOK
  BY TurnsCallInbox, TypeCorrect, PTL
<1> QED
  BY <1>1, <1>2, SendsInit, SendsStep, PTL DEF TurnsSpec

-----------------------------------------------------------------------------
(* The turn at work *)

\* A request that was not started has no turn.
UnstartedHasNone ==
    \A j \in Jobs : /\ job[j].state \in {"none", "claimed"} => ~job[j].thread
                    /\ ~job[j].thread => turn[j] = "none"

\* The request of a turn has the slot, and not for a recovery or a new claim.
TurnHasPhase ==
    \A j \in Jobs : turn[j] \in Alive => slot.job = j /\ slot.phase \in {"start_intent", "running"}

\* What the dispatcher takes as shown without a look at the turn is true.
KnowsTrue ==
    /\ wake.knows = "unasked" =>
          /\ wake.job \in Jobs /\ slot.job = wake.job /\ slot.phase = "start_intent"
          /\ turn[wake.job] = "none" /\ job[wake.job].thread
    /\ wake.knows = "refused" => wake.pc = "stopping" /\ turn[wake.job] = "refused"
    /\ wake.pc = "started" => wake.knows = "unasked"
    /\ wake.pc = "idle" => wake.knows = "no"
    /\ wake.knows \in {"no", "unasked", "refused"}

TurnTyped == turn \in [Jobs -> {"none", "refused", "completed", "stopped"} \cup Alive]

TurnInv == TurnTyped /\ UnstartedHasNone /\ TurnHasPhase /\ KnowsTrue

\* A step after which the slot and the columns of a start are what they were, but
\* for a slot that no turn can have.
StartsStay ==
    /\ slot' = slot \/ slot.job = NoJob \/ slot.phase \in {"claimed", "manual"}
    /\ \A j \in Jobs :
          /\ job'[j].thread = job[j].thread \/ (job[j].state = "none" /\ ~job'[j].thread)
          /\ job'[j].state \in {"none", "claimed"} => job'[j].state = job[j].state

LEMMA TurnFrame ==
    ASSUME TurnInv, StartsStay, UNCHANGED <<turn, wake>>
    PROVE  TurnInv'
<1> USE InboxConstants
<1>1. TurnTyped' /\ UnstartedHasNone'
  BY DEF TurnInv, TurnTyped, UnstartedHasNone, StartsStay
<1>2. TurnHasPhase'
  BY DEF TurnInv, TurnHasPhase, StartsStay
<1>3. KnowsTrue'
  BY DEF TurnInv, KnowsTrue, StartsStay, UnstartedHasNone
<1> QED
  BY <1>1, <1>2, <1>3 DEF TurnInv

LEMMA RowsSame == UNCHANGED <<job, slot>> => StartsStay
BY DEF StartsStay

LEMMA ReviewStays == ASSUME InboxTypeOK, NEW j \in Jobs, NeedsReview(j) PROVE StartsStay
<1>1. slot' = slot /\ job' = [job EXCEPT ![j] = [job[j] EXCEPT !.state = "needs_review"]]
  BY DEF NeedsReview
<1>2. job[j] \in JobRow /\ job \in [Jobs -> JobRow]
  BY DEF InboxTypeOK
<1> QED
  BY <1>1, <1>2 DEF StartsStay, JobRow

\* What the clients and the staff do.
LEMMA ClientStays == ASSUME InboxTypeOK, NEW p \in Peers, Client(p) \/ Staff(p) PROVE StartsStay
<1>t. job \in [Jobs -> JobRow]
  BY DEF InboxTypeOK
<1> DEFINE B == Behind(job, p)
<1>b. /\ B \in [Jobs -> JobRow]
      /\ \A j \in Jobs : B[j].state = job[j].state /\ B[j].thread = job[j].thread
  <2>1. B \in [Jobs -> JobRow]
    BY <1>t, BehindType
  <2>2. ASSUME NEW j \in Jobs PROVE B[j].state = job[j].state /\ B[j].thread = job[j].thread
    <3>1. job[j] \in JobRow
      BY <1>t
    <3> QED
      BY <3>1 DEF Behind, JobRow
  <2> QED
    BY <2>1, <2>2
<1>1. ASSUME NEW e, NEW j \in Jobs, RecordHeld(p, e, j) PROVE StartsStay
  <2> DEFINE row == [UnusedJob EXCEPT !.peer = p, !.state = "needs_review",
                                      !.proof = "not_started", !.current = TRUE]
  <2>1. row.state = "needs_review" /\ row.thread = FALSE
    BY DEF UnusedJob
  <2>2. job' = [B EXCEPT ![j] = row] /\ slot' = slot /\ job[j].state = "none"
    BY <1>1 DEF RecordHeld, Arrives
  <2> HIDE DEF row, B
  <2> QED
    BY <1>b, <2>1, <2>2 DEF StartsStay
<1>2. ASSUME UNCHANGED slot, job' = B PROVE StartsStay
  <2> HIDE DEF B
  <2> QED
    BY <1>b, <1>2 DEF StartsStay
<1>3. ASSUME NEW c, SetClientControl(p, c) PROVE StartsStay
  <2> DEFINE W == Releasable(job, control', p)
  <2>1. slot' = slot /\ job' = Released(B, W)
    BY <1>3 DEF SetClientControl
  <2> HIDE DEF B, W
  <2> QED
    BY <1>b, <2>1 DEF StartsStay, Released, JobRow
<1>4. CASE Client(p)
  BY <1>1, <1>2, <1>4 DEF Client, Record, Arrives, InvalidateContext
<1>5. CASE Staff(p)
  BY <1>2, <1>3, <1>5 DEF Staff, ObserveOutgoing, Guide
<1> QED
  BY <1>4, <1>5

\* What the agent and the operator do: they take the slot when it is free, and
\* give back that of a claim or of a recovery.
LEMMA AgentStays ==
    ASSUME InboxTypeOK, NEW j \in Jobs, Agent(j) \/ DeadlinePasses(j)
    PROVE  StartsStay
<1>t. job \in [Jobs -> JobRow] /\ job[j] \in JobRow
  BY DEF InboxTypeOK
<1>1. ASSUME NEW st \in {"completed", "waiting_control", "needs_review"},
             job' = [job EXCEPT ![j] = [job[j] EXCEPT !.state = st]],
             slot' = slot \/ slot.phase \in {"claimed", "manual"}
      PROVE  StartsStay
  BY <1>1, <1>t DEF StartsStay, JobRow
<1>2. ASSUME NEW es, RefreshJob(j, es) PROVE StartsStay
  <2>1. slot' = slot /\ job' = [job EXCEPT ![j] = [job[j] EXCEPT !.current = TRUE]]
    BY <1>2 DEF RefreshJob
  <2> QED
    BY <2>1, <1>t DEF StartsStay, JobRow
<1>3. CASE DeadlinePasses(j)
  <2>1. slot' = slot /\ job' = [job EXCEPT ![j] = [job[j] EXCEPT !.granted = FALSE]]
    BY <1>3 DEF DeadlinePasses
  <2> QED
    BY <2>1, <1>t DEF StartsStay, JobRow
<1>4. ASSUME NEW o \in Outcomes, Result(j, o) PROVE StartsStay
  <2>1. slot' = slot \/ slot = [job |-> j, phase |-> "manual"]
    BY <1>4, Zenon DEF Result
  <2>2. slot' = slot \/ slot.phase \in {"claimed", "manual"}
    BY <2>1
  <2>3. \E st \in {"completed", "waiting_control"} :
            job' = [job EXCEPT ![j] = [job[j] EXCEPT !.state = st]]
    <3>1. \/ job' = [job EXCEPT ![j].state = "completed"]
          \/ job' = [job EXCEPT ![j].state = "waiting_control"]
      BY <1>4, Zenon DEF Result, Complete
    <3> QED
      BY <3>1
  <2> QED
    BY <2>2, <2>3, <1>1
<1>5. CASE ReleaseJob(j)
  <2>1. slot' = slot \/ slot = [job |-> j, phase |-> "claimed"]
    BY <1>5, Zenon DEF ReleaseJob
  <2>2. slot' = slot \/ slot.phase \in {"claimed", "manual"}
    BY <2>1
  <2>3. \/ job' = Released(job, {j})
        \/ job' = [job EXCEPT ![j] = [job[j] EXCEPT !.state = "needs_review",
                                                    !.proof = "not_started"]]
    BY <1>5, Zenon DEF ReleaseJob
  <2>4. ASSUME NEW i \in Jobs
        PROVE  /\ job'[i].thread = job[i].thread
               /\ job'[i].state \in {"none", "claimed"} => job'[i].state = job[i].state
    <3>1. CASE job' = Released(job, {j})
      BY <3>1, <1>t DEF Released, JobRow
    <3>2. CASE job' = [job EXCEPT ![j] = [job[j] EXCEPT !.state = "needs_review",
                                                        !.proof = "not_started"]]
      BY <3>2, <1>t DEF JobRow
    <3> QED
      BY <2>3, <3>1, <3>2
  <2> QED
    BY <2>2, <2>4 DEF StartsStay
<1> QED
  BY <1>2, <1>3, <1>4, <1>5, ReviewStays DEF Agent, Report

LEMMA OperatorStays == InboxTypeOK /\ Operator => StartsStay
<1> SUFFICES ASSUME InboxTypeOK, Operator PROVE StartsStay
  OBVIOUS
<1>t. job \in [Jobs -> JobRow]
  BY DEF InboxTypeOK
<1>1. ASSUME NEW on \in BOOLEAN, DutySet(on) \/ SetExecutionPaused(on) PROVE StartsStay
  <2>1. CASE DutySet(on)
    BY <2>1, RowsSame DEF DutySet
  <2>2. CASE SetExecutionPaused(on)
    <3>1. slot' = slot /\ job' = [i \in Jobs |-> [job[i] EXCEPT !.granted = FALSE]]
      BY <2>2 DEF SetExecutionPaused
    <3> QED
      BY <3>1, <1>t DEF StartsStay, JobRow
  <2> QED
    BY <1>1, <2>1, <2>2
<1>2. ASSUME NEW j \in Jobs, ContinueBoundTurn(j) PROVE StartsStay
  <2>1. /\ slot.job = NoJob
        /\ job' = [job EXCEPT ![j] = [job[j] EXCEPT !.state = "running", !.granted = TRUE,
                                                    !.manual = TRUE]]
    BY <1>2 DEF ContinueBoundTurn, Reviewed, SlotFree
  <2>2. job[j] \in JobRow
    BY <1>t
  <2> QED
    BY <2>1, <2>2, <1>t DEF StartsStay, JobRow
<1>3. ASSUME NEW j \in Jobs, RetryNoEffects(j) PROVE StartsStay
  <2>1. /\ slot' = slot
        /\ job' = [job EXCEPT ![j] = [job[j] EXCEPT !.state = "released", !.granted = TRUE,
                                                    !.manual = FALSE]]
    BY <1>3 DEF RetryNoEffects
  <2>2. job[j] \in JobRow
    BY <1>t
  <2> QED
    BY <2>1, <2>2, <1>t DEF StartsStay, JobRow
<1>4. ASSUME NEW j \in Jobs, BindReviewedThread(j) \/ ReplaceMissingThread(j) PROVE StartsStay
  BY <1>4, RowsSame DEF BindReviewedThread, ReplaceMissingThread, SetThread
<1>5. ASSUME NEW p \in Peers, ForgetMissingThread(p) PROVE StartsStay
  BY <1>5, RowsSame DEF ForgetMissingThread, SetThread
<1> QED
  BY <1>1, <1>2, <1>3, <1>4, <1>5 DEF Operator

LEMMA SendStays == InboxTypeOK /\ (Send \/ BridgeCrash) => StartsStay
<1> SUFFICES ASSUME InboxTypeOK, Send \/ BridgeCrash PROVE StartsStay
  OBVIOUS
<1>1. ASSUME NEW f, MarkEffectIntent(f) \/ VerifyEffect(f) PROVE StartsStay
  BY <1>1, RowsSame DEF MarkEffectIntent, VerifyEffect
<1>2. UNCHANGED inboxVars => StartsStay
  BY RowsSame DEF inboxVars
<1>3. ASSUME NEW j, NEW f, NEW k, ReserveEffect(j, f, k) PROVE StartsStay
  BY <1>3, RowsSame DEF ReserveEffect
<1>4. CASE BridgeCrash
  BY <1>1, <1>2, <1>4, Zenon DEF BridgeCrash
<1>5. ASSUME NEW j \in Jobs, NEW f \in Effects, Apply(j, f) PROVE StartsStay
  BY <1>2, <1>5, ReviewStays, Zenon DEF Apply
<1>6. ASSUME NEW j \in Jobs, NEW f \in Effects,
             \/ Apply(j, f) \/ \E k \in Kinds : DryRun(j, f, k)
             \/ SendIntent(j, f) \/ SendFails(j, f) \/ SendAnswered(j, f) \/ ReadBack(j, f)
      PROVE  StartsStay
  BY <1>1, <1>2, <1>3, <1>5, <1>6, Zenon
  DEF DryRun, SendIntent, SendFails, SendAnswered, ReadBack
<1>7. ASSUME NEW f \in Effects, Posted(f) PROVE StartsStay
  BY <1>2, <1>7, Zenon DEF Posted
<1> QED
  BY <1>4, <1>6, <1>7, Zenon DEF Send

\* What a step of the dispatcher has to keep, its knowledge apart.
LEMMA StartsFrame ==
    ASSUME TurnInv, StartsStay, turn' = turn
    PROVE  TurnTyped' /\ UnstartedHasNone' /\ TurnHasPhase'
<1> USE InboxConstants
<1>1. TurnTyped' /\ UnstartedHasNone'
  BY DEF TurnInv, TurnTyped, UnstartedHasNone, StartsStay
<1>2. TurnHasPhase'
  BY DEF TurnInv, TurnHasPhase, StartsStay
<1> QED
  BY <1>1, <1>2

LEMMA KnowsNothing ==
    ASSUME wake'.knows = "no", wake'.pc # "started"
    PROVE  KnowsTrue'
BY DEF KnowsTrue

\* Claiming, choosing the thread, writing the intent of a start.
LEMMA StartTurns ==
    ASSUME InboxTypeOK, TurnInv, NEW j \in Jobs,
           \/ \E p \in Peers, es \in SUBSET Events : ClaimNext(j, p, es)
           \/ Reconcile(j) \/ SelectPeer(j) \/ BeforeStart(j)
    PROVE  TurnInv'
<1> USE DEF Usual, BridgeIdle
<1>t. /\ job \in [Jobs -> JobRow] /\ job[j] \in JobRow
      /\ slot \in [job : Jobs \cup {NoJob}, phase : Phases]
  BY DEF InboxTypeOK
<1>k. KnowsTrue
  BY DEF TurnInv
<1>1. ASSUME NEW p \in Peers, NEW es \in SUBSET Events, ClaimNext(j, p, es) PROVE TurnInv'
  <2> DEFINE row == [UnusedJob EXCEPT !.peer = p, !.state = "claimed", !.current = TRUE,
                                      !.granted = TRUE]
  <2>1. row.state = "claimed" /\ row.thread = FALSE
    BY DEF UnusedJob
  <2>2. /\ slot.job = NoJob /\ slot' = [job |-> j, phase |-> "claimed"] /\ turn' = turn
        /\ job' = [job EXCEPT ![j] = row] /\ job[j].state = "none"
        /\ wake.pc = "idle"
        /\ (wake' = wake \/ wake' = [pc |-> "claimed", job |-> j, knows |-> "no"])
    BY <1>1 DEF ClaimNext, Claim, SlotFree, Dispatcher
  <2> HIDE DEF row
  <2>3. TurnTyped' /\ UnstartedHasNone'
    BY <1>t, <2>1, <2>2 DEF TurnInv, TurnTyped, UnstartedHasNone
  <2>4. TurnHasPhase'
    BY <2>2, InboxConstants DEF TurnInv, TurnHasPhase
  <2>5. KnowsTrue'
    BY <1>k, <2>2, KnowsNothing DEF KnowsTrue
  <2> QED
    BY <2>3, <2>4, <2>5 DEF TurnInv
<1>2. CASE Reconcile(j)
  <2>1. turn' = turn /\ wake'.knows = "no" /\ wake'.pc # "started"
    BY <1>2 DEF Reconcile, Dispatcher
  <2>2. NeedsReview(j) \/ UNCHANGED inboxVars
    BY <1>2, Zenon DEF Reconcile
  <2>3. StartsStay
    BY <2>2, ReviewStays, RowsSame DEF inboxVars
  <2> QED
    BY <2>1, <2>3, StartsFrame, KnowsNothing DEF TurnInv
<1>3. CASE SelectPeer(j)
  <2>1. /\ turn' = turn /\ UNCHANGED <<job, slot>>
        /\ wake' = wake \/ wake' = [pc |-> "stopping", job |-> j, knows |-> "no"]
    BY <1>3
    DEF SelectPeer, PreparePeerThread, BindPeerThread, MarkThreadUnknown, SetThread, Dispatcher
  <2>2. StartsStay
    BY <2>1, RowsSame
  <2>3. CASE wake' = wake
    BY <2>1, <2>2, <2>3, TurnFrame
  <2>4. CASE wake' = [pc |-> "stopping", job |-> j, knows |-> "no"]
    BY <2>1, <2>2, <2>4, StartsFrame, KnowsNothing DEF TurnInv
  <2> QED
    BY <2>1, <2>3, <2>4
<1>4. CASE BeforeStart(j)
  <2>1. /\ turn' = turn /\ job[j].state = "claimed" /\ slot.job = j
        /\ slot' = [slot EXCEPT !.phase = "start_intent"]
        /\ job' = [job EXCEPT ![j] = [job[j] EXCEPT !.state = "start_intent", !.thread = TRUE]]
        /\ wake' = [pc |-> "started", job |-> j, knows |-> "unasked"]
    BY <1>4 DEF BeforeStart, StartIntent, RequireExecution, Dispatcher
  <2>2. /\ slot'.job = j /\ slot'.phase = "start_intent" /\ turn[j] = "none"
        /\ job'[j].thread = TRUE /\ job'[j].state = "start_intent"
        /\ \A i \in Jobs : i # j => job'[i] = job[i]
    BY <1>t, <2>1 DEF TurnInv, UnstartedHasNone, JobRow
  <2>3. TurnTyped' /\ UnstartedHasNone' /\ TurnHasPhase'
    BY <2>1, <2>2 DEF TurnInv, TurnTyped, UnstartedHasNone, TurnHasPhase
  <2>4. KnowsTrue'
    BY <2>1, <2>2 DEF KnowsTrue
  <2> QED
    BY <2>3, <2>4 DEF TurnInv
<1> QED
  BY <1>1, <1>2, <1>3, <1>4

\* The turn and its end: the App Server and what the dispatcher asks of it.
LEMMA ServerTurns ==
    ASSUME InboxTypeOK, TurnInv, NEW j \in Jobs,
           AskForTurn(j) \/ TurnStarted(j) \/ InterruptTurn(j) \/ AppServer(j)
    PROVE  TurnInv'
<1> USE DEF Usual, BridgeIdle
<1>t. /\ job \in [Jobs -> JobRow] /\ job[j] \in JobRow
      /\ slot \in [job : Jobs \cup {NoJob}, phase : Phases]
      /\ turn \in [Jobs -> {"none", "refused", "completed", "stopped"} \cup Alive]
  BY DEF InboxTypeOK, TurnInv, TurnTyped
<1>k. KnowsTrue
  BY DEF TurnInv
<1>1. ASSUME NEW s \in {"none", "refused", "completed", "stopped"} \cup Alive,
             turn' = [turn EXCEPT ![j] = s], UNCHANGED <<job, slot>>,
             job[j].thread,
             s \in Alive => slot.job = j /\ slot.phase \in {"start_intent", "running"}
      PROVE  TurnTyped' /\ UnstartedHasNone' /\ TurnHasPhase'
  BY <1>t, <1>1 DEF TurnInv, TurnTyped, UnstartedHasNone, TurnHasPhase
<1>2. CASE AskForTurn(j)
  <2>1. /\ wake.pc = "started" /\ wake.job = j /\ UNCHANGED <<job, slot>>
        /\ turn' = [turn EXCEPT ![j] = "asked"]
        /\ wake' = [pc |-> "asked", job |-> j, knows |-> "no"]
    BY <1>2 DEF AskForTurn, Dispatcher, inboxVars
  <2>2. slot.job = j /\ slot.phase = "start_intent" /\ job[j].thread
    BY <1>k, <2>1 DEF KnowsTrue
  <2>3. TurnTyped' /\ UnstartedHasNone' /\ TurnHasPhase'
    BY <1>1, <2>1, <2>2 DEF Alive
  <2> QED
    BY <2>1, <2>3, KnowsNothing DEF TurnInv
<1>3. CASE TurnStarted(j)
  <2> DEFINE st == IF job[j].state = "needs_review" THEN "needs_review" ELSE "running"
  <2>1. /\ turn' = turn /\ slot = [job |-> j, phase |-> "start_intent"]
        /\ slot' = [slot EXCEPT !.phase = "running"]
        /\ job' = [job EXCEPT ![j] = [job[j] EXCEPT !.turn = TRUE, !.state = st]]
        /\ wake' = [pc |-> "waiting", job |-> j, knows |-> "no"]
    BY <1>3 DEF TurnStarted, BindTurn, Dispatcher
  <2>2. st \in {"needs_review", "running"}
    OBVIOUS
  <2> HIDE DEF st
  <2>3. /\ slot'.job = j /\ slot'.phase = "running" /\ slot.job = j
        /\ job'[j].thread = job[j].thread /\ job'[j].state \notin {"none", "claimed"}
        /\ \A i \in Jobs : i # j => job'[i] = job[i]
    BY <1>t, <2>1, <2>2 DEF JobRow
  <2>4. TurnTyped' /\ UnstartedHasNone' /\ TurnHasPhase'
    BY <2>1, <2>3 DEF TurnInv, TurnTyped, UnstartedHasNone, TurnHasPhase
  <2> QED
    BY <2>1, <2>4, KnowsNothing DEF TurnInv
<1>4. ASSUME NEW s \in {"running", "refused", "completed", "stopped"}, turn[j] \in Alive,
             turn' = [turn EXCEPT ![j] = s], UNCHANGED <<job, slot, wake>>
      PROVE  TurnInv'
  <2>1. /\ job[j].thread /\ slot.job = j /\ slot.phase \in {"start_intent", "running"}
        /\ s \in {"none", "refused", "completed", "stopped"} \cup Alive
    BY <1>4, <1>t DEF TurnInv, UnstartedHasNone, TurnHasPhase, Alive, JobRow
  <2>2. TurnTyped' /\ UnstartedHasNone' /\ TurnHasPhase'
    BY <1>1, <1>4, <2>1
  <2>3. KnowsTrue'
    BY <1>t, <1>k, <1>4 DEF KnowsTrue, Alive
  <2> QED
    BY <2>2, <2>3 DEF TurnInv
<1>5. CASE InterruptTurn(j)
  BY <1>4, <1>5 DEF InterruptTurn, inboxVars, Alive
<1>6. CASE AppServer(j)
  BY <1>4, <1>6 DEF AppServer, inboxVars, Alive
<1> QED
  BY <1>2, <1>3, <1>5, <1>6

\* Stopping, holding and reviewing a request move nothing but the dispatcher.
LEMMA StopTurns ==
    ASSUME InboxTypeOK, TurnInv, NEW j \in Jobs,
           Interrupted(j) \/ StopForPause(j) \/ ReviewStopped(j) \/ Hold(j)
    PROVE  TurnInv'
<1> USE DEF Usual, BridgeIdle
<1>k. KnowsTrue
  BY DEF TurnInv
<1>1. /\ turn' = turn
      /\ NeedsReview(j) \/ UNCHANGED inboxVars
  BY Zenon DEF Interrupted, StopForPause, ReviewStopped, Hold
<1>2. StartsStay
  BY <1>1, ReviewStays, RowsSame DEF inboxVars
<1>3. TurnTyped' /\ UnstartedHasNone' /\ TurnHasPhase'
  BY <1>1, <1>2, StartsFrame
<1>4. CASE wake' = wake
  BY <1>1, <1>2, <1>4, TurnFrame
\* What is known goes over only with the request it is known of.
<1>5. ASSUME NEW pc, wake'.pc = pc, pc \in {"stopping", "held"},
             \/ wake'.knows = "no"
             \/ wake'.knows = wake.knows /\ wake'.job = wake.job /\ wake.knows # "refused"
             \/ wake'.knows = wake.knows /\ wake.knows = "no"
      PROVE  TurnInv'
  <2>1. CASE wake'.knows = "no"
    BY <1>3, <1>5, <2>1, KnowsNothing DEF TurnInv
  <2>2. CASE wake'.knows = "unasked" /\ wake.knows = "unasked" /\ wake'.job = wake.job
    <3>1. /\ wake.job \in Jobs /\ slot.job = wake.job /\ slot.phase = "start_intent"
          /\ turn[wake.job] = "none" /\ job[wake.job].thread
          /\ job[wake.job].state # "none"
      BY <1>k, <2>2, InboxConstants DEF KnowsTrue, TurnInv, UnstartedHasNone
    <3>2. slot'.job = wake.job /\ slot'.phase = "start_intent" /\ job'[wake.job].thread
      BY <1>2, <3>1, InboxConstants DEF StartsStay
    <3>3. KnowsTrue'
      BY <1>1, <1>5, <2>2, <3>1, <3>2 DEF KnowsTrue
    <3> QED
      BY <1>3, <3>3 DEF TurnInv
  <2> QED
    BY <1>5, <1>k, <2>1, <2>2 DEF KnowsTrue
<1>6. CASE Interrupted(j)
  <2>1. wake.pc \in {"claimed", "started", "asked", "waiting"} /\ wake.job = j
    BY <1>6 DEF Interrupted
  <2>2. wake.knows # "refused"
    BY <1>k, <2>1 DEF KnowsTrue
  <2>3. CASE wake.pc = "asked" /\ turn[j] = "refused"
    <3>1. wake'.pc = "stopping" /\ wake'.job = j /\ wake'.knows = "refused"
      BY <1>6, <2>3 DEF Interrupted, Dispatcher
    <3>2. KnowsTrue'
      BY <1>1, <2>3, <3>1 DEF KnowsTrue
    <3> QED
      BY <1>3, <3>2 DEF TurnInv
  <2>4. CASE ~(wake.pc = "asked" /\ turn[j] = "refused")
    <3>1. wake'.pc = "stopping" /\ wake'.job = j /\ wake'.knows = wake.knows
      BY <1>6, <2>4 DEF Interrupted, Dispatcher
    <3> QED
      BY <1>5, <2>1, <2>2, <3>1
  <2> QED
    BY <2>3, <2>4
<1>7. CASE StopForPause(j)
  <2>1. /\ wake.pc \in {"idle", "held"} /\ slot.job = j
        /\ wake'.pc = "stopping" /\ wake'.job = j /\ wake'.knows = wake.knows
    BY <1>7 DEF StopForPause, Dispatcher
  <2>2. wake.knows = "no" \/ (wake.knows = "unasked" /\ wake.job = j)
    BY <1>k, <2>1 DEF KnowsTrue
  <2> QED
    BY <1>5, <2>1, <2>2
<1>8. CASE ReviewStopped(j)
  BY <1>4, <1>8 DEF ReviewStopped
<1>9. CASE Hold(j)
  <2>1. /\ wake.job = j /\ wake'.pc = "held" /\ wake'.job = j
        /\ wake'.knows = IF wake.knows = "refused" THEN "no" ELSE wake.knows
    BY <1>9 DEF Hold, Dispatcher
  <2> QED
    BY <1>5, <2>1
<1> QED
  BY <1>6, <1>7, <1>8, <1>9

\* A proof is taken of a request whose turn is not at work.
LEMMA ProveTurns ==
    ASSUME InboxTypeOK, TurnInv, NEW j \in Jobs, Prove(j) \/ Defer(j)
    PROVE  TurnInv'
<1> USE DEF Usual, BridgeIdle
<1>t. /\ job \in [Jobs -> JobRow] /\ job[j] \in JobRow
  BY DEF InboxTypeOK
<1>k. KnowsTrue
  BY DEF TurnInv
<1>0. turn' = turn
  BY DEF Prove, Defer
<1>1. CASE Defer(j)
  <2>1. wake' = NoWake /\ (DeferFailed(j) \/ UNCHANGED inboxVars)
    BY <1>1 DEF Defer
  <2>2. ASSUME DeferFailed(j) PROVE StartsStay
    <3>1. /\ slot' = slot
          /\ job' = [job EXCEPT ![j] = [job[j] EXCEPT !.state = "failed_waiting_input"]]
      BY <2>2 DEF DeferFailed
    <3> QED
      BY <3>1, <1>t DEF StartsStay, JobRow
  <2>3. StartsStay
    BY <2>1, <2>2, RowsSame DEF inboxVars
  <2>4. wake'.knows = "no" /\ wake'.pc # "started"
    BY <2>1 DEF NoWake
  <2> QED
    BY <1>0, <2>3, <2>4, StartsFrame, KnowsNothing DEF TurnInv
<1>2. CASE Prove(j)
  <2>1. PICK k \in {"start_rejected", "not_started", "terminal"}, proof \in Proofs :
            /\ Shows(j, k, proof)
            /\ FinishExecution(j, k, proof) \/ FinishManual(j, k, proof)
    BY <1>2, Zenon DEF Prove
  <2>2. /\ wake.pc = "stopping" /\ wake.job = j
        /\ wake' = IF wake.knows = "refused" THEN wake ELSE NoWake
    BY <1>2, Zenon DEF Prove
  <2>3. \A i \in Jobs : /\ job'[i].thread = job[i].thread
                        /\ job'[i].state \in {"none", "claimed"} => job'[i].state = job[i].state
    <3>1. CASE FinishManual(j, k, proof)
      <4>1. job' = [job EXCEPT ![j] = [job[j] EXCEPT !.state = "needs_review", !.manual = FALSE]]
        BY <3>1 DEF FinishManual
      <4> QED
        BY <4>1, <1>t DEF JobRow
    <3>2. CASE FinishExecution(j, k, proof)
      <4> DEFINE S == [job EXCEPT ![j] = Stopped(j, proof)]
                 W == Releasable(S, control, job[j].peer)
      <4>1. job' = Released(S, W)
        BY <3>2 DEF FinishExecution
      <4>2. Stopped(j, proof) \in JobRow /\ Stopped(j, proof).thread = job[j].thread
            /\ (Stopped(j, proof).state = job[j].state \/ Stopped(j, proof).state = "needs_review")
        <5>1. \E st \in {job[j].state, "needs_review"} :
                  Stopped(j, proof) = [job[j] EXCEPT !.proof = proof, !.state = st]
          BY DEF Stopped
        <5> QED
          BY <5>1, <1>t DEF JobRow
      <4>3. S \in [Jobs -> JobRow] /\ S[j] = Stopped(j, proof)
            /\ \A i \in Jobs : i # j => S[i] = job[i]
        BY <1>t, <4>2
      <4> HIDE DEF S, W
      <4>4. \A i \in Jobs : /\ Released(S, W)[i].thread = S[i].thread
                            /\ Released(S, W)[i].state \in {"released", S[i].state}
        BY <4>3 DEF Released, JobRow
      <4> QED
        BY <4>1, <4>2, <4>3, <4>4
    <3> QED
      BY <2>1, <3>1, <3>2
  <2>4. TurnTyped' /\ UnstartedHasNone'
    BY <1>0, <2>3 DEF TurnInv, TurnTyped, UnstartedHasNone
  <2>5. TurnHasPhase'
    <3>1. CASE FinishManual(j, k, proof)
      <4>1. slot.phase = "manual"
        BY <3>1 DEF FinishManual
      <4> QED
        BY <1>0, <4>1 DEF TurnInv, TurnHasPhase
    <3>2. CASE FinishExecution(j, k, proof)
      <4>1. slot.job = j /\ Provable(j, k, proof)
        BY <3>2 DEF FinishExecution
      <4>2. turn[j] \notin Alive
        <5>1. CASE wake.knows # "no" /\ ~job[j].turn /\ job[j].thread
          BY <1>k, <2>2, <5>1 DEF KnowsTrue, Alive
        <5>2. CASE ~job[j].thread
          BY <5>2 DEF TurnInv, UnstartedHasNone, Alive
        <5>3. CASE k = "terminal" /\ turn[j] = proof
          BY <4>1, <5>3 DEF Provable, Alive
        <5> QED
          BY <2>1, <5>1, <5>2, <5>3 DEF Shows
      <4> QED
        BY <1>0, <4>1, <4>2 DEF TurnInv, TurnHasPhase
    <3> QED
      BY <2>1, <3>1, <3>2
  <2>6. KnowsTrue'
    <3>1. CASE wake.knows = "refused"
      BY <1>0, <1>k, <2>2, <3>1 DEF KnowsTrue
    <3>2. CASE wake.knows # "refused"
      BY <2>2, <3>2, KnowsNothing DEF NoWake
    <3> QED
      BY <3>1, <3>2
  <2> QED
    BY <2>4, <2>5, <2>6 DEF TurnInv
<1> QED
  BY <1>1, <1>2

LEMMA TurnStep == InboxTypeOK /\ TurnInv /\ [TurnsNext]_turnsVars => TurnInv'
<1> SUFFICES ASSUME InboxTypeOK, TurnInv, [TurnsNext]_turnsVars PROVE TurnInv'
  OBVIOUS
<1>1. CASE Dispatch
  BY <1>1, StartTurns, ServerTurns, StopTurns, ProveTurns, Zenon DEF Dispatch
<1>2. CASE Send \/ BridgeCrash
  <2>1. UNCHANGED <<turn, wake>>
    BY <1>2 DEF Send, BridgeCrash, DryRun, Apply, SendIntent, SendFails, SendAnswered, ReadBack,
                Posted, BridgeStep
  <2> QED
    BY <1>2, <2>1, SendStays, TurnFrame
<1>3. CASE People
  <2>1. UNCHANGED <<turn, wake>>
    BY <1>3 DEF People
  <2> QED
    BY <1>3, <2>1, ClientStays, AgentStays, OperatorStays, TurnFrame DEF People
<1>4. CASE WakeCrash
  <2>1. turn' = turn /\ wake' = NoWake /\ UNCHANGED <<job, slot>>
    BY <1>4 DEF WakeCrash, inboxVars
  <2>2. wake'.knows = "no" /\ wake'.pc # "started"
    BY <2>1 DEF NoWake
  <2> QED
    BY <2>1, <2>2, RowsSame, StartsFrame, KnowsNothing DEF TurnInv
<1>5. CASE UNCHANGED turnsVars
  BY <1>5, RowsSame, TurnFrame DEF turnsVars
<1> QED
  BY <1>1, <1>2, <1>3, <1>4, <1>5 DEF TurnsNext

LEMMA TurnInit == TurnsInit => TurnInv
<1> SUFFICES ASSUME TurnsInit PROVE TurnInv
  OBVIOUS
<1>1. /\ turn = [j \in Jobs |-> "none"] /\ wake.knows = "no" /\ wake.pc = "idle"
      /\ \A j \in Jobs : ~job[j].thread
  BY DEF TurnsInit, InboxInit, UnusedJob, NoWake
<1> QED
  BY <1>1 DEF TurnInv, TurnTyped, UnstartedHasNone, TurnHasPhase, KnowsTrue, Alive

\* A turn that was asked for or runs is that of the request in the slot, whatever
\* the dispatcher missed when it was stopped: no two turns are ever at work.
THEOREM TurnsHoldSlot == TurnsSpec => []TurnHoldsSlot
<1>1. TurnInv => TurnHoldsSlot
  BY DEF TurnInv, TurnHasPhase, TurnHoldsSlot
<1>2. TurnsSpec => []InboxTypeOK
  BY TurnsCallInbox, TypeCorrect, PTL
<1> QED
  BY <1>1, <1>2, TurnInit, TurnStep, PTL DEF TurnsSpec

-----------------------------------------------------------------------------
(* Who answers a message *)

\* The ways in which a request lets go of its messages, both for good.
GivenUp == {"released", "failed_waiting_input"}

GivenUpFree == \A j \in Jobs : job[j].state \in GivenUp => Binding(j) = {}
UnbegunHasNone == \A j \in Jobs : job[j].state \in {"none", "claimed"} => EffectsOf(j) = {}

\* What an effect is about stays with its request, unless that was given up.
AboutHeld ==
    \A f \in Effects : effect[f].state # "none" =>
        /\ effect[f].job \in Jobs
        /\ job[effect[f].job].state \notin GivenUp => effect[f].about \subseteq Of(effect[f].job)
NoneUnassigned == \A e \in Events : event[e].state = "none" => event[e].job = NoJob

HeldInv == GivenUpFree /\ UnbegunHasNone /\ AboutHeld /\ NoneUnassigned

\* What a call may do to the requests, to their messages, and to the effects.
JobsMove ==
    \A j \in Jobs :
        /\ job[j].state \in GivenUp => job'[j].state \in GivenUp
        /\ job'[j].state \in GivenUp =>
              job[j].state \in GivenUp \cup {"claimed"} \/ Binding(j) = {}
        /\ job'[j].state \in {"none", "claimed"} => job[j].state \in {"none", "claimed"}
EventsMove ==
    \A e \in Events :
        /\ event[e].job \in Jobs =>
              event'[e].job = event[e].job \/ job'[event[e].job].state \in GivenUp
        /\ event'[e].state = "none" => event'[e].job = NoJob
        /\ event[e].state = "reply_verified" => event'[e].job = event[e].job
        /\ event'[e].state = "reply_verified" =>
              \/ event[e].state = "reply_verified"
              \/ /\ event[e].job \in Jobs /\ Answered(event[e].job)
                 /\ event'[e].job = event[e].job
SameColumns(f) ==
    /\ effect'[f].job = effect[f].job /\ effect'[f].kind = effect[f].kind
    /\ effect'[f].about = effect[f].about
EffectsMove ==
    \A f \in Effects :
        \/ effect'[f].state = effect[f].state /\ SameColumns(f)
        \/ effect[f].state \in {"none", "reserved"} /\ effect'[f].state = "none"
        \/ \E j \in Jobs :
              /\ effect[f].state = "none" /\ effect'[f].state = "reserved"
              /\ effect'[f].job = j /\ effect'[f].about = Of(j) /\ job[j].state = "running"
              /\ UNCHANGED <<job, event>>
        \/ /\ effect[f].state = "reserved" /\ effect'[f].state = "attempted" /\ SameColumns(f)
           /\ job[effect[f].job].state = "running" /\ UNCHANGED <<job, event>>
        \/ effect[f].state = "attempted" /\ effect'[f].state = "verified" /\ SameColumns(f)

\* Steps that move so keep the messages of what a request said with it.
LEMMA HeldStep ==
    ASSUME HeldInv, JobsMove, EventsMove, EffectsMove
    PROVE  HeldInv'
<1>1. ASSUME NEW j \in Jobs, job'[j].state \in GivenUp, NEW f \in Effects,
             effect'[f].job = j, effect'[f].state \in {"attempted", "verified"},
             effect'[f].state = "attempted" \/ effect'[f].kind # "ack"
      PROVE  FALSE
  <2>1. Binding(j) = {}
    BY <1>1 DEF HeldInv, GivenUpFree, UnbegunHasNone, JobsMove, Binding, Tried
  <2>2. ASSUME effect[f].state \in {"attempted", "verified"}, effect[f].job = j,
               effect[f].state = "attempted" \/ effect[f].kind # "ack"
        PROVE  FALSE
    BY <2>1, <2>2 DEF Binding, Tried, EffectsOf
  <2>3. ~(job[j].state = "running" /\ UNCHANGED job)
    BY <1>1 DEF GivenUp
  <2> QED
    BY <1>1, <2>2, <2>3 DEF EffectsMove, SameColumns
<1>2. GivenUpFree'
  BY <1>1 DEF GivenUpFree, Binding, Tried, EffectsOf
<1>3. ASSUME NEW j \in Jobs, job'[j].state \in {"none", "claimed"}, NEW f \in Effects,
             effect'[f].job = j, effect'[f].state # "none"
      PROVE  FALSE
  <2>1. job[j].state \in {"none", "claimed"} /\ EffectsOf(j) = {}
    BY <1>3 DEF HeldInv, UnbegunHasNone, JobsMove
  <2>2. ~(effect[f].state # "none" /\ effect[f].job = j)
    BY <2>1 DEF EffectsOf
  <2> QED
    BY <1>3, <2>1, <2>2 DEF EffectsMove, SameColumns
<1>4. UnbegunHasNone'
  BY <1>3 DEF UnbegunHasNone, EffectsOf
<1>5. ASSUME NEW f \in Effects, effect'[f].state # "none"
      PROVE  /\ effect'[f].job \in Jobs
             /\ job'[effect'[f].job].state \notin GivenUp =>
                    effect'[f].about \subseteq {e \in Events : event'[e].job = effect'[f].job}
  <2>1. CASE effect[f].state # "none" /\ SameColumns(f)
    <3>1. effect[f].job \in Jobs
      BY <2>1 DEF HeldInv, AboutHeld
    <3>2. ASSUME job'[effect[f].job].state \notin GivenUp, NEW e \in effect[f].about
          PROVE  e \in Events /\ event'[e].job = effect[f].job
      <4>1. job[effect[f].job].state \notin GivenUp
        BY <3>1, <3>2 DEF JobsMove
      <4>2. e \in Events /\ event[e].job = effect[f].job
        BY <2>1, <3>2, <4>1 DEF HeldInv, AboutHeld, Of
      <4> QED
        BY <3>1, <3>2, <4>2 DEF EventsMove
    <3> QED
      BY <2>1, <3>1, <3>2 DEF SameColumns
  <2>2. ASSUME NEW j \in Jobs, effect'[f].job = j, effect'[f].about = Of(j), UNCHANGED event
        PROVE  /\ effect'[f].job \in Jobs
               /\ effect'[f].about \subseteq {e \in Events : event'[e].job = effect'[f].job}
    BY <2>2 DEF Of
  <2> QED
    BY <1>5, <2>1, <2>2 DEF EffectsMove
<1>6. AboutHeld'
  BY <1>5 DEF AboutHeld, Of
<1>7. NoneUnassigned'
  BY DEF EventsMove, NoneUnassigned
<1> QED
  BY <1>2, <1>4, <1>6, <1>7 DEF HeldInv

\* The forms in which calls move requests and messages.
LEMMA JobsSame == ASSUME \A i \in Jobs : job'[i].state = job[i].state PROVE JobsMove
BY DEF JobsMove

LEMMA OneMoves ==
    ASSUME NEW j \in Jobs, \A i \in Jobs : i # j => job'[i].state = job[i].state,
           job[j].state \notin GivenUp, job'[j].state \notin {"none", "claimed"},
           job'[j].state \in GivenUp => job[j].state = "claimed" \/ Binding(j) = {}
    PROVE  JobsMove
BY DEF JobsMove

LEMMA EventsSame == ASSUME NoneUnassigned, UNCHANGED event PROVE EventsMove
BY DEF NoneUnassigned, EventsMove

LEMMA LetGoMoves ==
    ASSUME NoneUnassigned, event \in [Events -> EventRow], NEW S,
           event' = Detached(event, S), \A i \in Jobs : i \in S => job'[i].state \in GivenUp
    PROVE  EventsMove
<1>1. \A e \in Events :
        /\ event'[e].state = event[e].state
        /\ event'[e].job = IF event[e].job \in S /\ event[e].state = "open"
                           THEN NoJob ELSE event[e].job
  BY DetachedStates
<1> QED
  BY <1>1 DEF NoneUnassigned, EventsMove

LEMMA TakeMoves ==
    ASSUME NoneUnassigned, event \in [Events -> EventRow], NEW j, NEW p,
           NEW es, es \subseteq Unassigned(p), NoJob \notin Jobs,
           event' = [e \in Events |-> IF e \in es THEN [event[e] EXCEPT !.job = j] ELSE event[e]]
    PROVE  EventsMove
<1>1. \A e \in Events :
        /\ event'[e].state = event[e].state
        /\ e \notin es => event'[e].job = event[e].job
        /\ e \in es => event[e].job = NoJob /\ event[e].state = "open"
  BY DEF EventRow, Unassigned
<1> QED
  BY <1>1 DEF NoneUnassigned, EventsMove

LEMMA ArriveMoves ==
    ASSUME NoneUnassigned, event \in [Events -> EventRow], NEW p \in Peers, NEW e \in Events,
           NEW j \in Jobs \cup {NoJob}, Arrives(p, e, j), NoJob \notin Jobs,
           \A i \in Jobs : job[i].state = "failed_waiting_input" => job'[i].state = job[i].state
    PROVE  EventsMove
<1> DEFINE F == FailedWaiters(p)
           D == Detached(event, F)
           row == [peer |-> p, job |-> j, state |-> "open"]
<1>1. event[e].state = "none" /\ event' = [D EXCEPT ![e] = row]
  BY DEF Arrives
<1>2. event[e].job = NoJob
  BY <1>1 DEF NoneUnassigned
<1>3. \A i \in Jobs : i \in F => job'[i].state \in GivenUp
  BY DEF FailedWaiters, GivenUp
<1>4. \A d \in Events : /\ D[d].state = event[d].state
                        /\ D[d].job = IF event[d].job \in F /\ event[d].state = "open"
                                      THEN NoJob ELSE event[d].job
  BY DetachedStates
<1>5. \A d \in Events : /\ d # e => event'[d] = D[d]
                        /\ event'[e].state = "open"
  <2>1. D \in [Events -> EventRow]
    BY DetachedType
  <2> HIDE DEF D
  <2> QED
    BY <1>1, <2>1
<1> HIDE DEF D, F
<1> QED
  BY <1>1, <1>2, <1>3, <1>4, <1>5 DEF NoneUnassigned, EventsMove

\* The calls about a client.
LEMMA PeerCallMoves == Inv /\ NoneUnassigned /\ PeerCall => JobsMove /\ EventsMove
<1> SUFFICES ASSUME Inv, NoneUnassigned, PeerCall PROVE JobsMove /\ EventsMove
  OBVIOUS
<1>t. /\ job \in [Jobs -> JobRow] /\ event \in [Events -> EventRow] /\ NoJob \notin Jobs
  BY InboxConstants DEF Inv, InboxTypeOK
<1>0. PICK p \in Peers :
        \/ \E e \in Events : Record(p, e) \/ \E j \in Jobs : RecordHeld(p, e, j)
        \/ \E es \in SUBSET Events : InvalidateContext(p, es) \/ \E j \in Jobs : Claim(j, p, es)
        \/ ObserveOutgoing(p) \/ Guide(p) \/ ForgetMissingThread(p)
        \/ \E c \in {"active", "paused", "human_takeover"} : SetClientControl(p, c)
  BY DEF PeerCall
<1> DEFINE B == Behind(job, p)
<1>b. B \in [Jobs -> JobRow] /\ \A i \in Jobs : B[i].state = job[i].state
  BY <1>t, BehindType, BehindStates
<1> HIDE DEF B
<1>1. ASSUME NEW e \in Events, Record(p, e) PROVE JobsMove /\ EventsMove
  <2>1. Arrives(p, e, NoJob) /\ \A i \in Jobs : job'[i].state = job[i].state
    BY <1>1, <1>b DEF Record, B
  <2> QED
    BY <2>1, <1>t, JobsSame, ArriveMoves
<1>2. ASSUME NEW e \in Events, NEW j \in Jobs, RecordHeld(p, e, j) PROVE JobsMove /\ EventsMove
  <2> DEFINE row == [UnusedJob EXCEPT !.peer = p, !.state = "needs_review",
                                      !.proof = "not_started", !.current = TRUE]
  <2>1. row.state = "needs_review"
    BY DEF UnusedJob
  <2>2. job' = [B EXCEPT ![j] = row] /\ job[j].state = "none" /\ Arrives(p, e, j)
    BY <1>2 DEF RecordHeld, B
  <2> HIDE DEF row
  <2>3. job'[j].state = "needs_review" /\ \A i \in Jobs : i # j => job'[i].state = job[i].state
    BY <1>b, <2>1, <2>2
  <2>4. JobsMove
    BY <2>2, <2>3, OneMoves DEF GivenUp
  <2> QED
    BY <2>2, <2>3, <2>4, <1>t, ArriveMoves
<1>3. ASSUME UNCHANGED event, job' = B \/ UNCHANGED job PROVE JobsMove /\ EventsMove
  BY <1>3, <1>b, JobsSame, EventsSame
<1>4. ASSUME NEW es \in SUBSET Events, NEW j \in Jobs, Claim(j, p, es)
      PROVE  JobsMove /\ EventsMove
  <2> DEFINE row == [UnusedJob EXCEPT !.peer = p, !.state = "claimed", !.current = TRUE,
                                      !.granted = TRUE]
  <2>1. row.state = "claimed"
    BY DEF UnusedJob
  <2>2. /\ job' = [job EXCEPT ![j] = row] /\ job[j].state = "none" /\ es \subseteq Unassigned(p)
        /\ event' = [e \in Events |-> IF e \in es THEN [event[e] EXCEPT !.job = j] ELSE event[e]]
    BY <1>4 DEF Claim
  <2> HIDE DEF row
  <2>3. JobsMove
    BY <2>1, <2>2, <1>t DEF JobsMove, GivenUp
  <2>4. EventsMove
    BY <2>2, <1>t, TakeMoves
  <2> QED
    BY <2>3, <2>4
<1>5. ASSUME NEW c, SetClientControl(p, c) PROVE JobsMove /\ EventsMove
  <2> DEFINE W == Releasable(job, control', p)
  <2>1. job' = Released(B, W) /\ event' = Detached(event, W)
    BY <1>5 DEF SetClientControl, B
  <2>2. \A i \in Jobs : i \in W => job[i].state = "waiting_control" /\ Binding(i) = {}
    BY DEF Releasable
  <2> HIDE DEF W
  <2>3. \A i \in Jobs : job'[i].state = IF i \in W THEN "released" ELSE job[i].state
    BY <2>1, <1>b, ReleasedStates
  <2>4. JobsMove
    BY <2>2, <2>3 DEF JobsMove, GivenUp
  <2>5. EventsMove
    BY <2>1, <2>3, <1>t, LetGoMoves DEF GivenUp
  <2> QED
    BY <2>4, <2>5
<1>6. ASSUME NEW es, InvalidateContext(p, es) PROVE JobsMove /\ EventsMove
  BY <1>3, <1>6 DEF InvalidateContext, B
<1>7. ASSUME ObserveOutgoing(p) \/ Guide(p) \/ ForgetMissingThread(p)
      PROVE  JobsMove /\ EventsMove
  BY <1>3, <1>7 DEF ObserveOutgoing, Guide, ForgetMissingThread, SetThread, B
<1> QED
  BY <1>0, <1>1, <1>2, <1>4, <1>5, <1>6, <1>7

\* The calls that start, stop and settle an execution.
LEMMA ExecutionCallMoves == Inv /\ NoneUnassigned /\ ExecutionCall => JobsMove /\ EventsMove
<1> SUFFICES ASSUME Inv, NoneUnassigned, ExecutionCall PROVE JobsMove /\ EventsMove
  OBVIOUS
<1>t. /\ job \in [Jobs -> JobRow] /\ event \in [Events -> EventRow] /\ NoJob \notin Jobs
  BY InboxConstants DEF Inv, InboxTypeOK
<1>0. PICK j \in Jobs :
        \/ PreparePeerThread(j) \/ BindPeerThread(j) \/ BindReviewedThread(j)
        \/ ReplaceMissingThread(j) \/ MarkThreadUnknown(j)
        \/ StartIntent(j) \/ BindTurn(j) \/ DeadlinePasses(j)
        \/ \E k \in {"start_rejected", "not_started", "terminal"}, proof \in Proofs :
              FinishManual(j, k, proof) \/ FinishExecution(j, k, proof)
        \/ ReleaseJob(j) \/ NeedsReview(j) \/ DeferFailed(j)
        \/ ContinueBoundTurn(j) \/ RetryNoEffects(j)
  BY DEF ExecutionCall
<1>a. job[j] \in JobRow
  BY <1>t
<1>1. ASSUME NEW row, job' = [job EXCEPT ![j] = row], UNCHANGED event,
             job[j].state \notin GivenUp, row.state \notin {"none", "claimed"} \cup GivenUp
      PROVE  JobsMove /\ EventsMove
  <2>1. job'[j].state = row.state /\ \A i \in Jobs : i # j => job'[i].state = job[i].state
    BY <1>1, <1>t
  <2> QED
    BY <1>1, <2>1, OneMoves, EventsSame
<1>2. ASSUME NEW row, job' = [job EXCEPT ![j] = row], row.state \in GivenUp,
             job[j].state \notin GivenUp, job[j].state = "claimed" \/ Binding(j) = {},
             UNCHANGED event \/ event' = Detached(event, {j})
      PROVE  JobsMove /\ EventsMove
  <2>1. job'[j].state = row.state /\ \A i \in Jobs : i # j => job'[i].state = job[i].state
    BY <1>2, <1>t
  <2>2. JobsMove
    BY <1>2, <2>1, OneMoves DEF GivenUp
  <2>3. EventsMove
    BY <1>2, <2>1, <1>t, LetGoMoves, EventsSame
  <2> QED
    BY <2>2, <2>3
<1>3. CASE PreparePeerThread(j) \/ BindPeerThread(j) \/ BindReviewedThread(j)
           \/ ReplaceMissingThread(j) \/ MarkThreadUnknown(j)
  <2>1. UNCHANGED <<job, event>>
    BY <1>3 DEF PreparePeerThread, BindPeerThread, BindReviewedThread, ReplaceMissingThread,
                MarkThreadUnknown, SetThread
  <2> QED
    BY <2>1, JobsSame, EventsSame
<1>4. CASE StartIntent(j)
  <2>1. [job[j] EXCEPT !.state = "start_intent", !.thread = TRUE].state = "start_intent"
    BY <1>a DEF JobRow
  <2> QED
    BY <1>1, <1>4, <2>1 DEF StartIntent, GivenUp
<1>5. CASE BindTurn(j)
  <2> DEFINE st == IF job[j].state = "needs_review" THEN "needs_review" ELSE "running"
  <2>1. [job[j] EXCEPT !.turn = TRUE, !.state = st].state \in {"needs_review", "running"}
    BY <1>a DEF JobRow
  <2> QED
    BY <1>1, <1>5, <2>1 DEF BindTurn, GivenUp
<1>6. CASE DeadlinePasses(j)
  <2>1. job' = [job EXCEPT ![j] = [job[j] EXCEPT !.granted = FALSE]] /\ UNCHANGED event
    BY <1>6 DEF DeadlinePasses
  <2>2. \A i \in Jobs : job'[i].state = job[i].state
    BY <2>1, <1>a, <1>t DEF JobRow
  <2> QED
    BY <2>1, <2>2, JobsSame, EventsSame
<1>7. ASSUME NEW k, NEW proof, FinishManual(j, k, proof) PROVE JobsMove /\ EventsMove
  <2>1. [job[j] EXCEPT !.state = "needs_review", !.manual = FALSE].state = "needs_review"
    BY <1>a DEF JobRow
  <2>2. job[j].state \in {"running", "needs_review"}
    BY <1>7 DEF FinishManual, Inv, ManualInSlot
  <2> QED
    BY <1>1, <1>7, <2>1, <2>2 DEF FinishManual, GivenUp
<1>8. ASSUME NEW k, NEW proof \in Proofs, FinishExecution(j, k, proof)
      PROVE  JobsMove /\ EventsMove
  <2> DEFINE S == [job EXCEPT ![j] = Stopped(j, proof)]
             W == Releasable(S, control, job[j].peer)
  <2>1. job' = Released(S, W) /\ event' = Detached(event, W)
    BY <1>8 DEF FinishExecution
  <2>2. \A i \in Jobs : i \in W => S[i].state = "waiting_control" /\ Binding(i) = {}
    BY DEF Releasable
  <2>3. PICK st \in {job[j].state, "needs_review"} :
            /\ Stopped(j, proof) = [job[j] EXCEPT !.proof = proof, !.state = st]
            /\ st = "needs_review" => job[j].state \in Live \cup {"waiting_control", "needs_review"}
    BY DEF Stopped
  <2>4. Stopped(j, proof) \in JobRow /\ Stopped(j, proof).state = st
    BY <2>3, <1>a DEF JobRow
  <2>5. /\ S \in [Jobs -> JobRow] /\ S[j].state = st
        /\ \A i \in Jobs : i # j => S[i].state = job[i].state
    BY <2>4, <1>t
  <2> HIDE DEF S, W
  <2>6. \A i \in Jobs : job'[i].state = IF i \in W THEN "released" ELSE S[i].state
    BY <2>1, <2>5, ReleasedStates
  <2>7. JobsMove
    BY <2>2, <2>3, <2>5, <2>6 DEF JobsMove, GivenUp
  <2>8. EventsMove
    BY <2>1, <2>6, <1>t, LetGoMoves DEF GivenUp
  <2> QED
    BY <2>7, <2>8
<1>9. CASE ReleaseJob(j)
  <2>1. CASE /\ job' = [job EXCEPT ![j] = [job[j] EXCEPT !.state = "needs_review",
                                                         !.proof = "not_started"]]
             /\ UNCHANGED event
    <3>1. [job[j] EXCEPT !.state = "needs_review", !.proof = "not_started"].state = "needs_review"
      BY <1>a DEF JobRow
    <3> QED
      BY <1>1, <1>9, <2>1, <3>1 DEF ReleaseJob, GivenUp
  <2>2. CASE job' = Released(job, {j}) /\ event' = Detached(event, {j})
    <3>1. job[j].state = "claimed"
      BY <1>9 DEF ReleaseJob
    <3>2. job'[j].state = "released" /\ \A i \in Jobs : i # j => job'[i].state = job[i].state
      BY <2>2, <1>t, ReleasedStates
    <3>3. JobsMove
      BY <3>1, <3>2, OneMoves DEF GivenUp
    <3>4. \A i \in Jobs : i \in {j} => job'[i].state \in GivenUp
      BY <3>2 DEF GivenUp
    <3>5. EventsMove
      BY <2>2, <3>4, <1>t, LetGoMoves
    <3> QED
      BY <3>3, <3>5
  <2> QED
    BY <1>9, <2>1, <2>2, Zenon DEF ReleaseJob
<1>10. CASE NeedsReview(j)
  <2>1. [job[j] EXCEPT !.state = "needs_review"].state = "needs_review"
    BY <1>a DEF JobRow
  <2>2. job' = [job EXCEPT ![j] = [job[j] EXCEPT !.state = "needs_review"]]
    BY <1>10 DEF NeedsReview
  <2> QED
    BY <1>1, <1>10, <2>1, <2>2 DEF NeedsReview, GivenUp
<1>11. CASE DeferFailed(j)
  <2>1. [job[j] EXCEPT !.state = "failed_waiting_input"].state \in GivenUp
    BY <1>a DEF JobRow, GivenUp
  <2>2. job' = [job EXCEPT ![j] = [job[j] EXCEPT !.state = "failed_waiting_input"]]
    BY <1>11 DEF DeferFailed
  <2>3. UNCHANGED event \/ event' = Detached(event, {j})
    BY <1>11, Zenon DEF DeferFailed
  <2>4. job[j].state \notin GivenUp /\ Binding(j) = {}
    BY <1>11 DEF DeferFailed, GivenUp
  <2> QED
    BY <1>2, <2>1, <2>2, <2>3, <2>4
<1>12. CASE ContinueBoundTurn(j)
  <2>1. [job[j] EXCEPT !.state = "running", !.granted = TRUE, !.manual = TRUE].state = "running"
    BY <1>a DEF JobRow
  <2> QED
    BY <1>1, <1>12, <2>1 DEF ContinueBoundTurn, Reviewed, GivenUp
<1>13. CASE RetryNoEffects(j)
  <2> DEFINE row == [job[j] EXCEPT !.state = "released", !.granted = TRUE, !.manual = FALSE]
  <2>1. row.state \in GivenUp
    BY <1>a DEF JobRow, GivenUp
  <2>2. /\ job' = [job EXCEPT ![j] = row] /\ event' = Detached(event, {j})
        /\ job[j].state \notin GivenUp /\ Binding(j) = {}
    BY <1>13 DEF RetryNoEffects, Reviewed, Binding, GivenUp
  <2> HIDE DEF row
  <2> QED
    BY <1>2, <2>1, <2>2
<1> QED
  BY <1>0, <1>3, <1>4, <1>5, <1>6, <1>7, <1>8, <1>9, <1>10, <1>11, <1>12, <1>13

\* The calls of the agent: a message is closed as answered by its request only, and
\* only with an answer.
LEMMA AgentCallMoves == Inv /\ NoneUnassigned /\ AgentCall => JobsMove /\ EventsMove
<1> SUFFICES ASSUME Inv, NoneUnassigned, AgentCall PROVE JobsMove /\ EventsMove
  OBVIOUS
<1>t. /\ job \in [Jobs -> JobRow] /\ event \in [Events -> EventRow] /\ NoJob \notin Jobs
  BY InboxConstants DEF Inv, InboxTypeOK
<1>1. ASSUME NEW f \in Effects,
             (\E j \in Jobs, k \in Kinds : ReserveEffect(j, f, k)) \/ MarkEffectIntent(f)
             \/ VerifyEffect(f)
      PROVE  JobsMove /\ EventsMove
  <2>1. UNCHANGED <<event, job>>
    BY <1>1 DEF ReserveEffect, MarkEffectIntent, VerifyEffect
  <2> QED
    BY <2>1, JobsSame, EventsSame
<1>2. ASSUME NEW j \in Jobs, NEW es \in SUBSET Events, RefreshJob(j, es)
      PROVE  JobsMove /\ EventsMove
  <2>1. /\ job' = [job EXCEPT ![j] = [job[j] EXCEPT !.current = TRUE]]
        /\ es \subseteq Unassigned(job[j].peer)
        /\ event' = [e \in Events |-> IF e \in es THEN [event[e] EXCEPT !.job = j] ELSE event[e]]
    BY <1>2 DEF RefreshJob
  <2>2. \A i \in Jobs : job'[i].state = job[i].state
    BY <2>1, <1>t DEF JobRow
  <2>3. EventsMove
    BY <2>1, <1>t, TakeMoves
  <2> QED
    BY <2>2, <2>3, JobsSame
<1>3. ASSUME NEW j \in Jobs, NEW o \in Outcomes, Result(j, o) PROVE JobsMove /\ EventsMove
  <2>1. job[j].state \in {"running", "needs_review"} /\ job[j] \in JobRow
    BY <1>3, <1>t DEF Result
  <2>2. ASSUME NEW st \in {"completed", "waiting_control"},
               job' = [job EXCEPT ![j] = [job[j] EXCEPT !.state = st]]
        PROVE  JobsMove
    <3>1. job'[j].state = st /\ \A i \in Jobs : i # j => job'[i].state = job[i].state
      BY <2>1, <2>2, <1>t DEF JobRow
    <3> QED
      BY <2>1, <3>1, OneMoves DEF GivenUp
  <2>3. ASSUME NEW closed \in {"reply_verified", "no_reply_needed"}, Complete(j, closed),
               closed = "reply_verified" => Answered(j)
        PROVE  JobsMove /\ EventsMove
    <3>1. JobsMove
      BY <2>2, <2>3 DEF Complete
    <3>2. \A d \in Events :
            /\ event'[d].job = event[d].job
            /\ event'[d].state = IF event[d].job = j THEN closed ELSE event[d].state
      BY <2>3, <1>t DEF Complete, EventRow
    <3>3. EventsMove
      BY <2>3, <3>2 DEF EventsMove, NoneUnassigned
    <3> QED
      BY <3>1, <3>3
  <2>4. \/ Complete(j, "reply_verified") /\ Answered(j)
        \/ Complete(j, "no_reply_needed")
        \/ UNCHANGED event /\ job' = [job EXCEPT ![j].state = "waiting_control"]
    BY <1>3, Zenon DEF Result
  <2>5. CASE UNCHANGED event /\ job' = [job EXCEPT ![j].state = "waiting_control"]
    BY <2>2, <2>5, EventsSame
  <2> QED
    BY <2>3, <2>4, <2>5
<1> QED
  BY <1>1, <1>2, <1>3 DEF AgentCall

\* A step of the bridge moves its effect one step on.
LEMMA BridgeMoves == InboxTypeOK /\ SendsOK /\ (Send \/ BridgeCrash) => EffectsMove
<1> SUFFICES ASSUME InboxTypeOK, SendsOK, Send \/ BridgeCrash PROVE EffectsMove
  OBVIOUS
<1>t. \A f \in Effects : effect[f] \in EffectRow
  BY DEF InboxTypeOK
<1>1. UNCHANGED effect => EffectsMove
  BY DEF EffectsMove, SameColumns
<1>2. ASSUME NEW f \in Effects, MarkEffectIntent(f) PROVE EffectsMove
  <2>1. /\ effect' = [effect EXCEPT ![f] = [effect[f] EXCEPT !.state = "attempted"]]
        /\ effect[f].state = "reserved" /\ job[effect[f].job].state = "running"
        /\ UNCHANGED <<job, event>>
    BY <1>2 DEF MarkEffectIntent, Authority
  <2>2. effect'[f].state = "attempted" /\ SameColumns(f)
    BY <2>1, <1>t DEF InboxTypeOK, SameColumns, EffectRow
  <2>3. \A g \in Effects : g # f => effect'[g].state = effect[g].state /\ SameColumns(g)
    BY <2>1 DEF InboxTypeOK, SameColumns
  <2> QED
    BY <2>1, <2>2, <2>3 DEF EffectsMove
<1>3. ASSUME NEW j \in Jobs, NEW f \in Effects, ReadBack(j, f) PROVE EffectsMove
  <2>1. effect[f].state \in {"attempted", "verified"}
    BY <1>3 DEF ReadBack, SendsOK, SentRow
  <2>2. VerifyEffect(f) \/ UNCHANGED effect
    BY <1>3, Zenon DEF ReadBack, inboxVars
  <2>3. ASSUME VerifyEffect(f) PROVE EffectsMove
    <3>1. /\ effect' = [effect EXCEPT ![f] = [effect[f] EXCEPT !.state = "verified"]]
          /\ effect[f].state = "attempted"
      BY <2>1, <2>3 DEF VerifyEffect
    <3>2. effect'[f].state = "verified" /\ SameColumns(f)
      BY <3>1, <1>t DEF InboxTypeOK, SameColumns, EffectRow
    <3>3. \A g \in Effects : g # f => effect'[g].state = effect[g].state /\ SameColumns(g)
      BY <3>1 DEF InboxTypeOK, SameColumns
    <3> QED
      BY <3>1, <3>2, <3>3 DEF EffectsMove
  <2> QED
    BY <1>1, <2>2, <2>3
<1>4. ASSUME NEW j \in Jobs, NEW f \in Effects, NEW k, ReserveEffect(j, f, k) PROVE EffectsMove
  <2> DEFINE row == [job |-> j, kind |-> k, about |-> Of(j), exact |-> TRUE, same |-> TRUE,
                     state |-> "reserved"]
  <2>1. /\ effect' = [effect EXCEPT ![f] = row] /\ effect[f].state = "none"
        /\ job[j].state = "running" /\ UNCHANGED <<job, event>>
    BY <1>4 DEF ReserveEffect, Authority
  <2>2. row.job = j /\ row.about = Of(j) /\ row.state = "reserved"
    OBVIOUS
  <2> HIDE DEF row
  <2>3. /\ effect'[f].job = j /\ effect'[f].about = Of(j) /\ effect'[f].state = "reserved"
        /\ \A g \in Effects : g # f => effect'[g].state = effect[g].state /\ SameColumns(g)
    BY <2>1, <2>2 DEF InboxTypeOK, SameColumns
  <2> QED
    BY <2>1, <2>3 DEF EffectsMove
<1>5. CASE BridgeCrash
  BY <1>1, <1>2, <1>5, Zenon DEF BridgeCrash, inboxVars
<1>6. ASSUME NEW j \in Jobs, NEW f \in Effects, Apply(j, f) PROVE EffectsMove
  BY <1>1, <1>6, Zenon DEF Apply, NeedsReview, inboxVars
<1>7. ASSUME NEW j \in Jobs, NEW f \in Effects,
             \/ \E k \in Kinds : DryRun(j, f, k)
             \/ SendIntent(j, f) \/ SendFails(j, f) \/ SendAnswered(j, f)
      PROVE  EffectsMove
  BY <1>1, <1>2, <1>4, <1>7, Zenon DEF DryRun, SendIntent, SendFails, SendAnswered, inboxVars
<1>8. ASSUME NEW f \in Effects, Posted(f) PROVE EffectsMove
  BY <1>1, <1>8, Zenon DEF Posted, inboxVars
<1> QED
  BY <1>3, <1>5, <1>6, <1>7, <1>8, Zenon DEF Send

\* What a message in the chat once proved, it proves for good.
LEMMA ChatGrows ==
    SendsOK /\ [TurnsNext]_turnsVars => \A f \in Effects : chat[f] = 1 => chat'[f] >= 1
<1> SUFFICES ASSUME SendsOK, [TurnsNext]_turnsVars, NEW f \in Effects, chat[f] = 1
             PROVE  chat'[f] >= 1
  OBVIOUS
<1>1. UNCHANGED chat => chat'[f] >= 1
  OBVIOUS
<1>2. ASSUME NEW g \in Effects, Posted(g) PROVE chat'[f] >= 1
  BY <1>2 DEF Posted, SendsOK, SendsTyped
<1>3. CASE Send
  <2>1. ASSUME NEW j \in Jobs, NEW g \in Effects,
             \/ \E k \in Kinds : DryRun(j, g, k)
             \/ Apply(j, g) \/ SendIntent(j, g) \/ SendFails(j, g)
             \/ SendAnswered(j, g) \/ ReadBack(j, g)
        PROVE UNCHANGED chat
    BY <2>1, Zenon DEF DryRun, Apply, SendIntent, SendFails, SendAnswered, ReadBack
  <2> QED
    BY <1>1, <1>2, <1>3, <2>1, Zenon DEF Send
<1>4. CASE Dispatch
  BY <1>1, <1>4, DispatchLeavesEffects
<1>5. CASE People \/ WakeCrash \/ BridgeCrash \/ UNCHANGED turnsVars
  BY <1>1, <1>5 DEF People, WakeCrash, BridgeCrash, turnsVars
<1> QED
  BY <1>3, <1>4, <1>5 DEF TurnsNext

\* The moves of every step.
LEMMA TurnsMove ==
    Inv /\ NoneUnassigned /\ SendsOK /\ [TurnsNext]_turnsVars
        => JobsMove /\ EventsMove /\ EffectsMove
<1> SUFFICES ASSUME Inv, NoneUnassigned, SendsOK, [TurnsNext]_turnsVars
             PROVE  JobsMove /\ EventsMove /\ EffectsMove
  OBVIOUS
<1>0. InboxTypeOK
  BY DEF Inv
<1>1. ASSUME UNCHANGED <<job, event>> PROVE JobsMove /\ EventsMove
  BY <1>1, JobsSame, EventsSame
<1>2. ASSUME InboxNext PROVE JobsMove /\ EventsMove
  <2>1. ASSUME NEW on \in BOOLEAN, DutySet(on) \/ SetExecutionPaused(on)
        PROVE  JobsMove /\ EventsMove
    <3>1. UNCHANGED event /\ \A i \in Jobs : job'[i].state = job[i].state
      <4>1. job \in [Jobs -> JobRow]
        BY <1>0 DEF InboxTypeOK
      <4> QED
        BY <2>1, <4>1 DEF DutySet, SetExecutionPaused, JobRow
    <3> QED
      BY <3>1, JobsSame, EventsSame
  <2> QED
    BY <1>2, <2>1, PeerCallMoves, ExecutionCallMoves, AgentCallMoves DEF InboxNext
<1>3. InboxNext \/ UNCHANGED inboxVars
  BY DispatchCalls, SendCalls, PeopleCall DEF TurnsNext, WakeCrash, turnsVars, inboxVars
<1>4. JobsMove /\ EventsMove
  BY <1>1, <1>2, <1>3 DEF inboxVars
<1>5. UNCHANGED effect => EffectsMove
  BY DEF EffectsMove, SameColumns
<1>6. ASSUME Dispatch \/ WakeCrash \/ UNCHANGED turnsVars PROVE EffectsMove
  <2>1. UNCHANGED effect
    BY <1>6, DispatchLeavesEffects, Zenon DEF WakeCrash, turnsVars, inboxVars
  <2> QED
    BY <1>5, <2>1
<1>7. ASSUME People PROVE EffectsMove
  <2>1. EffectsStay => EffectsMove
    BY DEF EffectsStay, EffectsMove, SameColumns
  <2> QED
    BY <1>0, <1>7, <2>1, PeopleLeaveEffects
<1>8. EffectsMove
  BY <1>0, <1>6, <1>7, BridgeMoves DEF TurnsNext
<1> QED
  BY <1>4, <1>8

\* Whoever closed a message as answered has an answer to it in the chat.
LEMMA ClosedStep ==
    ASSUME Inv, HeldInv, SendsOK, SendsOK', ClosedByAnswer, [TurnsNext]_turnsVars
    PROVE  ClosedByAnswer'
<1>1. EventsMove /\ EffectsMove /\ \A f \in Effects : chat[f] = 1 => chat'[f] >= 1
  BY TurnsMove, ChatGrows DEF HeldInv
<1> SUFFICES ASSUME NEW e \in Events, event'[e].state = "reply_verified"
             PROVE  \E f \in Effects : /\ e \in effect'[f].about /\ chat'[f] = 1
                                       /\ effect'[f].job = event'[e].job
  BY DEF ClosedByAnswer
<1>2. ASSUME NEW f \in Effects, e \in effect[f].about, chat[f] = 1,
             effect[f].job = event'[e].job
      PROVE  e \in effect'[f].about /\ chat'[f] = 1 /\ effect'[f].job = event'[e].job
  <2>1. effect[f].state \in {"attempted", "verified"}
    BY <1>2 DEF SendsOK, SentRow
  <2>2. SameColumns(f)
    BY <1>1, <2>1 DEF EffectsMove
  <2>3. chat'[f] = 1
    BY <1>1, <1>2 DEF SendsOK, SendsTyped, SentRow
  <2> QED
    BY <1>2, <2>2, <2>3 DEF SameColumns
<1>3. CASE event[e].state = "reply_verified"
  <2>1. event'[e].job = event[e].job
    BY <1>1, <1>3 DEF EventsMove
  <2> QED
    BY <1>2, <1>3, <2>1 DEF ClosedByAnswer
<1>4. CASE event[e].state # "reply_verified"
  <2> DEFINE j == event[e].job
  <2>1. j \in Jobs /\ Answered(j) /\ event'[e].job = j
    BY <1>1, <1>4 DEF EventsMove
  <2>2. PICK f \in Effects : \E kind \in Kinds : f \in Receipts(j, kind)
    BY <2>1 DEF Answered, Receipts, EffectsOf
  <2>3. /\ f \in Effects /\ effect[f].job = j /\ effect[f].state = "verified"
        /\ effect[f].about = Of(j)
    BY <2>2 DEF Receipts, EffectsOf, CoversContent
  <2>4. chat[f] = 1 /\ e \in effect[f].about
    BY <2>3 DEF SendsOK, SentRow, Of
  <2> QED
    BY <1>2, <2>1, <2>3, <2>4
<1> QED
  BY <1>3, <1>4

LEMMA HeldInit == TurnsInit => HeldInv /\ ClosedByAnswer
<1> SUFFICES ASSUME TurnsInit PROVE HeldInv /\ ClosedByAnswer
  OBVIOUS
<1>1. /\ \A j \in Jobs : job[j].state = "none"
      /\ \A f \in Effects : effect[f].state = "none"
      /\ \A e \in Events : event[e].state = "none" /\ event[e].job = NoJob
  BY DEF TurnsInit, InboxInit, UnusedJob, NoEffect, NoEvent
<1> QED
  BY <1>1 DEF HeldInv, GivenUpFree, UnbegunHasNone, AboutHeld, NoneUnassigned, ClosedByAnswer,
              GivenUp, EffectsOf

LEMMA AlwaysHeld == TurnsSpec => []HeldInv /\ []ClosedByAnswer
<1>1. TurnsSpec => []Inv
  BY TurnsCallInbox, AlwaysInv, PTL
<1>2. TurnsSpec => []SendsOK
  <2>1. TurnsSpec => []InboxTypeOK
    BY TurnsCallInbox, TypeCorrect, PTL
  <2> QED
    BY <2>1, SendsInit, SendsStep, PTL DEF TurnsSpec
<1>3. Inv /\ SendsOK /\ HeldInv /\ [TurnsNext]_turnsVars => HeldInv'
  BY TurnsMove, HeldStep DEF HeldInv
<1>4. Inv /\ SendsOK /\ SendsOK' /\ HeldInv /\ ClosedByAnswer /\ [TurnsNext]_turnsVars
        => ClosedByAnswer'
  BY ClosedStep
<1> QED
  BY <1>1, <1>2, <1>3, <1>4, HeldInit, PTL DEF TurnsSpec

\* Two requests never answer the same message, nor may one have while another did.
THEOREM OneRequestAnswers == TurnsSpec => []OneAnswerer
<1>1. HeldInv => OneAnswerer
  <2> SUFFICES ASSUME HeldInv, NEW f \in Effects, NEW g \in Effects,
                      f \in Binding(effect[f].job), g \in Binding(effect[g].job),
                      NEW e, e \in effect[f].about, e \in effect[g].about
               PROVE  effect[f].job = effect[g].job
    BY DEF OneAnswerer
  <2>1. ASSUME NEW h \in Effects, h \in Binding(effect[h].job), e \in effect[h].about
        PROVE  event[e].job = effect[h].job
    <3>1. effect[h].state # "none" /\ effect[h].job \in Jobs
      BY <2>1 DEF Binding, Tried, HeldInv, AboutHeld
    <3>2. job[effect[h].job].state \notin GivenUp
      BY <2>1, <3>1 DEF HeldInv, GivenUpFree
    <3> QED
      BY <2>1, <3>1, <3>2 DEF HeldInv, AboutHeld, Of
  <2> QED
    BY <2>1
<1> QED
  BY <1>1, AlwaysHeld, PTL

\* A message that is closed as answered has its answer in the chat, for good.
THEOREM AnswersClose == TurnsSpec => []ClosedByAnswer
BY AlwaysHeld, PTL
=============================================================================
