--------------------------- MODULE TelegramInbox ---------------------------
(***************************************************************************)
(* The Telegram bridge's ledger of client messages (telegram_inbox.py):    *)
(* TelegramInbox as a state machine over its tables.  One action per       *)
(* public method, each one transaction; a refused call is no step.  Who    *)
(* calls, and when, is left open here: TelegramTurns has the callers.      *)
(*                                                                         *)
(* Revisions are kept as what they are compared for: a job or an effect    *)
(* either carries the present revision or has fallen behind it.            *)
(***************************************************************************)
EXTENDS Naturals, FiniteSets

CONSTANTS Peers, Events, Jobs, Effects, NoPeer, NoJob, Kinds

ASSUME InboxConstants ==
    /\ NoPeer \notin Peers /\ NoJob \notin Jobs
    /\ Kinds \subseteq {"ack", "result", "clarification"}

VARIABLES
    event,      \* events: a client's message, the job it is assigned to
    job,        \* jobs
    effect,     \* effects: what a job says to its client
    slot,       \* global_slot
    thread,     \* peer_threads
    control,    \* client_controls
    duty,       \* metadata duty_enabled and duty_windows: never, on or off again
    paused      \* metadata execution_paused

inboxVars == <<event, job, effect, slot, thread, control, duty, paused>>

Live == {"claimed", "start_intent", "running"}
Active == Live \cup {"needs_review"}
Over == {"completed", "released"}
JobStates == {"none", "waiting_control", "failed_waiting_input"} \cup Active \cup Over
Proofs == {"none", "not_started", "completed", "stopped"}    \* stopped: failed or interrupted

EventRow == [peer : Peers \cup {NoPeer}, job : Jobs \cup {NoJob},
             state : {"none", "open", "reply_verified", "no_reply_needed"}]

\* current: the job has the client's context_revision.  granted: it has the
\* execution_revision and, unless manual, its deadline has not passed.
\* thread, turn: whether the columns are set.
JobRow == [peer : Peers \cup {NoPeer}, state : JobStates, proof : Proofs, current : BOOLEAN,
           granted : BOOLEAN, manual : BOOLEAN, thread : BOOLEAN, turn : BOOLEAN]

\* about: the events it was reserved for.  exact: none of them was edited since.
\* same: it has the context_revision of its job.
EffectRow == [job : Jobs \cup {NoJob}, kind : Kinds \cup {"none"}, about : SUBSET Events,
              exact : BOOLEAN, same : BOOLEAN,
              state : {"none", "reserved", "attempted", "verified"}]

Phases == {"none", "claimed", "start_intent", "running", "manual"}
FreeSlot == [job |-> NoJob, phase |-> "none"]

InboxTypeOK ==
    /\ event \in [Events -> EventRow]
    /\ job \in [Jobs -> JobRow]
    /\ effect \in [Effects -> EffectRow]
    /\ slot \in [job : Jobs \cup {NoJob}, phase : Phases]
    /\ thread \in [Peers -> {"none", "creating", "ready", "creation_unknown"}]
    /\ control \in [Peers -> {"active", "paused", "human_takeover"}]
    /\ duty \in {"never", "on", "off"} /\ paused \in BOOLEAN

NoEvent == [peer |-> NoPeer, job |-> NoJob, state |-> "none"]
UnusedJob == [peer |-> NoPeer, state |-> "none", proof |-> "none", current |-> FALSE,
              granted |-> FALSE, manual |-> FALSE, thread |-> FALSE, turn |-> FALSE]
NoEffect == [job |-> NoJob, kind |-> "none", about |-> {}, exact |-> FALSE, same |-> FALSE,
             state |-> "none"]

InboxInit ==
    /\ event = [e \in Events |-> NoEvent]
    /\ job = [j \in Jobs |-> UnusedJob]
    /\ effect = [f \in Effects |-> NoEffect]
    /\ slot = FreeSlot
    /\ thread = [p \in Peers |-> "none"]
    /\ control = [p \in Peers |-> "active"]
    /\ duty = "never" /\ paused = FALSE

-----------------------------------------------------------------------------
(* What the methods look up *)

Of(j) == {e \in Events : event[e].job = j}
EffectsOf(j) == {f \in Effects : effect[f].state # "none" /\ effect[f].job = j}
Unknown(j) == {f \in EffectsOf(j) : effect[f].state = "attempted"}
Tried(j) == {f \in EffectsOf(j) : effect[f].state \in {"attempted", "verified"}}
Unassigned(p) == {e \in Events : event[e].peer = p /\ event[e].state = "open"
                                 /\ event[e].job = NoJob}
SlotFree == slot.job = NoJob

RequireExecution(j) ==
    /\ slot.job = j
    /\ IF job[j].manual THEN paused ELSE ~paused /\ duty = "on"
    /\ job[j].granted

Authority(j) ==
    /\ job[j].state = "running"
    /\ RequireExecution(j)
    /\ control[job[j].peer] = "active"

CoversContent(f, j) == effect[f].exact /\ effect[f].about = Of(j)

\* The effects that keep a job from being given up: an unknown outcome, or
\* anything more than an acknowledgement.
Binding(j) == {f \in Tried(j) : effect[f].state = "attempted" \/ effect[f].kind # "ack"}

\* A client's context_revision goes up.
Behind(js, p) == [j \in Jobs |-> IF js[j].peer = p THEN [js[j] EXCEPT !.current = FALSE] ELSE js[j]]
\* The open events of the jobs in S go back to the queue.
Detached(es, S) == [e \in Events |-> IF es[e].job \in S /\ es[e].state = "open"
                                     THEN [es[e] EXCEPT !.job = NoJob] ELSE es[e]]

-----------------------------------------------------------------------------
(* Intake and the client *)

\* Requests that were proven unstarted and wait for their client to write.
FailedWaiters(p) == {j \in Jobs : job[j].peer = p /\ job[j].state = "failed_waiting_input"
                                  /\ job[j].proof = "not_started"}

\* A message is admitted by the time it was written at, which an open or a closed
\* window of the duty covers: it may arrive when the duty is off again.
Arrives(p, e, j) ==
    /\ duty # "never" /\ event[e].state = "none"
    /\ event' = [Detached(event, FailedWaiters(p)) EXCEPT
                   ![e] = [peer |-> p, job |-> j, state |-> "open"]]
    /\ UNCHANGED <<effect, slot, thread, control, duty, paused>>

Record(p, e) ==
    /\ Arrives(p, e, NoJob)
    /\ job' = Behind(job, p)

\* A message whose second the duty covers in part, or that precedes the owner's
\* change of role, goes to review in a job of its own.  (A job needs the
\* instructions, and the bridge configures them before it records anything.)
RecordHeld(p, e, j) ==
    /\ job[j].state = "none"
    /\ Arrives(p, e, j)
    /\ job' = [Behind(job, p) EXCEPT ![j] =
                 [UnusedJob EXCEPT !.peer = p, !.state = "needs_review", !.proof = "not_started",
                                   !.current = TRUE]]

\* An edit or a deletion of the messages in es.
InvalidateContext(p, es) ==
    /\ es # {} /\ \A e \in es : event[e].peer = p /\ event[e].state = "open"
    /\ job' = Behind(job, p)
    /\ effect' = [f \in Effects |-> IF effect[f].about \cap es # {}
                                    THEN [effect[f] EXCEPT !.exact = FALSE] ELSE effect[f]]
    /\ UNCHANGED <<event, slot, thread, control, duty, paused>>

\* A person wrote to the client from the work account; with an attempt of
\* unknown outcome the message may be the agent's own.
ObserveOutgoing(p) ==
    /\ \E e \in Events : event[e].peer = p
    /\ \A f \in Effects : effect[f].state = "attempted" => job[effect[f].job].peer # p
    /\ job' = Behind(job, p)
    /\ UNCHANGED <<event, effect, slot, thread, control, duty, paused>>

Releasable(js, ctl, p) ==
    {j \in Jobs : /\ ctl[p] = "active"
                  /\ js[j].peer = p /\ js[j].state = "waiting_control"
                  /\ js[j].proof \in {"completed", "not_started"}
                  /\ Binding(j) = {}}

Released(js, S) == [j \in Jobs |-> IF j \in S THEN [js[j] EXCEPT !.state = "released"] ELSE js[j]]

SetClientControl_Forgets(p, c) ==
    /\ \E e \in Events : event[e].peer = p
    /\ control' = [control EXCEPT ![p] = c]
    /\ job' = Released(Behind(job, p), Releasable(job, control', p))
    /\ UNCHANGED <<event, effect, slot, thread, duty, paused>>

SetClientControl(p, c) ==
    /\ \E e \in Events : event[e].peer = p
    /\ control' = [control EXCEPT ![p] = c]
    /\ LET waiters == Releasable(job, control', p) IN
       /\ job' = Released(Behind(job, p), waiters)
       /\ event' = Detached(event, waiters)
    /\ UNCHANGED <<effect, slot, thread, duty, paused>>

\* A note for the agent leaves the control as it is, and only a resumption
\* releases what waits.
Guide(p) ==
    /\ \E e \in Events : event[e].peer = p
    /\ job' = Behind(job, p)
    /\ UNCHANGED <<event, effect, slot, thread, control, duty, paused>>

-----------------------------------------------------------------------------
(* Claim, thread and start *)

\* The oldest open message of a client nothing holds, and more of the same
\* client's: which they are depends on times that are not kept here.
Claim(j, p, es) ==
    /\ duty = "on" /\ ~paused /\ SlotFree
    /\ control[p] = "active"
    /\ \A i \in Jobs : job[i].peer = p => job[i].state \notin Active
    /\ thread[p] \in {"none", "ready"}
    /\ es # {} /\ es \subseteq Unassigned(p)
    /\ job[j].state = "none"
    /\ job' = [job EXCEPT ![j] = [UnusedJob EXCEPT !.peer = p, !.state = "claimed",
                                                   !.current = TRUE, !.granted = TRUE]]
    /\ event' = [e \in Events |-> IF e \in es THEN [event[e] EXCEPT !.job = j] ELSE event[e]]
    /\ slot' = [job |-> j, phase |-> "claimed"]
    /\ UNCHANGED <<effect, thread, control, duty, paused>>

SetThread(p, state) ==
    /\ thread' = [thread EXCEPT ![p] = state]
    /\ UNCHANGED <<event, job, effect, slot, control, duty, paused>>

PreparePeerThread(j) ==
    /\ job[j].state = "claimed" /\ RequireExecution(j)
    /\ thread[job[j].peer] = "none"
    /\ SetThread(job[j].peer, "creating")

\* The thread exists and is durable (materialized).
BindPeerThread(j) ==
    /\ job[j].state = "claimed" /\ RequireExecution(j)
    /\ thread[job[j].peer] = "creating"
    /\ SetThread(job[j].peer, "ready")

\* An operator binds or replaces the thread of a request that never started.  A
\* thread that is bound before it is durable is still being created.
Unstarted(j) ==
    /\ paused /\ SlotFree
    /\ job[j].state = "needs_review" /\ job[j].proof = "not_started"
    /\ ~job[j].thread /\ ~job[j].turn

BindReviewedThread(j) ==
    /\ Unstarted(j) /\ Tried(j) = {}
    /\ thread[job[j].peer] \in {"creating", "creation_unknown"}
    /\ \E state \in {"ready", "creating"} : SetThread(job[j].peer, state)

ReplaceMissingThread(j) ==
    /\ Unstarted(j) /\ EffectsOf(j) = {}
    /\ thread[job[j].peer] = "creation_unknown"
    /\ SetThread(job[j].peer, "ready")

MarkThreadUnknown(j) ==
    /\ job[j].state \in Active
    /\ thread[job[j].peer] = "creating"
    /\ SetThread(job[j].peer, "creation_unknown")

ForgetMissingThread(p) ==
    /\ paused /\ SlotFree
    /\ \A e \in Events : event[e].state # "open"
    /\ \A j \in Jobs : job[j].state \notin Active
    /\ \A f \in Effects : effect[f].state # "attempted"
    /\ thread[p] = "ready"
    /\ SetThread(p, "none")

StartIntent(j) ==
    /\ job[j].state = "claimed" /\ RequireExecution(j)
    /\ thread[job[j].peer] = "ready" /\ job[j].proof = "none"
    /\ job' = [job EXCEPT ![j] = [@ EXCEPT !.state = "start_intent", !.thread = TRUE]]
    /\ slot' = [slot EXCEPT !.phase = "start_intent"]
    /\ UNCHANGED <<event, effect, thread, control, duty, paused>>

\* Binding a fact of the transport does not lift a review.
BindTurn(j) ==
    /\ job[j].state \in {"start_intent", "needs_review"} /\ ~job[j].turn
    /\ slot = [job |-> j, phase |-> "start_intent"] /\ job[j].thread
    /\ job' = [job EXCEPT ![j] = [@ EXCEPT !.turn = TRUE,
                   !.state = IF job[j].state = "needs_review" THEN "needs_review" ELSE "running"]]
    /\ slot' = [slot EXCEPT !.phase = "running"]
    /\ UNCHANGED <<event, effect, thread, control, duty, paused>>

-----------------------------------------------------------------------------
(* The end of an execution *)

\* The deadline of a claim passes; work resumed by an operator has none.
DeadlinePasses(j) ==
    /\ job[j].state \in Live /\ ~job[j].manual /\ job[j].granted
    /\ job' = [job EXCEPT ![j].granted = FALSE]
    /\ UNCHANGED <<event, effect, slot, thread, control, duty, paused>>

\* What is proven of the execution of j, and what that proof asks of its row.
Provable(j, proofKind, proof) ==
    \/ /\ proofKind = "start_rejected" /\ proof = "not_started"
       /\ job[j].state \in {"start_intent", "needs_review"}
       /\ job[j].thread /\ ~job[j].turn
    \/ /\ proofKind = "not_started" /\ proof = "not_started"
       /\ ~job[j].thread /\ ~job[j].turn
    \/ /\ proofKind = "terminal" /\ proof \in {"completed", "stopped"}
       /\ job[j].thread /\ job[j].turn

\* The agent of a manual recovery has stopped: its turn was proven long ago.
FinishManual(j, proofKind, proof) ==
    /\ Provable(j, proofKind, proof) /\ job[j].proof = proof
    /\ slot = [job |-> j, phase |-> "manual"]
    /\ job' = [job EXCEPT ![j] = [@ EXCEPT !.state = "needs_review", !.manual = FALSE]]
    /\ slot' = FreeSlot
    /\ UNCHANGED <<event, effect, thread, control, duty, paused>>

Stopped(j, proof) ==
    [job[j] EXCEPT !.proof = proof,
                   !.state = IF @ \in Live \/ (@ = "waiting_control" /\ proof = "stopped")
                             THEN "needs_review" ELSE @]

FinishExecution(j, proofKind, proof) ==
    /\ Provable(j, proofKind, proof) /\ job[j].proof = "none"
    /\ slot.job = j
    /\ proofKind = "not_started" => slot.phase = "claimed"
    /\ thread' = [thread EXCEPT ![job[j].peer] =
                    IF @ = "creating" /\ proofKind = "not_started" THEN "creation_unknown" ELSE @]
    /\ LET p == job[j].peer
           stopped == [job EXCEPT ![j] = Stopped(j, proof)]
           waiters == Releasable(stopped, control, p)
       IN /\ job' = Released(stopped, waiters)
          /\ event' = Detached(event, waiters)
    /\ slot' = FreeSlot
    /\ UNCHANGED <<effect, control, duty, paused>>

\* A claim whose thread may or may not have been created cannot simply return.
ReleaseJob(j) ==
    /\ job[j].state = "claimed"
    /\ IF thread[job[j].peer] \in {"creating", "creation_unknown"}
       THEN /\ job' = [job EXCEPT ![j] = [@ EXCEPT !.state = "needs_review",
                                                 !.proof = "not_started"]]
            /\ thread' = [thread EXCEPT ![job[j].peer] = "creation_unknown"]
            /\ UNCHANGED event
       ELSE /\ job' = Released(job, {j})
            /\ event' = Detached(event, {j})
            /\ UNCHANGED thread
    /\ slot' = IF slot = [job |-> j, phase |-> "claimed"] THEN FreeSlot ELSE slot
    /\ UNCHANGED <<effect, control, duty, paused>>

NeedsReview(j) ==
    /\ job[j].state \in Active
    /\ job' = [job EXCEPT ![j].state = "needs_review"]
    /\ UNCHANGED <<event, effect, slot, thread, control, duty, paused>>

\* A request that never started waits for its client's next message.  A message
\* that came while it was stopping is that next message.
DeferFailed(j) ==
    /\ job[j].state = "needs_review" /\ job[j].proof = "not_started"
    /\ SlotFree /\ Binding(j) = {}
    /\ thread[job[j].peer] \in {"none", "ready"}
    /\ job' = [job EXCEPT ![j].state = "failed_waiting_input"]
    /\ event' = IF Unassigned(job[j].peer) # {} THEN Detached(event, {j}) ELSE event
    /\ UNCHANGED <<effect, slot, thread, control, duty, paused>>

-----------------------------------------------------------------------------
(* The agent at work *)

\* The context was read again: preparations go, what was tried stays.
RefreshJob(j, es) ==
    /\ job[j].state \in {"claimed", "running"} /\ RequireExecution(j)
    /\ es \subseteq Unassigned(job[j].peer)
    /\ job' = [job EXCEPT ![j].current = TRUE]
    /\ effect' = [f \in Effects |->
                    IF f \notin EffectsOf(j) THEN effect[f]
                    ELSE IF effect[f].state = "reserved" THEN NoEffect
                    ELSE [effect[f] EXCEPT !.same = @ /\ job[j].current]]
    /\ event' = [e \in Events |-> IF e \in es THEN [event[e] EXCEPT !.job = j] ELSE event[e]]
    /\ UNCHANGED <<slot, thread, control, duty, paused>>

\* The key of an effect is its job, kind and revision; a reserved key is found again.
ReserveEffect(j, f, kind) ==
    /\ Authority(j) /\ job[j].current /\ Of(j) # {}
    /\ Unknown(j) = {}
    /\ \A g \in EffectsOf(j) : ~(effect[g].kind = kind /\ effect[g].same)
    /\ effect[f].state = "none"
    /\ effect' = [effect EXCEPT ![f] = [job |-> j, kind |-> kind, about |-> Of(j), exact |-> TRUE,
                                        same |-> TRUE, state |-> "reserved"]]
    /\ UNCHANGED <<event, job, slot, thread, control, duty, paused>>

MarkEffectIntent(f) ==
    /\ effect[f].state = "reserved" /\ Unknown(effect[f].job) = {}
    /\ Authority(effect[f].job)
    /\ effect[f].same /\ job[effect[f].job].current
    /\ effect' = [effect EXCEPT ![f].state = "attempted"]
    /\ UNCHANGED <<event, job, slot, thread, control, duty, paused>>

VerifyEffect(f) ==
    /\ effect[f].state \in {"reserved", "attempted"}
    /\ effect' = [effect EXCEPT ![f].state = "verified"]
    /\ UNCHANGED <<event, job, slot, thread, control, duty, paused>>

Receipts(j, kind) == {f \in EffectsOf(j) : effect[f].state = "verified" /\ effect[f].kind = kind
                                           /\ CoversContent(f, j)}

\* A receipt of the present revision, and nothing new since; a question that was
\* put before the staff took over still counts.
Answered_NoReceipt(j) == job[j].current

Answered(j) ==
    \E kind \in Kinds \ {"ack"} :
        /\ \E f \in Receipts(j, kind) : effect[f].same
        /\ job[j].current \/ (kind = "clarification" /\ control[job[j].peer] # "active")

\* A job has its result, the messages it holds are closed.
Complete(j, closed) ==
    /\ job' = [job EXCEPT ![j].state = "completed"]
    /\ event' = [e \in Events |-> IF event[e].job = j THEN [event[e] EXCEPT !.state = closed]
                                  ELSE event[e]]

Result(j, outcome) ==
    /\ job[j].state \in {"running", "needs_review"} /\ Of(j) # {} /\ Unknown(j) = {}
    /\ \/ /\ outcome = "answered" /\ Answered(j)
          /\ Complete(j, "reply_verified")
       \/ /\ outcome = "already_answered" /\ Receipts(j, "result") # {}
          /\ Complete(j, "no_reply_needed")
       \/ /\ outcome = "no_reply_needed" /\ job[j].current
          /\ Complete(j, "no_reply_needed")
       \/ /\ outcome = "control" /\ control[job[j].peer] # "active"
          /\ \A f \in Tried(j) : effect[f].kind = "ack"
          /\ job' = [job EXCEPT ![j].state = "waiting_control"]
          /\ UNCHANGED event
    /\ slot' = IF job[j].manual /\ job[j].proof # "none" /\ slot = [job |-> j, phase |-> "manual"]
               THEN FreeSlot ELSE slot
    /\ UNCHANGED <<effect, thread, control, duty, paused>>

\* answered stands for awaiting_client and handoff too.
Outcomes == {"answered", "already_answered", "no_reply_needed", "control"}

-----------------------------------------------------------------------------
(* The operator *)

Reviewed(j) ==
    /\ job[j].state = "needs_review" /\ paused
    /\ job[j].proof # "none" /\ SlotFree /\ Unknown(j) = {}

ContinueBoundTurn_NoSlot(j) ==
    /\ Reviewed(j) /\ job[j].thread /\ job[j].turn
    /\ job' = [job EXCEPT ![j] = [@ EXCEPT !.state = "running", !.granted = TRUE, !.manual = TRUE]]
    /\ UNCHANGED <<event, effect, slot, thread, control, duty, paused>>

ContinueBoundTurn(j) ==
    /\ Reviewed(j) /\ job[j].thread /\ job[j].turn
    /\ job' = [job EXCEPT ![j] = [@ EXCEPT !.state = "running", !.granted = TRUE, !.manual = TRUE]]
    /\ slot' = [job |-> j, phase |-> "manual"]
    /\ UNCHANGED <<event, effect, thread, control, duty, paused>>

RetryNoEffects_Blind(j) ==
    /\ Reviewed(j)
    /\ job' = [job EXCEPT ![j] = [@ EXCEPT !.state = "released", !.granted = TRUE,
                                            !.manual = FALSE]]
    /\ event' = Detached(event, {j})
    /\ UNCHANGED <<effect, slot, thread, control, duty, paused>>

RetryNoEffects(j) ==
    /\ Reviewed(j) /\ Tried(j) = {}
    /\ job' = [job EXCEPT ![j] = [@ EXCEPT !.state = "released", !.granted = TRUE,
                                            !.manual = FALSE]]
    /\ effect' = [f \in Effects |-> IF f \in EffectsOf(j) THEN NoEffect ELSE effect[f]]
    /\ event' = Detached(event, {j})
    /\ UNCHANGED <<slot, thread, control, duty, paused>>

DutySet(enabled) ==
    /\ (duty = "on") # enabled
    /\ duty' = IF enabled THEN "on" ELSE "off"
    /\ UNCHANGED <<event, job, effect, slot, thread, control, paused>>

\* Work an operator resumed and that is not over.
ManualWork == {j \in Jobs : slot = [job |-> j, phase |-> "manual"] /\ job[j].state \notin Over}

\* The pause withdraws every grant; repeated, it withdraws that of a recovery.
SetExecutionPaused(on) ==
    /\ \/ on # paused
       \/ on /\ \E j \in ManualWork : job[j].granted
    /\ ~on => ManualWork = {}
    /\ paused' = on
    /\ job' = [j \in Jobs |-> [job[j] EXCEPT !.granted = FALSE]]
    /\ UNCHANGED <<event, effect, slot, thread, control, duty>>

-----------------------------------------------------------------------------
(* Every call of every caller *)

PeerCall ==
    \E p \in Peers :
        \/ \E e \in Events : Record(p, e) \/ \E j \in Jobs : RecordHeld(p, e, j)
        \/ \E es \in SUBSET Events : InvalidateContext(p, es) \/ \E j \in Jobs : Claim(j, p, es)
        \/ ObserveOutgoing(p) \/ Guide(p) \/ ForgetMissingThread(p)
        \/ \E c \in {"active", "paused", "human_takeover"} : SetClientControl(p, c)

ExecutionCall ==
    \E j \in Jobs :
        \/ PreparePeerThread(j) \/ BindPeerThread(j) \/ BindReviewedThread(j)
        \/ ReplaceMissingThread(j) \/ MarkThreadUnknown(j)
        \/ StartIntent(j) \/ BindTurn(j) \/ DeadlinePasses(j)
        \/ \E k \in {"start_rejected", "not_started", "terminal"}, proof \in Proofs :
              FinishManual(j, k, proof) \/ FinishExecution(j, k, proof)
        \/ ReleaseJob(j) \/ NeedsReview(j) \/ DeferFailed(j)
        \/ ContinueBoundTurn(j) \/ RetryNoEffects(j)

AgentCall ==
    \/ \E j \in Jobs :
        \/ \E es \in SUBSET Events : RefreshJob(j, es)
        \/ \E f \in Effects, k \in Kinds : ReserveEffect(j, f, k)
        \/ \E o \in Outcomes : Result(j, o)
    \/ \E f \in Effects : MarkEffectIntent(f) \/ VerifyEffect(f)

InboxNext ==
    \/ PeerCall \/ ExecutionCall \/ AgentCall
    \/ \E on \in BOOLEAN : DutySet(on) \/ SetExecutionPaused(on)

InboxSpec == InboxInit /\ [][InboxNext]_inboxVars

-----------------------------------------------------------------------------
(* Properties *)

\* At any time one request at most is being worked on, and it has the global
\* slot.  Claims, reviews, proofs, manual recovery and the withdrawal of grants
\* all move the state and the slot, in methods of their own.
LiveJobHoldsSlot ==
    \A j \in Jobs : job[j].state \in Live => slot.job = j

\* No message is lost or answered out of turn by the way its request ends: a
\* message still open belongs to nothing or to a request of its own client that
\* is not over, and a message is closed only with its completed request.  (A
\* request is released in four ways, each of which has to let its messages go.)
EventsFollowJobs ==
    \A e \in Events : event[e].job # NoJob =>
        LET j == event[e].job IN
        /\ event[e].peer = job[j].peer
        /\ event[e].state = "open" => job[j].state \notin Over
        /\ event[e].state # "open" => job[j].state = "completed"

\* A request that was proven unstarted waits for its client to write.  Nothing
\* the client wrote may then wait for a claim of its own: the later message
\* would be answered without the question it continues.
ContinuationAdopted ==
    \A j \in Jobs :
        /\ job[j].state = "failed_waiting_input"
        /\ \E e \in Of(j) : event[e].state = "open"
        => Unassigned(job[j].peer) = {}

=============================================================================
