--------------------------- MODULE TelegramTurns ---------------------------
(***************************************************************************)
(* Answering clients in Telegram: the ledger of TelegramInbox with the     *)
(* programs that call it.                                                  *)
(*   - the wake dispatcher (telegram_wake.py) claims a request, has a turn *)
(*     of Codex started for it and proves that the turn has stopped;       *)
(*   - the bridge (telegram_bridge.py) sends what the agent wants said,    *)
(*     keeping idempotency.json beside the ledger, one send at a time      *)
(*     (EffectLane);                                                       *)
(*   - the agent, the client, the staff and the operator.                  *)
(* Either process may stop at any moment; answers may be lost.             *)
(***************************************************************************)
EXTENDS TelegramInbox

CONSTANT MaxTroubles    \* bound: crashes, timeouts and interventions of people in a behaviour

VARIABLES
    turn,       \* the App Server's turn for a job
    wake,       \* the dispatcher: what it does, for which job, and whether it
                \* knows that no turn was started
    send,       \* the send the bridge has in hand: {} or one <<job, effect>>
    flying,     \* messages given to Telegram
    ledger,     \* idempotency.json, by effect key
    chat,       \* how often the message of an effect stands in the chat
    troubles

turnsVars == <<event, job, effect, slot, thread, control, duty, paused,
               turn, wake, send, flying, ledger, chat, troubles>>

Alive == {"asked", "running"}
NoWake == [pc |-> "idle", job |-> NoJob, knows |-> "no"]

TurnsTypeOK ==
    /\ InboxTypeOK
    /\ turn \in [Jobs -> {"none", "refused", "completed", "stopped"} \cup Alive]
    /\ wake \in [pc : {"idle", "claimed", "started", "asked", "waiting", "stopping", "held"},
                 job : Jobs \cup {NoJob}, knows : {"no", "unasked", "refused"}]
    /\ send \subseteq Jobs \X Effects /\ Cardinality(send) <= 1
    /\ flying \subseteq Effects
    /\ ledger \in [Effects -> {"none", "intent", "sent", "verified"}]
    /\ chat \in [Effects -> 0 .. 2]
    /\ troubles \in 0 .. MaxTroubles

TurnsInit ==
    /\ InboxInit
    /\ turn = [j \in Jobs |-> "none"]
    /\ wake = NoWake /\ send = {} /\ flying = {}
    /\ ledger = [f \in Effects |-> "none"]
    /\ chat = [f \in Effects |-> 0]
    /\ troubles = 0

Dispatcher(pc, j, knows) == wake' = [pc |-> pc, job |-> j, knows |-> knows]
BridgeIdle == UNCHANGED <<send, flying, ledger, chat>>
Usual == BridgeIdle /\ UNCHANGED troubles

\* EffectLane: no send for j is queued or running.
HasJobWork(j) == \E f \in Effects : <<j, f>> \in send

Trouble == troubles < MaxTroubles /\ troubles' = troubles + 1

-----------------------------------------------------------------------------
(* The dispatcher claims and starts *)

\* The answer of a lost claim is found again in the slot.
ClaimNext(j, p, es) ==
    /\ wake.pc = "idle" /\ Claim(j, p, es)
    /\ Dispatcher("claimed", j, "no") \/ UNCHANGED wake
    /\ UNCHANGED turn /\ Usual

\* What a restarted dispatcher makes of the job in the slot.
Reconcile(j) ==
    /\ wake.pc = "idle" /\ duty = "on" /\ ~paused
    /\ slot.job = j /\ job[j].proof = "none"
    /\ \/ /\ ~job[j].thread /\ ~job[j].turn /\ slot.phase = "claimed"
          /\ Dispatcher("stopping", j, "no") /\ UNCHANGED inboxVars
       \/ /\ job[j].thread /\ ~job[j].turn
          /\ NeedsReview(j) \/ (job[j].state \notin Active /\ UNCHANGED inboxVars)
          /\ Dispatcher("held", j, "no")
       \/ /\ job[j].thread /\ job[j].turn
          /\ Dispatcher(IF job[j].granted THEN "waiting" ELSE "stopping", j, "no")
          /\ UNCHANGED inboxVars
    /\ UNCHANGED turn /\ Usual

SelectPeer(j) ==
    /\ wake.pc = "claimed" /\ wake.job = j
    /\ \/ (PreparePeerThread(j) \/ BindPeerThread(j)) /\ UNCHANGED wake
       \/ MarkThreadUnknown(j) /\ Dispatcher("stopping", j, "no")
    /\ UNCHANGED turn /\ Usual

BeforeStart(j) ==
    /\ wake.pc = "claimed" /\ wake.job = j
    /\ StartIntent(j) /\ Dispatcher("started", j, "unasked")
    /\ UNCHANGED turn /\ Usual

AskForTurn_Forgets(j) ==
    /\ wake.pc = "started" /\ wake.job = j
    /\ turn' = [turn EXCEPT ![j] = "asked"]
    /\ Dispatcher("asked", j, "unasked")
    /\ UNCHANGED inboxVars /\ Usual

AskForTurn(j) ==
    /\ wake.pc = "started" /\ wake.job = j
    /\ turn' = [turn EXCEPT ![j] = "asked"]
    /\ Dispatcher("asked", j, "no")
    /\ UNCHANGED inboxVars /\ Usual

TurnStarted(j) ==
    /\ wake.pc = "asked" /\ wake.job = j /\ turn[j] \in {"running", "completed", "stopped"}
    /\ BindTurn(j) /\ Dispatcher("waiting", j, "no")
    /\ UNCHANGED turn /\ Usual

\* A refusal, a failure, the deadline, the end of the turn or a pause; also when
\* the answer of the call just made is lost.
Interrupted(j) ==
    /\ wake.pc \in {"claimed", "started", "asked", "waiting"} /\ wake.job = j
    /\ Dispatcher("stopping", j, IF wake.pc = "asked" /\ turn[j] = "refused" THEN "refused"
                                 ELSE wake.knows)
    /\ IF turn[j] \in {"refused", "completed", "stopped"} THEN UNCHANGED troubles ELSE Trouble
    /\ UNCHANGED <<inboxVars, turn>> /\ BridgeIdle

\* The operator's pause stops what the slot holds, also what was given up.
StopForPause(j) ==
    /\ wake.pc \in {"idle", "held"} /\ paused /\ slot.job = j
    /\ Dispatcher("stopping", j, wake.knows)
    /\ UNCHANGED <<inboxVars, turn>> /\ Usual

-----------------------------------------------------------------------------
(* The dispatcher proves that a request has stopped *)

\* _proof and _reconcile_job hold back what nothing else has settled.
ReviewStopped(j) ==
    /\ wake.pc = "stopping" /\ wake.job = j
    /\ job[j].state \in Live
    /\ NeedsReview(j)
    /\ UNCHANGED <<turn, wake>> /\ Usual

InterruptTurn(j) ==
    /\ wake.pc = "stopping" /\ wake.job = j
    /\ job[j].thread /\ job[j].turn /\ turn[j] = "running"
    /\ turn' = [turn EXCEPT ![j] = "stopped"]
    /\ UNCHANGED <<inboxVars, wake>> /\ Usual

\* What the dispatcher can show of a request: that its turn was never started,
\* or how the turn it is bound to ended.
Shows(j, proofKind, proof) ==
    IF wake.knows # "no" /\ ~job[j].turn /\ job[j].thread
    THEN proofKind = "start_rejected" /\ proof = "not_started"
    ELSE IF ~job[j].thread /\ ~job[j].turn
    THEN proofKind = "not_started" /\ proof = "not_started"
    ELSE proofKind = "terminal" /\ job[j].turn /\ turn[j] = proof

\* The bridge takes no proof while it sends for the job.
Prove(j) ==
    /\ wake.pc = "stopping" /\ wake.job = j /\ job[j].state \notin Live
    /\ ~HasJobWork(j)
    /\ \E k \in {"start_rejected", "not_started", "terminal"}, proof \in Proofs :
          Shows(j, k, proof) /\ (FinishExecution(j, k, proof) \/ FinishManual(j, k, proof))
    /\ wake' = IF wake.knows = "refused" THEN wake ELSE NoWake
    /\ UNCHANGED turn /\ Usual

\* After a refused start the client may simply write again.
Defer(j) ==
    /\ wake.pc = "stopping" /\ wake.job = j /\ wake.knows = "refused"
    /\ job[j].proof # "none"
    /\ DeferFailed(j) \/ UNCHANGED inboxVars
    /\ wake' = NoWake
    /\ UNCHANGED turn /\ Usual

\* The proof could not be had in time.  That the App Server refused is not
\* remembered.
Hold(j) ==
    /\ wake.pc = "stopping" /\ wake.job = j
    /\ Dispatcher("held", j, IF wake.knows = "refused" THEN "no" ELSE wake.knows)
    /\ IF job[j].state \in Live THEN NeedsReview(j) ELSE UNCHANGED inboxVars
    /\ UNCHANGED turn /\ Trouble /\ BridgeIdle

WakeCrash ==
    /\ Trouble
    /\ wake # NoWake /\ wake' = NoWake
    /\ UNCHANGED <<inboxVars, turn, send, flying, ledger, chat>>

\* The App Server takes a turn or refuses it, and ends it.
AppServer(j) ==
    /\ \/ turn[j] = "asked" /\ turn' = [turn EXCEPT ![j] = "running"]
       \/ turn[j] = "asked" /\ turn' = [turn EXCEPT ![j] = "refused"]
       \/ turn[j] = "running" /\ \E s \in {"completed", "stopped"} :
                                    turn' = [turn EXCEPT ![j] = s]
    /\ UNCHANGED <<inboxVars, wake>> /\ Usual

Dispatch ==
    \E j \in Jobs :
        \/ \E p \in Peers, es \in SUBSET Events : ClaimNext(j, p, es)
        \/ Reconcile(j) \/ SelectPeer(j) \/ BeforeStart(j) \/ AskForTurn(j) \/ TurnStarted(j)
        \/ Interrupted(j) \/ StopForPause(j) \/ ReviewStopped(j) \/ InterruptTurn(j)
        \/ Prove(j) \/ Defer(j) \/ Hold(j) \/ AppServer(j)

-----------------------------------------------------------------------------
(* The bridge sends *)

BridgeStep == UNCHANGED <<turn, wake, troubles>>

\* The dry run reserves the key.
DryRun(j, f, kind) ==
    /\ send = {} /\ ledger[f] = "none"
    /\ ReserveEffect(j, f, kind)
    /\ BridgeStep /\ UNCHANGED <<send, flying, ledger, chat>>

\* The apply run: an intent without its ledger entry goes to review, a key of
\* the ledger is not sent again.
Apply(j, f) ==
    /\ send = {} /\ f \in EffectsOf(j)
    /\ Authority(j) /\ job[j].current /\ effect[f].same
    /\ Unknown(j) \subseteq {f} /\ ledger[f] = "none"
    /\ IF effect[f].state = "attempted" THEN NeedsReview(j) /\ UNCHANGED send
       ELSE send' = {<<j, f>>} /\ UNCHANGED inboxVars
    /\ BridgeStep /\ UNCHANGED <<flying, ledger, chat>>

\* Telegram is asked about the conversation in between.  Then, without a pause:
\* the intent in the inbox, the intent in the ledger, the message on its way.
SendIntent(j, f) ==
    /\ <<j, f>> \in send /\ ledger[f] = "none"
    /\ MarkEffectIntent(f)
    /\ ledger' = [ledger EXCEPT ![f] = "intent"]
    /\ flying' = flying \cup {f}
    /\ BridgeStep /\ UNCHANGED <<send, chat>>

\* A send ends early: it is refused, or Telegram does not answer.
SendFails(j, f) ==
    /\ <<j, f>> \in send /\ send' = {} /\ Trouble
    /\ UNCHANGED <<inboxVars, turn, wake, flying, ledger, chat>>

Posted(f) ==
    /\ f \in flying /\ flying' = flying \ {f}
    /\ chat[f] < 2 /\ chat' = [chat EXCEPT ![f] = @ + 1]
    /\ BridgeStep /\ UNCHANGED <<inboxVars, send, ledger>>

\* Telegram answers with the message's id.
SendAnswered(j, f) ==
    /\ <<j, f>> \in send /\ ledger[f] = "intent" /\ chat[f] > 0
    /\ ledger' = [ledger EXCEPT ![f] = "sent"]
    /\ BridgeStep /\ UNCHANGED <<inboxVars, send, flying, chat>>

\* The message is read back, by the send or by a later request about the effect;
\* the ledger is told first.
ReadBack_InboxFirst(j, f) ==
    /\ f \in Tried(j) /\ ledger[f] # "none"
    /\ chat[f] > 0
    /\ VerifyEffect(f)
    /\ send' = send \ {<<j, f>>}
    /\ BridgeStep /\ UNCHANGED <<flying, ledger, chat>>

ReadBack(j, f) ==
    /\ \/ <<j, f>> \in send /\ ledger[f] = "sent"
       \/ /\ job[j].state \in {"running", "needs_review"}
          /\ f \in Tried(j) /\ ledger[f] # "none"
    /\ chat[f] > 0
    /\ ledger' = [ledger EXCEPT ![f] = "verified"]
    /\ VerifyEffect(f) \/ (effect[f].state = "verified" /\ UNCHANGED inboxVars)
    /\ send' = send \ {<<j, f>>}
    /\ BridgeStep /\ UNCHANGED <<flying, chat>>

\* The bridge stops, perhaps between the two intents or the two receipts.
BridgeCrash ==
    /\ Trouble
    /\ send # {} /\ send' = {}
    /\ \/ UNCHANGED <<inboxVars, ledger>>
       \/ \E j \in Jobs, f \in Effects :
             /\ <<j, f>> \in send /\ ledger[f] = "none" /\ MarkEffectIntent(f)
             /\ UNCHANGED ledger
       \/ \E j \in Jobs, f \in Effects :
             /\ <<j, f>> \in send /\ ledger[f] = "sent"
             /\ ledger' = [ledger EXCEPT ![f] = "verified"]
             /\ UNCHANGED inboxVars
    /\ UNCHANGED <<turn, wake, flying, chat>>

Send ==
    \/ \E j \in Jobs, f \in Effects :
        \/ \E k \in Kinds : DryRun(j, f, k)
        \/ Apply(j, f) \/ SendIntent(j, f) \/ SendFails(j, f)
        \/ SendAnswered(j, f) \/ ReadBack(j, f)
    \/ \E f \in Effects : Posted(f)

-----------------------------------------------------------------------------
(* The client, the staff, the agent and the operator *)

\* A result of resumed work waits for its sends.
Report(j, outcome) ==
    /\ job[j].manual => ~HasJobWork(j)
    /\ Result(j, outcome)

Client(p) ==
    \E e \in Events :
        \/ Record(p, e) /\ UNCHANGED troubles
        \/ (InvalidateContext(p, {e}) \/ \E j \in Jobs : RecordHeld(p, e, j)) /\ Trouble

Staff(p) ==
    \/ (ObserveOutgoing(p) \/ Guide(p)) /\ Trouble
    \/ SetClientControl(p, "human_takeover") /\ Trouble
    \/ /\ SetClientControl(p, "active")
       /\ IF control[p] = "active" THEN Trouble ELSE UNCHANGED troubles

Agent(j) ==
    \/ \E es \in SUBSET Events : RefreshJob(j, es) /\ UNCHANGED troubles
    \/ \E o \in Outcomes : Report(j, o) /\ UNCHANGED troubles
    \/ (ReleaseJob(j) \/ NeedsReview(j)) /\ Trouble

Operator ==
    \/ (DutySet(FALSE) \/ SetExecutionPaused(TRUE)) /\ Trouble
    \/ /\ \/ DutySet(TRUE) \/ SetExecutionPaused(FALSE)
          \/ \E j \in Jobs : \/ ContinueBoundTurn(j) \/ RetryNoEffects(j)
                             \/ BindReviewedThread(j) \/ ReplaceMissingThread(j)
          \/ \E p \in Peers : ForgetMissingThread(p)
       /\ UNCHANGED troubles

People ==
    /\ \/ \E p \in Peers : Client(p) \/ Staff(p)
       \/ \E j \in Jobs : Agent(j) \/ (DeadlinePasses(j) /\ Trouble)
       \/ Operator
    /\ UNCHANGED <<turn, wake, send, flying, ledger, chat>>

TurnsNext == Dispatch \/ Send \/ People \/ WakeCrash \/ BridgeCrash

TurnsSpec == TurnsInit /\ [][TurnsNext]_turnsVars

-----------------------------------------------------------------------------
(* Properties *)

\* A turn that was asked for or runs belongs to the request in the slot, however
\* often the dispatcher was stopped and whatever answers it missed: so no two
\* turns of Codex are ever at work, for one client or for two.
TurnHoldsSlot == \A j \in Jobs : turn[j] \in Alive => slot.job = j

\* One request answers a message.  A request that said more than an
\* acknowledgement about it, or may have, is never given up for another.
OneAnswerer ==
    \A f, g \in Effects :
        /\ f \in Binding(effect[f].job) /\ g \in Binding(effect[g].job)
        /\ effect[f].about \cap effect[g].about # {}
        => effect[f].job = effect[g].job

\* A message is given to Telegram once, only after the inbox and the ledger both
\* hold the intent; and what the inbox calls verified stands in the chat and in
\* the ledger, wherever the bridge was stopped between its two files.
SentOnce ==
    \A f \in Effects :
        /\ chat[f] + (IF f \in flying THEN 1 ELSE 0) <= 1
        /\ f \in flying \/ chat[f] > 0 =>
              effect[f].state \in {"attempted", "verified"} /\ ledger[f] # "none"
        /\ effect[f].state = "verified" => chat[f] = 1 /\ ledger[f] = "verified"

\* A message closed as answered has an answer in the chat: one about it, by the
\* request that closed it.
ClosedByAnswer ==
    \A e \in Events : event[e].state = "reply_verified" =>
        \E f \in Effects : e \in effect[f].about /\ chat[f] = 1 /\ effect[f].job = event[e].job
=============================================================================
