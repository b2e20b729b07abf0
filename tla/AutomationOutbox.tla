-------------------------- MODULE AutomationOutbox --------------------------
(***************************************************************************)
(* Delivery of the owner's alerts: the outbox transactions of              *)
(* AutomationStore (automation_registry.py), the steps of                  *)
(* AutomationDaemon._execute_outbox (automation_daemon.py) between them,   *)
(* and the Telegram bridge as OwnerBridge describes it.                    *)
(*                                                                         *)
(* One daemon incarnation lives at a time and handles one delivery at a    *)
(* time; it keeps the claim in memory and forgets it when it dies.  A      *)
(* request it has sent to the bridge lives on without it.                  *)
(***************************************************************************)
EXTENDS AutomationRuns

CONSTANT RetrySeconds   \* retry_seconds of finish_outbox
ASSUME RetryOK == RetrySeconds \in Nat \ {0}

VARIABLES
    delivery,   \* per incarnation: the outbox claim _execute_outbox works on
    requests, ledger, chat   \* of the bridge

\* The idempotency key of a delivery is that of its row, an attempt its fence.
Bridge == INSTANCE OwnerBridge WITH Keys <- OutboxIds, Tokens <- Nat

bridgeVars == <<requests, ledger, chat>>
deliveryVars == <<delivery, requests, ledger, chat>>
allVars == <<vars, deliveryVars>>

NoDelivery == [step |-> "idle", m |-> CHOOSE m \in OutboxIds : TRUE, token |-> 0,
               revision |-> 0, recovery |-> FALSE]

\* "new" has not started yet, "down" has died.
Steps == {"new", "down", "idle", "claimed", "previewed", "applying"}

OutboxInit ==
    /\ Init
    /\ delivery = [o \in Owners |-> [NoDelivery EXCEPT !.step = "new"]]
    /\ Bridge!Init

-----------------------------------------------------------------------------
(* The daemon process *)

Up(o) == delivery[o].step \notin {"new", "down"}

StartDaemon(o) ==
    /\ delivery[o].step = "new"
    /\ \A x \in Owners : ~Up(x)
    /\ delivery' = [delivery EXCEPT ![o] = NoDelivery]
    /\ UNCHANGED <<vars, bridgeVars>>

CrashDaemon(o) ==
    /\ Up(o)
    /\ delivery' = [delivery EXCEPT ![o] = [NoDelivery EXCEPT !.step = "down"]]
    /\ UNCHANGED <<vars, bridgeVars>>

-----------------------------------------------------------------------------
(* Outbox transactions *)

\* New work for the daemon, of jobs that are on, and test notifications of any
\* live job; and deliveries whose holder died or gave up, for readback only.
Deliverable(m) ==
    /\ outbox[m].st \in {"queued", "failed"} /\ outbox[m].due <= now
    /\ outbox[m].until <= now
    /\ Live(m[2]) /\ (job[m[2]].desired = "on" \/ m[1] = "test")
Abandoned(m) == outbox[m].st = "sending" /\ outbox[m].until # 0 /\ outbox[m].until <= now

\* The claim a row and a holder agree on: status, owner, fence and lease.
HoldsOutbox(o) ==
    LET row == outbox[delivery[o].m] IN
    /\ row.st = "sending" /\ row.owner = o /\ row.token = delivery[o].token
    /\ row.until > now

\* outbox_claim_is_current, read twice before the message leaves.
OutboxClaimIsCurrent(o) ==
    LET m == delivery[o].m IN
    /\ HoldsOutbox(o)
    /\ Live(m[2]) /\ job[m[2]].revision = delivery[o].revision
    /\ job[m[2]].desired = "on" \/ m[1] = "test"
    /\ ~Held

\* finish_outbox, cancel_outbox_claim and block_outbox_claim change the row
\* only for a holder whose lease still runs; in every case the daemon goes on.
Release(o, st, due) ==
    /\ outbox' = IF HoldsOutbox(o)
                 THEN [outbox EXCEPT ![delivery[o].m] =
                          [@ EXCEPT !.st = st, !.due = due, !.owner = NoOwner, !.until = 0]]
                 ELSE outbox
    /\ delivery' = [delivery EXCEPT ![o] = NoDelivery]

FinishSent(o) == Release(o, "sent", now)
FinishFailed(o) == Release(o, "failed", now + RetrySeconds)
CancelOutboxClaim(o) == Release(o, "cancelled", outbox[delivery[o].m].due)
BlockOutboxClaim(o) == Release(o, "sending", outbox[delivery[o].m].due)

\* What the claim of a row that is already "sending" may be used for.
RecoveryOnly_Never(m) == FALSE
RecoveryOnly(m) == outbox[m].st = "sending"

\* claim_outbox: abandoned deliveries first, then by next_attempt_at; the last
\* tie-break, created_at, is left open.
ClaimOutbox(o, m) ==
    /\ ~Held
    /\ delivery[o].step = "idle"
    /\ \/ Abandoned(m) /\ \A x \in OutboxIds : Abandoned(x) => outbox[m].due <= outbox[x].due
       \/ /\ Deliverable(m)
          /\ \A x \in OutboxIds : ~Abandoned(x) /\ (Deliverable(x) => outbox[m].due <= outbox[x].due)
    /\ outbox' = [outbox EXCEPT ![m] = [@ EXCEPT !.st = "sending", !.owner = o,
                                         !.until = now + LeaseSeconds,
                                         !.token = outbox[m].token + 1]]
    /\ delivery' = [delivery EXCEPT ![o] =
           [step |-> "claimed", m |-> m, token |-> outbox[m].token + 1,
            revision |-> job[m[2]].revision, recovery |-> RecoveryOnly(m)]]
    /\ UNCHANGED <<now, hold, job, runtime, runs, bridgeVars>>

-----------------------------------------------------------------------------
(* _execute_outbox.  production() always gives the daemon a notifier. *)

\* A test notification, or an incident of the digest: the payload of any other
\* template's incident is refused before anything else is done with the claim.
Renderable(m) == m[1] = "test" \/ Template(m[2]) = "crm_digest_v1"

\* A claim of an abandoned delivery is resolved by that readback alone; without
\* a verified answer it is left blocked for a human.
RecoverVerified(o) ==
    /\ delivery[o].step = "claimed" /\ delivery[o].recovery /\ Renderable(delivery[o].m)
    /\ Bridge!Lookup(delivery[o].m)
    /\ FinishSent(o)
    /\ UNCHANGED <<now, hold, job, runtime, runs>>

RecoverBlocked(o) ==
    /\ delivery[o].step = "claimed" /\ delivery[o].recovery /\ Renderable(delivery[o].m)
    /\ BlockOutboxClaim(o)
    /\ UNCHANGED <<now, hold, job, runtime, runs, bridgeVars>>

\* First look at the claim, then the dry run, which has no effect and may fail.
Preview(o) ==
    /\ delivery[o].step = "claimed" /\ ~delivery[o].recovery /\ Renderable(delivery[o].m)
    /\ OutboxClaimIsCurrent(o)
    /\ \/ /\ delivery' = [delivery EXCEPT ![o].step = "previewed"]
          /\ UNCHANGED outbox
       \/ FinishFailed(o)
    /\ UNCHANGED <<now, hold, job, runtime, runs, bridgeVars>>

\* Second look, then the request leaves for the bridge.
Apply(o) ==
    /\ delivery[o].step = "previewed"
    /\ OutboxClaimIsCurrent(o)
    /\ delivery' = [delivery EXCEPT ![o].step = "applying"]
    /\ Bridge!Request(delivery[o].m, delivery[o].token)
    /\ UNCHANGED vars

Superseded(o) ==
    /\ delivery[o].step \in {"claimed", "previewed"}
    /\ ~delivery[o].recovery /\ Renderable(delivery[o].m)
    /\ ~OutboxClaimIsCurrent(o)
    /\ CancelOutboxClaim(o)
    /\ UNCHANGED <<now, hold, job, runtime, runs, bridgeVars>>

\* automation_outbox_payload_invalid: failed, to be retried.
PayloadInvalid(o) ==
    /\ delivery[o].step = "claimed" /\ ~Renderable(delivery[o].m)
    /\ FinishFailed(o)
    /\ UNCHANGED <<now, hold, job, runtime, runs, bridgeVars>>

Answer(o) == Bridge!Answers(delivery[o].m, delivery[o].token)

AnsweredOk(o) ==
    /\ delivery[o].step = "applying" /\ "ok" \in Answer(o)
    /\ FinishSent(o)
    /\ UNCHANGED <<now, hold, job, runtime, runs, bridgeVars>>

AnsweredStale(o) ==
    /\ delivery[o].step = "applying" /\ "stale" \in Answer(o)
    /\ FinishFailed(o)
    /\ UNCHANGED <<now, hold, job, runtime, runs, bridgeVars>>

Uncertain_AsFailed(o) ==
    /\ delivery[o].step = "applying"
    /\ FinishFailed(o)
    /\ UNCHANGED <<now, hold, job, runtime, runs, bridgeVars>>

\* Timeout or any other error after the request left: the outcome is uncertain
\* and the row keeps its lease until it runs out.
Uncertain(o) ==
    /\ delivery[o].step = "applying"
    /\ delivery' = [delivery EXCEPT ![o] = NoDelivery]
    /\ UNCHANGED <<vars, bridgeVars>>

-----------------------------------------------------------------------------
\* The scheduler's own transactions, by the incarnation that is up and not
\* delivering, and its control socket, served in threads of its own.
RunTransactions ==
    /\ \/ Tick
       \/ Control /\ \E o \in Owners : Up(o)
       \/ \E o \in Owners :
             /\ delivery[o].step = "idle"
             /\ \/ \E j \in Jobs : Reconcile(j)
                \/ \E r \in RunIds : ClaimQueued(o, r)
                \/ \E j \in Jobs, r \in RunIds, D \in SUBSET Jobs : ClaimDue(o, j, r, D)
                \/ ClaimNothing
                \/ \E r \in RunIds :
                      /\ runs[r].owner = o
                      /\ \/ Heartbeat(r) \/ CancelClaim(r)
                         \/ \E ok \in BOOLEAN : FinishRun(r, ok, job[runs[r].job].sched.every)
    /\ UNCHANGED deliveryVars

Deliver(o) ==
    \/ \E m \in OutboxIds : ClaimOutbox(o, m)
    \/ RecoverVerified(o) \/ RecoverBlocked(o)
    \/ Preview(o) \/ Apply(o) \/ Superseded(o) \/ PayloadInvalid(o)
    \/ AnsweredOk(o) \/ AnsweredStale(o) \/ Uncertain(o)

OutboxNext ==
    \/ RunTransactions
    \/ \E o \in Owners : StartDaemon(o) \/ CrashDaemon(o) \/ Deliver(o)
    \/ \E q \in requests : Bridge!Step(q) /\ UNCHANGED <<vars, delivery>>

OutboxSpec == OutboxInit /\ [][OutboxNext]_allVars

-----------------------------------------------------------------------------
(* Safety *)

\* What the outbox says of a notification is true of the owner's chat: "sent"
\* is one message there, "queued", "failed" and "cancelled" are none, now and
\* later.
StatusIsTrue ==
    \A m \in OutboxIds :
        /\ outbox[m].st = "sent" => chat[m] = 1
        /\ outbox[m].st \in {"queued", "failed", "cancelled"} => chat[m] = 0 /\ ~Bridge!MayStillArrive(m)

\* After a request whose outcome is unknown no second one is ever issued for
\* the same notification, across crashes of either side and expired leases.
NeverBlindlyResent ==
    \A m \in OutboxIds :
        Cardinality({q \in requests : q.key = m /\ q.stage # "stale"}) <= 1

\* Archive waits for every delivery that could still reach the owner: nothing
\* arrives on behalf of an archived job.
ArchivedSendsNothing ==
    [][\A m \in OutboxIds : job[m[2]].st = "archived" => chat'[m] = chat[m]]_allVars
=============================================================================
