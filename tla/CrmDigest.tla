------------------------------ MODULE CrmDigest ------------------------------
(***************************************************************************)
(* The CRM digest: CrmDigestExecutor (automation_jobs.py) over its seven   *)
(* cursors (manager_automation_cursors, update_cursor), between the change *)
(* feed of the CRM (external) and the Telegram bridge (OwnerBridge).       *)
(*                                                                         *)
(* A worker is one claim of the digest job, named by its fence.  It may    *)
(* stop anywhere (error, crash), and may go on after its lease has run     *)
(* out: every cursor write is a transaction of its own that asks for the   *)
(* lease, and nothing else does.  That one claim at a time holds the lease *)
(* is LeaseIsExclusive of AutomationProofs.                                *)
(***************************************************************************)
EXTENDS Integers, FiniteSetsExt, SequencesExt

CONSTANTS
    MaxEvents, MaxDigests, MaxClaims,   \* bounds of the model
    MaxKept, MaxKeptClaims  \* the same, with a feed that keeps its digests

ASSUME DigestConstants ==
    /\ {MaxEvents, MaxDigests, MaxClaims} \subseteq Nat \ {0}
    /\ MaxKept \in 1..MaxEvents /\ MaxKeptClaims \in 1..MaxClaims

VARIABLES
    feed,       \* the CRM: events published and acknowledged, digests cut, acks under way,
                \* and whether it cuts an unacknowledged stretch anew, under a new id
    cursors,    \* manager_automation_cursors of the job
    lease,      \* fence whose lease runs, or 0
    workers,    \* per fence: where its claim stands
    requests, ledger, chat   \* of the bridge

bridgeVars == <<requests, ledger, chat>>
digestVars == <<feed, cursors, lease, workers, requests, ledger, chat>>

Claims == 1..MaxClaims
Digests == 1..MaxDigests    \* digest ids, in the order the CRM cuts them

\* The idempotency key of a digest is crm-digest:<digest_id>.
Bridge == INSTANCE OwnerBridge WITH Keys <- Digests, Tokens <- Claims

\* Every cursor but the state holds a part of a digest; the digest stands for
\* each of its parts, 0 for NULL.
Names == <<"delivery_state", "pending_ack", "pending_digest_id", "pending_content_hash",
           "pending_through_sequence", "notification_message_id", "notification_text_hash">>
States == {"none", "prepared", "sending", "sent_unverified", "delivered_unacked"}
Parts == ToSet(Names) \ {"delivery_state"}
NoCursors == [name \in ToSet(Names) |-> IF name = "delivery_state" THEN "none" ELSE 0]

Steps == {"new", "register", "resume", "lookup", "read", "announce", "apply", "applying",
          "readback", "ack", "acking", "done"}

\* todo: cursor writes still to be made before the step; seen: what the run
\* knows of the pending digest.
NewWorker == [step |-> "new", todo |-> <<>>, seen |-> NoCursors, acked |-> 0,
              resuming |-> FALSE]

Through(d) == IF d = 0 THEN 0 ELSE feed.cut[d].through

Init ==
    /\ \E recuts \in BOOLEAN :
          feed = [high |-> 0, acked |-> 0, cut |-> <<>>, acks |-> {}, recuts |-> recuts]
    /\ cursors = NoCursors
    /\ lease = 0
    /\ workers = [w \in Claims |-> NewWorker]
    /\ Bridge!Init

-----------------------------------------------------------------------------
(* The CRM feed, external *)

Publish ==
    /\ feed.high < IF feed.recuts THEN MaxEvents ELSE MaxKept
    /\ feed' = [feed EXCEPT !.high = @ + 1]
    /\ UNCHANGED <<cursors, lease, workers, bridgeVars>>

\* An acknowledgement arrives, late or again; answers may be lost.
FeedAck(d) ==
    /\ d \in feed.acks
    /\ feed' = [feed EXCEPT !.acked = Max({@, Through(d)})]
    /\ UNCHANGED <<cursors, lease, workers, bridgeVars>>

\* read and summarize: a new digest up to t, or the one of this stretch again.
Unacknowledged == {d \in DOMAIN feed.cut : feed.cut[d].from = feed.acked + 1}

Cut(d, t) ==
    IF feed.recuts \/ Unacknowledged = {}
    THEN /\ d = Len(feed.cut) + 1 /\ t \in feed.acked + 1 .. feed.high
         /\ feed' = [feed EXCEPT !.cut = Append(@, [from |-> feed.acked + 1, through |-> t])]
    ELSE /\ d \in Unacknowledged /\ t = Through(d)
         /\ UNCHANGED feed

-----------------------------------------------------------------------------
(* Claims of the job and its cursors *)

Claim(w) ==
    /\ lease = 0 /\ (feed.recuts \/ w <= MaxKeptClaims)
    /\ \A v \in Claims : workers[v].step = "new" <=> v >= w
    /\ lease' = w
    /\ workers' = [workers EXCEPT ![w].step = "register"]
    /\ UNCHANGED <<feed, cursors, bridgeVars>>

\* The lease runs out, or the run was finished or cancelled.
LeaseEnds ==
    /\ lease # 0
    /\ lease' = 0
    /\ UNCHANGED <<feed, cursors, workers, bridgeVars>>

\* archive and create_from_template, between two claims: cursors belong to a job.
\* Only over a feed that keeps its digests: another would cut the events again.
Recreate ==
    /\ ~feed.recuts /\ lease = 0
    /\ cursors' = NoCursors
    /\ UNCHANGED <<feed, lease, workers, bridgeVars>>

Holds_Unfenced(w) == TRUE
Holds(w) == lease = w

At(w, step) == workers[w].step = step /\ workers[w].todo = <<>>

Go(w, step, todo) == workers' = [workers EXCEPT ![w].step = step, ![w].todo = todo]
Over(w, todo) == workers' = [workers EXCEPT ![w] = [NewWorker EXCEPT !.step = "done", !.todo = todo]]

\* _set_cursor and update_cursor, one write of the list.
WriteCursor(w) ==
    /\ workers[w].todo # <<>>
    /\ Holds(w)
    /\ LET write == Head(workers[w].todo) IN cursors' = [cursors EXCEPT ![write[1]] = write[2]]
    /\ workers' = [workers EXCEPT ![w].todo = Tail(@)]
    /\ UNCHANGED <<feed, lease, bridgeVars>>

\* _clear_pending: the state first, so that a crash in the middle leaves nothing
\* to resume.
Clear == [i \in 1..Len(Names) |-> <<Names[i], NoCursors[Names[i]]>>]

\* The digest is written before the state that announces it.
Prepare(d) ==
    <<<<"pending_ack", d>>, <<"pending_digest_id", d>>, <<"pending_content_hash", d>>,
      <<"pending_through_sequence", d>>, <<"notification_text_hash", d>>,
      <<"notification_message_id", 0>>, <<"delivery_state", "prepared">>>>

State(s) == <<<<"delivery_state", s>>>>
MessageKnown(d) == <<<<"notification_message_id", d>>, <<"delivery_state", "sent_unverified">>>>

-----------------------------------------------------------------------------
(* CrmDigestExecutor._execute *)

Register(w) ==
    /\ At(w, "register") /\ Holds(w)
    /\ workers' = [workers EXCEPT ![w].step = "resume", ![w].acked = feed.acked,
                                  ![w].resuming = TRUE]
    /\ UNCHANGED <<feed, cursors, lease, bridgeVars>>

\* What of a pending digest is settled: acknowledged, or never announced.
Settled(w) ==
    \/ workers[w].acked >= Through(cursors["pending_through_sequence"])
    \/ cursors["delivery_state"] = "prepared"

\* _resume_pending reads all cursors at once and decides.
Resume(w) ==
    LET state == cursors["delivery_state"]
        next(step, todo) == workers' = [workers EXCEPT ![w].step = step, ![w].todo = todo,
                                                       ![w].seen = cursors]
    IN
    /\ At(w, "resume")
    /\ \/ state = "none" /\ next("read", <<>>)
       \/ /\ state # "none" /\ cursors["pending_through_sequence"] # 0
          /\ \/ Settled(w) /\ next("read", Clear)
             \/ ~Settled(w) /\ state = "sending" /\ next("lookup", <<>>)
             \/ ~Settled(w) /\ state # "sending" /\ next("readback", <<>>)
    /\ UNCHANGED <<feed, cursors, lease, bridgeVars>>

\* Anything but a verified answer is left for a human: the worker stops.
LookUp(w) ==
    LET d == workers[w].seen["pending_digest_id"] IN
    /\ At(w, "lookup") /\ d # 0
    /\ Bridge!Lookup(d)
    /\ workers' = [workers EXCEPT ![w].step = "readback", ![w].todo = MessageKnown(d),
                                  ![w].seen["notification_message_id"] = d]
    /\ UNCHANGED <<feed, cursors, lease>>

ReadNothing(w) ==
    /\ At(w, "read") /\ Holds(w) /\ feed.high = feed.acked
    /\ Over(w, <<>>)
    /\ UNCHANGED <<feed, cursors, lease, bridgeVars>>

ReadAndSummarize(w) ==
    /\ At(w, "read") /\ Holds(w) /\ feed.high > feed.acked
    /\ \E d \in Digests, t \in 1..MaxEvents :
          /\ Cut(d, t)
          /\ workers' = [workers EXCEPT
                 ![w].step = "announce", ![w].todo = Prepare(d), ![w].resuming = FALSE,
                 ![w].seen = [name \in Parts |->
                                 IF name = "notification_message_id" THEN 0 ELSE d]]
    /\ UNCHANGED <<cursors, lease, bridgeVars>>

\* The dry run between two looks at the claim, then the state that forbids a
\* second attempt.
Announce_Silently(w) ==
    /\ At(w, "announce") /\ Holds(w)
    /\ Go(w, "apply", <<>>)
    /\ UNCHANGED <<feed, cursors, lease, bridgeVars>>
Announce(w) ==
    /\ At(w, "announce") /\ Holds(w)
    /\ Go(w, "apply", State("sending"))
    /\ UNCHANGED <<feed, cursors, lease, bridgeVars>>

Apply(w) ==
    /\ At(w, "apply")
    /\ Go(w, "applying", <<>>)
    /\ Bridge!Request(workers[w].seen["pending_digest_id"], w)
    /\ UNCHANGED <<feed, cursors, lease>>

Answer(w) == Bridge!Answers(workers[w].seen["pending_digest_id"], w)

AppliedOk(w) ==
    LET d == workers[w].seen["pending_digest_id"] IN
    /\ At(w, "applying") /\ "ok" \in Answer(w) /\ Holds(w)
    /\ workers' = [workers EXCEPT ![w].step = "readback", ![w].todo = MessageKnown(d),
                                  ![w].seen["notification_message_id"] = d]
    /\ UNCHANGED <<feed, cursors, lease, bridgeVars>>

\* A proven refusal takes the announcement back; any other error does not.
AppliedStale_AnyError(w) ==
    /\ At(w, "applying")
    /\ Over(w, State("prepared"))
    /\ UNCHANGED <<feed, cursors, lease, bridgeVars>>
AppliedStale(w) ==
    /\ At(w, "applying") /\ "stale" \in Answer(w)
    /\ Over(w, State("prepared"))
    /\ UNCHANGED <<feed, cursors, lease, bridgeVars>>

Readback(w) ==
    LET d == workers[w].seen["notification_message_id"] IN
    /\ At(w, "readback") /\ d # 0 /\ workers[w].seen["pending_ack"] # 0
    /\ Bridge!ReadbackVerifies(d)
    /\ Go(w, "ack", State("delivered_unacked"))
    /\ UNCHANGED <<feed, cursors, lease, bridgeVars>>

Acknowledge(w) ==
    /\ At(w, "ack")
    /\ feed' = [feed EXCEPT !.acks = @ \cup {workers[w].seen["pending_ack"]}]
    /\ Go(w, "acking", <<>>)
    /\ UNCHANGED <<cursors, lease, bridgeVars>>

\* After a resumed delivery the run goes on to read; otherwise it is over.
Acknowledged(w) ==
    /\ At(w, "acking") /\ feed.acked >= Through(workers[w].seen["pending_through_sequence"])
    /\ IF workers[w].resuming THEN Go(w, "read", Clear) ELSE Over(w, Clear)
    /\ UNCHANGED <<feed, cursors, lease, bridgeVars>>

\* An error of any call, a lost lease, a superseded claim, a crash.
Stop(w) ==
    /\ workers[w].step \notin {"new", "done"} \/ workers[w].todo # <<>>
    /\ Over(w, <<>>)
    /\ UNCHANGED <<feed, cursors, lease, bridgeVars>>

Execute(w) ==
    \/ WriteCursor(w) \/ Register(w) \/ Resume(w) \/ LookUp(w)
    \/ ReadNothing(w) \/ ReadAndSummarize(w) \/ Announce(w) \/ Apply(w)
    \/ AppliedOk(w) \/ AppliedStale(w) \/ Readback(w) \/ Acknowledge(w) \/ Acknowledged(w)

Next ==
    \/ Publish \/ LeaseEnds \/ Recreate
    \/ \E d \in feed.acks : FeedAck(d)
    \/ \E w \in Claims : Claim(w) \/ Execute(w) \/ Stop(w)
    \/ \E q \in requests : Bridge!Step(q) /\ UNCHANGED <<feed, cursors, lease, workers>>

Spec == Init /\ [][Next]_digestVars

-----------------------------------------------------------------------------
(* Safety *)

\* A state found by the next run comes with all the parts of one digest, and a
\* state that says "sent" with its message.
PendingIsComplete ==
    cursors["delivery_state"] # "none" =>
        \E d \in DOMAIN feed.cut :
            /\ \A name \in Parts \ {"notification_message_id"} : cursors[name] = d
            /\ cursors["delivery_state"] \in {"sent_unverified", "delivered_unacked"} =>
                  cursors["notification_message_id"] = d /\ chat[d] = 1

\* Whatever may still reach the owner is written down, where the feed would cut
\* it anew: without a pending delivery, or with one that is only prepared, no
\* digest of unacknowledged events has left, or can leave by a request under way.
NothingOutstanding ==
    feed.recuts /\ cursors["delivery_state"] \in {"none", "prepared"} =>
        \A d \in DOMAIN feed.cut :
            feed.cut[d].through > feed.acked => chat[d] = 0 /\ ~Bridge!MayStillArrive(d)

\* How often the owner was told of event n: the messages of the digests that hold it.
Told(n) ==
    LET Of == {d \in DOMAIN feed.cut : feed.cut[d].from <= n /\ n <= feed.cut[d].through} IN
    Cardinality(UNION {{d} \X (1..chat[d]) : d \in Of})

\* The executor keeps what the digest promises: no event is told twice, none is
\* acknowledged that was not told.
Feed == INSTANCE DigestFeed WITH
            high <- feed.high, acked <- feed.acked,
            told <- [n \in 1..MaxEvents |-> Told(n)]
PromiseKept == Feed!Spec
=============================================================================
