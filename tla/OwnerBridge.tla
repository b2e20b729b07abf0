----------------------------- MODULE OwnerBridge -----------------------------
(***************************************************************************)
(* Notifications to the owner as the Telegram bridge sends them            *)
(* (telegram_bridge.py: _handle_owner_notification over                    *)
(* _handle_send_text_to_entity), with the ledger idempotency.json and the  *)
(* effect lane (telegram_effects.py), which runs one request at a time.    *)
(*                                                                         *)
(* A client names a notification by its idempotency key; it may ask again  *)
(* for a key, in another attempt, at any time, and its request lives on    *)
(* when the client dies.  The owner's chat is external: it shows each      *)
(* message Telegram accepted, perhaps after the bridge stopped waiting.    *)
(***************************************************************************)
EXTENDS Naturals

CONSTANTS
    Keys,       \* idempotency keys of owner notifications
    Tokens      \* attempts of the clients

VARIABLES
    requests,   \* apply requests ever issued, with their progress
    ledger,     \* idempotency.json: what the bridge knows of each key
    chat        \* messages the owner received, per key

bridgeVars == <<requests, ledger, chat>>

\* "lost": dropped (error, lane timeout, cancellation, crash), with no answer or
\* one that proves nothing; "adrift": dropped while Telegram may still accept
\* the message; "stale": refused before any intent; "ok": answered, verified.
Stages == {"requested", "sending", "sent", "reading", "ok", "stale", "lost", "adrift"}
InLane == {"sending", "sent", "reading"}
LedgerStates == {"none", "intent", "known", "verified"}

BridgeTypeOK ==
    /\ requests \subseteq [key : Keys, token : Tokens, stage : Stages]
    /\ ledger \in [Keys -> LedgerStates]
    /\ chat \in [Keys -> Nat]

Init ==
    /\ requests = {}
    /\ ledger = [k \in Keys |-> "none"]
    /\ chat = [k \in Keys |-> 0]

-----------------------------------------------------------------------------
(* What clients see *)

\* send_owner_notification in mode apply.
Request(k, t) ==
    /\ \A q \in requests : q.key # k \/ q.token # t
    /\ requests' = requests \cup {[key |-> k, token |-> t, stage |-> "requested"]}
    /\ UNCHANGED <<ledger, chat>>

Answers(k, t) == {q.stage : q \in {x \in requests : x.key = k /\ x.token = t}}

\* owner_notification_readback: the message is in the chat with this text.
ReadbackVerifies(k) == chat[k] > 0

\* owner_notification_idempotency_readback answers "verified" only for a key
\* with a known message that reads back; it then says so in the ledger.
LookupVerifies(k) == ledger[k] \in {"known", "verified"} /\ ReadbackVerifies(k)
MarkVerified(k) == ledger' = [ledger EXCEPT ![k] = "verified"]

Lookup(k) ==
    /\ LookupVerifies(k)
    /\ MarkVerified(k)
    /\ UNCHANGED <<requests, chat>>

\* A message for this key may still reach the owner without a further request.
MayStillArrive(k) ==
    \E q \in requests : q.key = k /\ q.stage \in {"requested", "sending", "adrift"}

-----------------------------------------------------------------------------
(* Steps of the bridge *)

Advance(q, stage) == requests' = (requests \ {q}) \cup {[q EXCEPT !.stage = stage]}

LaneFree == \A q \in requests : q.stage \notin InLane

Intent_AnyEntry(q) ==
    /\ LaneFree /\ q.stage = "requested" /\ ledger[q.key] \in {"none", "intent"}
    /\ ledger' = [ledger EXCEPT ![q.key] = "intent"]
    /\ Advance(q, "sending")
    /\ UNCHANGED chat

\* The intent is on disk before the message leaves.  A key with an entry but no
\* known message is refused: that request can only be dropped.
Intent(q) ==
    /\ LaneFree /\ q.stage = "requested" /\ ledger[q.key] = "none"
    /\ ledger' = [ledger EXCEPT ![q.key] = "intent"]
    /\ Advance(q, "sending")
    /\ UNCHANGED chat

\* conversation_changed_since_dry_run: only without a previous entry of the key.
Stale(q) ==
    /\ LaneFree /\ q.stage = "requested" /\ ledger[q.key] = "none"
    /\ Advance(q, "stale")
    /\ UNCHANGED <<ledger, chat>>

\* A key with a known message is only read back again.
Replay(q) ==
    /\ LaneFree /\ q.stage = "requested" /\ ledger[q.key] \in {"known", "verified"}
    /\ Advance(q, "reading")
    /\ UNCHANGED <<ledger, chat>>

Send(q) ==
    /\ q.stage = "sending"
    /\ chat' = [chat EXCEPT ![q.key] = @ + 1]
    /\ Advance(q, "sent")
    /\ UNCHANGED ledger

Record(q) ==
    /\ q.stage = "sent"
    /\ ledger' = [ledger EXCEPT ![q.key] = "known"]
    /\ Advance(q, "reading")
    /\ UNCHANGED chat

Verify(q) ==
    /\ q.stage = "reading" /\ ReadbackVerifies(q.key)
    /\ MarkVerified(q.key)
    /\ Advance(q, "ok")
    /\ UNCHANGED chat

Drop_Forgotten(q) ==
    /\ q.stage \in {"requested"} \cup InLane
    /\ Advance(q, IF q.stage = "sending" THEN "adrift" ELSE "lost")
    /\ ledger' = [ledger EXCEPT ![q.key] = IF @ = "intent" THEN "none" ELSE @]
    /\ UNCHANGED chat

\* A refusal, an error, a timeout of the lane or a crash of the bridge drops a
\* request at any point; what it has written to the ledger stays.
Drop(q) ==
    /\ q.stage \in {"requested"} \cup InLane
    /\ Advance(q, IF q.stage = "sending" THEN "adrift" ELSE "lost")
    /\ UNCHANGED <<ledger, chat>>

\* Telegram accepts a message nobody waits for any more, or never does.
Arrive(q) ==
    /\ q.stage = "adrift"
    /\ chat' = [chat EXCEPT ![q.key] = @ + 1]
    /\ Advance(q, "lost")
    /\ UNCHANGED ledger

Step(q) ==
    \/ Intent(q) \/ Stale(q) \/ Replay(q) \/ Send(q) \/ Record(q) \/ Verify(q)
    \/ Drop(q) \/ Arrive(q)

-----------------------------------------------------------------------------
\* Any clients: every key, in every attempt, at any time.
Next ==
    \/ \E k \in Keys : Lookup(k) \/ \E t \in Tokens : Request(k, t)
    \/ \E q \in requests : Step(q)

Spec == Init /\ [][Next]_bridgeVars

-----------------------------------------------------------------------------
(* Safety *)

\* However often and by whomever a notification is requested, and wherever the
\* bridge stops, the owner receives it at most once.
SentOncePerKey == \A k \in Keys : chat[k] <= 1

\* What the answers and the ledger prove: "verified" and "ok" one message;
\* no entry, and so a stale refusal, none, now or from a request under way.
AnswersAreProof ==
    /\ \A k \in Keys :
          /\ ledger[k] \in {"known", "verified"} => chat[k] = 1
          /\ ledger[k] = "none" =>
                /\ chat[k] = 0
                /\ \A q \in requests : q.key = k => q.stage \in {"requested", "stale", "lost"}
    /\ \A q \in requests : q.stage = "ok" => chat[q.key] = 1

\* A durable intent whose request is gone blocks the key for good: nothing the
\* bridge does by itself turns it into a sendable or a known key.
IntentBlocks ==
    [][\A k \in Keys :
          ledger[k] = "intent" /\ (\A q \in requests : q.key = k => q.stage \notin {"sending", "sent"})
              => ledger'[k] = "intent"]_bridgeVars
=============================================================================
