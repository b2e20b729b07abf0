-------------------------- MODULE OwnerBridgeProofs --------------------------
(***************************************************************************)
(* The owner receives each notification at most once, and the bridge's     *)
(* answers are proof, for any number of keys, attempts and clients.        *)
(***************************************************************************)
EXTENDS OwnerBridge, TLAPS

Entered == {"sending", "sent", "adrift"}
Unsent == {"requested", "stale", "lost"}

(* The inductive invariant, in parts. *)

\* An attempt is asked once, and the lane holds one request.
Identity == \A p, q \in requests : p.key = q.key /\ p.token = q.token => p = q
OneInLane == \A p, q \in requests : p.stage \in InLane /\ q.stage \in InLane => p = q

\* At most one request ever passed the intent of a key without losing its trace.
OneSender ==
    \A p, q \in requests : p.key = q.key /\ p.stage \in Entered /\ q.stage \in Entered => p = q

\* What each ledger entry and each stage say of the chat.
NoEntry ==
    \A k \in Keys : ledger[k] = "none" =>
        chat[k] = 0 /\ \A q \in requests : q.key = k => q.stage \in Unsent
KnownEntry == \A k \in Keys : ledger[k] \in {"known", "verified"} => chat[k] = 1
Unarrived ==
    \A q \in requests : q.stage \in {"sending", "adrift"} =>
        ledger[q.key] = "intent" /\ chat[q.key] = 0
Arrived == \A q \in requests : q.stage = "sent" => ledger[q.key] = "intent" /\ chat[q.key] = 1
Answered == \A q \in requests : q.stage \in {"reading", "ok"} => ledger[q.key] \in {"known", "verified"}

SendInv ==
    /\ BridgeTypeOK /\ Identity /\ OneInLane /\ OneSender
    /\ NoEntry /\ KnownEntry /\ Unarrived /\ Arrived /\ Answered /\ SentOncePerKey

(***************************************************************************)
(* Steps                                                                   *)
(***************************************************************************)
Fresh(k, t) == [key |-> k, token |-> t, stage |-> "requested"]
Moved(q, stage) == [q EXCEPT !.stage = stage]

\* What a request is after a step of its own.
LEMMA MovedFields ==
    ASSUME BridgeTypeOK, NEW q \in requests, NEW stage \in Stages, Advance(q, stage)
    PROVE  /\ requests' = (requests \ {q}) \cup {Moved(q, stage)}
           /\ Moved(q, stage) \in [key : Keys, token : Tokens, stage : Stages]
           /\ Moved(q, stage).key = q.key /\ Moved(q, stage).token = q.token
           /\ Moved(q, stage).stage = stage
           /\ q \in [key : Keys, token : Tokens, stage : Stages]
  BY DEF BridgeTypeOK, Advance, Moved

\* A client's request adds one attempt that has done nothing.
LEMMA RequestKeeps ==
    ASSUME SendInv, NEW k \in Keys, NEW t \in Tokens, Request(k, t)
    PROVE  SendInv'
<1>1. /\ requests' = requests \cup {Fresh(k, t)} /\ ledger' = ledger /\ chat' = chat
      /\ \A q \in requests : q.key # k \/ q.token # t
  BY DEF Request, Fresh
<1>2. /\ Fresh(k, t) \in [key : Keys, token : Tokens, stage : Stages]
      /\ Fresh(k, t).key = k /\ Fresh(k, t).token = t /\ Fresh(k, t).stage = "requested"
  BY DEF Fresh, Stages
<1>BridgeTypeOK. BridgeTypeOK'
  BY <1>1, <1>2 DEF SendInv, BridgeTypeOK, LedgerStates
<1>Identity. Identity'
  BY <1>1, <1>2 DEF SendInv, Identity
<1>OneInLane. OneInLane'
  BY <1>1, <1>2 DEF SendInv, OneInLane, InLane
<1>OneSender. OneSender'
  BY <1>1, <1>2 DEF SendInv, OneSender, Entered
<1>NoEntry. NoEntry'
  BY <1>1, <1>2 DEF SendInv, NoEntry, Unsent
<1>KnownEntry. KnownEntry'
  BY <1>1, <1>2 DEF SendInv, KnownEntry
<1>Unarrived. Unarrived'
  BY <1>1, <1>2 DEF SendInv, Unarrived
<1>Arrived. Arrived'
  BY <1>1, <1>2 DEF SendInv, Arrived
<1>Answered. Answered'
  BY <1>1, <1>2 DEF SendInv, Answered
<1>SentOncePerKey. SentOncePerKey'
  BY <1>1, <1>2 DEF SendInv, SentOncePerKey
<1> QED
  BY <1>BridgeTypeOK, <1>Identity, <1>OneInLane, <1>OneSender, <1>NoEntry,
     <1>KnownEntry, <1>Unarrived, <1>Arrived, <1>Answered, <1>SentOncePerKey DEF SendInv

\* A lookup turns "known" into "verified", for a key whose message is there.
LEMMA LookupKeeps ==
    ASSUME SendInv, NEW k \in Keys, Lookup(k)
    PROVE  SendInv'
<1>1. /\ requests' = requests /\ chat' = chat
      /\ ledger' = [ledger EXCEPT ![k] = "verified"]
      /\ ledger[k] \in {"known", "verified"}
  BY DEF Lookup, LookupVerifies, MarkVerified
<1>BridgeTypeOK. BridgeTypeOK'
  BY <1>1 DEF SendInv, BridgeTypeOK, LedgerStates
<1>Identity. Identity'
  BY <1>1 DEF SendInv, Identity
<1>OneInLane. OneInLane'
  BY <1>1 DEF SendInv, OneInLane, InLane
<1>OneSender. OneSender'
  BY <1>1 DEF SendInv, OneSender, Entered
<1>NoEntry. NoEntry'
  BY <1>1 DEF SendInv, NoEntry, Unsent, BridgeTypeOK
<1>KnownEntry. KnownEntry'
  BY <1>1 DEF SendInv, KnownEntry, BridgeTypeOK
<1>Unarrived. Unarrived'
  BY <1>1 DEF SendInv, Unarrived, BridgeTypeOK
<1>Arrived. Arrived'
  BY <1>1 DEF SendInv, Arrived, BridgeTypeOK
<1>Answered. Answered'
  BY <1>1 DEF SendInv, Answered, BridgeTypeOK
<1>SentOncePerKey. SentOncePerKey'
  BY <1>1 DEF SendInv, SentOncePerKey
<1> QED
  BY <1>BridgeTypeOK, <1>Identity, <1>OneInLane, <1>OneSender, <1>NoEntry,
     <1>KnownEntry, <1>Unarrived, <1>Arrived, <1>Answered, <1>SentOncePerKey DEF SendInv

\* The intent enters the lane with an entry that was missing.
LEMMA IntentKeeps ==
    ASSUME SendInv, NEW q \in requests, Intent(q)
    PROVE  SendInv'
<1>1. /\ ledger' = [ledger EXCEPT ![q.key] = "intent"] /\ chat' = chat
      /\ q.stage = "requested" /\ ledger[q.key] = "none"
      /\ \A x \in requests : x.stage \notin InLane
  BY DEF Intent, LaneFree
<1>2. /\ requests' = (requests \ {q}) \cup {Moved(q, "sending")}
      /\ Moved(q, "sending") \in [key : Keys, token : Tokens, stage : Stages]
      /\ Moved(q, "sending").key = q.key /\ Moved(q, "sending").token = q.token
      /\ Moved(q, "sending").stage = "sending"
      /\ q \in [key : Keys, token : Tokens, stage : Stages]
  BY MovedFields DEF Intent, SendInv, Stages
<1>BridgeTypeOK. BridgeTypeOK'
  BY <1>1, <1>2 DEF SendInv, BridgeTypeOK, LedgerStates
<1>Identity. Identity'
  BY <1>1, <1>2 DEF SendInv, Identity
<1>OneInLane. OneInLane'
  BY <1>1, <1>2 DEF SendInv, OneInLane, InLane
<1>OneSender. OneSender'
  BY <1>1, <1>2 DEF SendInv, OneSender, Entered, NoEntry, Unsent
<1>NoEntry. NoEntry'
  BY <1>1, <1>2 DEF SendInv, NoEntry, Unsent, BridgeTypeOK
<1>KnownEntry. KnownEntry'
  BY <1>1, <1>2 DEF SendInv, KnownEntry, BridgeTypeOK
<1>Unarrived. Unarrived'
  BY <1>1, <1>2 DEF SendInv, Unarrived, BridgeTypeOK, NoEntry, Unsent
<1>Arrived. Arrived'
  BY <1>1, <1>2 DEF SendInv, Arrived, BridgeTypeOK, NoEntry, Unsent
<1>Answered. Answered'
  BY <1>1, <1>2 DEF SendInv, Answered, BridgeTypeOK, NoEntry, Unsent
<1>SentOncePerKey. SentOncePerKey'
  BY <1>1, <1>2 DEF SendInv, SentOncePerKey
<1> QED
  BY <1>BridgeTypeOK, <1>Identity, <1>OneInLane, <1>OneSender, <1>NoEntry,
     <1>KnownEntry, <1>Unarrived, <1>Arrived, <1>Answered, <1>SentOncePerKey DEF SendInv

\* A refusal before the intent changes nothing else.
LEMMA StaleKeeps ==
    ASSUME SendInv, NEW q \in requests, Stale(q)
    PROVE  SendInv'
<1>1. /\ ledger' = ledger /\ chat' = chat
      /\ q.stage = "requested" /\ ledger[q.key] = "none"
      /\ \A x \in requests : x.stage \notin InLane
  BY DEF Stale, LaneFree
<1>2. /\ requests' = (requests \ {q}) \cup {Moved(q, "stale")}
      /\ Moved(q, "stale") \in [key : Keys, token : Tokens, stage : Stages]
      /\ Moved(q, "stale").key = q.key /\ Moved(q, "stale").token = q.token
      /\ Moved(q, "stale").stage = "stale"
      /\ q \in [key : Keys, token : Tokens, stage : Stages]
  BY MovedFields DEF Stale, SendInv, Stages
<1>BridgeTypeOK. BridgeTypeOK'
  BY <1>1, <1>2 DEF SendInv, BridgeTypeOK, LedgerStates
<1>Identity. Identity'
  BY <1>1, <1>2 DEF SendInv, Identity
<1>OneInLane. OneInLane'
  BY <1>1, <1>2 DEF SendInv, OneInLane, InLane
<1>OneSender. OneSender'
  BY <1>1, <1>2 DEF SendInv, OneSender, Entered
<1>NoEntry. NoEntry'
  BY <1>1, <1>2 DEF SendInv, NoEntry, Unsent
<1>KnownEntry. KnownEntry'
  BY <1>1, <1>2 DEF SendInv, KnownEntry
<1>Unarrived. Unarrived'
  BY <1>1, <1>2 DEF SendInv, Unarrived
<1>Arrived. Arrived'
  BY <1>1, <1>2 DEF SendInv, Arrived
<1>Answered. Answered'
  BY <1>1, <1>2 DEF SendInv, Answered
<1>SentOncePerKey. SentOncePerKey'
  BY <1>1, <1>2 DEF SendInv, SentOncePerKey
<1> QED
  BY <1>BridgeTypeOK, <1>Identity, <1>OneInLane, <1>OneSender, <1>NoEntry,
     <1>KnownEntry, <1>Unarrived, <1>Arrived, <1>Answered, <1>SentOncePerKey DEF SendInv

\* A replay only reads.
LEMMA ReplayKeeps ==
    ASSUME SendInv, NEW q \in requests, Replay(q)
    PROVE  SendInv'
<1>1. /\ ledger' = ledger /\ chat' = chat
      /\ q.stage = "requested" /\ ledger[q.key] \in {"known", "verified"}
      /\ \A x \in requests : x.stage \notin InLane
  BY DEF Replay, LaneFree
<1>2. /\ requests' = (requests \ {q}) \cup {Moved(q, "reading")}
      /\ Moved(q, "reading") \in [key : Keys, token : Tokens, stage : Stages]
      /\ Moved(q, "reading").key = q.key /\ Moved(q, "reading").token = q.token
      /\ Moved(q, "reading").stage = "reading"
      /\ q \in [key : Keys, token : Tokens, stage : Stages]
  BY MovedFields DEF Replay, SendInv, Stages
<1>BridgeTypeOK. BridgeTypeOK'
  BY <1>1, <1>2 DEF SendInv, BridgeTypeOK, LedgerStates
<1>Identity. Identity'
  BY <1>1, <1>2 DEF SendInv, Identity
<1>OneInLane. OneInLane'
  BY <1>1, <1>2 DEF SendInv, OneInLane, InLane
<1>OneSender. OneSender'
  BY <1>1, <1>2 DEF SendInv, OneSender, Entered
<1>NoEntry. NoEntry'
  BY <1>1, <1>2 DEF SendInv, NoEntry, Unsent, BridgeTypeOK
<1>KnownEntry. KnownEntry'
  BY <1>1, <1>2 DEF SendInv, KnownEntry
<1>Unarrived. Unarrived'
  BY <1>1, <1>2 DEF SendInv, Unarrived
<1>Arrived. Arrived'
  BY <1>1, <1>2 DEF SendInv, Arrived
<1>Answered. Answered'
  BY <1>1, <1>2 DEF SendInv, Answered
<1>SentOncePerKey. SentOncePerKey'
  BY <1>1, <1>2 DEF SendInv, SentOncePerKey
<1> QED
  BY <1>BridgeTypeOK, <1>Identity, <1>OneInLane, <1>OneSender, <1>NoEntry,
     <1>KnownEntry, <1>Unarrived, <1>Arrived, <1>Answered, <1>SentOncePerKey DEF SendInv

\* The message leaves.
LEMMA SendKeeps ==
    ASSUME SendInv, NEW q \in requests, Send(q)
    PROVE  SendInv'
<1>1. /\ ledger' = ledger /\ chat' = [chat EXCEPT ![q.key] = @ + 1]
      /\ q.stage = "sending"
  BY DEF Send
<1>2. /\ requests' = (requests \ {q}) \cup {Moved(q, "sent")}
      /\ Moved(q, "sent") \in [key : Keys, token : Tokens, stage : Stages]
      /\ Moved(q, "sent").key = q.key /\ Moved(q, "sent").token = q.token
      /\ Moved(q, "sent").stage = "sent"
      /\ q \in [key : Keys, token : Tokens, stage : Stages]
  BY MovedFields DEF Send, SendInv, Stages
<1>BridgeTypeOK. BridgeTypeOK'
  BY <1>1, <1>2 DEF SendInv, BridgeTypeOK, LedgerStates
<1>Identity. Identity'
  BY <1>1, <1>2 DEF SendInv, Identity
<1>OneInLane. OneInLane'
  BY <1>1, <1>2 DEF SendInv, OneInLane, InLane
<1>OneSender. OneSender'
  BY <1>1, <1>2 DEF SendInv, OneSender, Entered
<1>NoEntry. NoEntry'
  BY <1>1, <1>2 DEF SendInv, NoEntry, Unsent, BridgeTypeOK, Unarrived
<1>KnownEntry. KnownEntry'
  BY <1>1, <1>2 DEF SendInv, KnownEntry, BridgeTypeOK, Unarrived
<1>Unarrived. Unarrived'
  BY <1>1, <1>2 DEF SendInv, Unarrived, BridgeTypeOK, OneSender, Entered
<1>Arrived. Arrived'
  BY <1>1, <1>2 DEF SendInv, Arrived, BridgeTypeOK, Unarrived, OneSender, Entered
<1>Answered. Answered'
  BY <1>1, <1>2 DEF SendInv, Answered
<1>SentOncePerKey. SentOncePerKey'
  BY <1>1, <1>2 DEF SendInv, SentOncePerKey, BridgeTypeOK, Unarrived
<1> QED
  BY <1>BridgeTypeOK, <1>Identity, <1>OneInLane, <1>OneSender, <1>NoEntry,
     <1>KnownEntry, <1>Unarrived, <1>Arrived, <1>Answered, <1>SentOncePerKey DEF SendInv

\* Its identifier is recorded.
LEMMA RecordKeeps ==
    ASSUME SendInv, NEW q \in requests, Record(q)
    PROVE  SendInv'
<1>1. /\ ledger' = [ledger EXCEPT ![q.key] = "known"] /\ chat' = chat
      /\ q.stage = "sent"
  BY DEF Record
<1>2. /\ requests' = (requests \ {q}) \cup {Moved(q, "reading")}
      /\ Moved(q, "reading") \in [key : Keys, token : Tokens, stage : Stages]
      /\ Moved(q, "reading").key = q.key /\ Moved(q, "reading").token = q.token
      /\ Moved(q, "reading").stage = "reading"
      /\ q \in [key : Keys, token : Tokens, stage : Stages]
  BY MovedFields DEF Record, SendInv, Stages
<1>BridgeTypeOK. BridgeTypeOK'
  BY <1>1, <1>2 DEF SendInv, BridgeTypeOK, LedgerStates
<1>Identity. Identity'
  BY <1>1, <1>2 DEF SendInv, Identity
<1>OneInLane. OneInLane'
  BY <1>1, <1>2 DEF SendInv, OneInLane, InLane
<1>OneSender. OneSender'
  BY <1>1, <1>2 DEF SendInv, OneSender, Entered
<1>NoEntry. NoEntry'
  BY <1>1, <1>2 DEF SendInv, NoEntry, Unsent, BridgeTypeOK
<1>KnownEntry. KnownEntry'
  BY <1>1, <1>2 DEF SendInv, KnownEntry, BridgeTypeOK, Arrived
<1>Unarrived. Unarrived'
  BY <1>1, <1>2 DEF SendInv, Unarrived, BridgeTypeOK, OneSender, Entered
<1>Arrived. Arrived'
  BY <1>1, <1>2 DEF SendInv, Arrived, BridgeTypeOK, OneSender, Entered
<1>Answered. Answered'
  BY <1>1, <1>2 DEF SendInv, Answered, BridgeTypeOK
<1>SentOncePerKey. SentOncePerKey'
  BY <1>1, <1>2 DEF SendInv, SentOncePerKey
<1> QED
  BY <1>BridgeTypeOK, <1>Identity, <1>OneInLane, <1>OneSender, <1>NoEntry,
     <1>KnownEntry, <1>Unarrived, <1>Arrived, <1>Answered, <1>SentOncePerKey DEF SendInv

\* It is read back.
LEMMA VerifyKeeps ==
    ASSUME SendInv, NEW q \in requests, Verify(q)
    PROVE  SendInv'
<1>1. /\ ledger' = [ledger EXCEPT ![q.key] = "verified"] /\ chat' = chat
      /\ q.stage = "reading"
  BY DEF Verify, MarkVerified
<1>2. /\ requests' = (requests \ {q}) \cup {Moved(q, "ok")}
      /\ Moved(q, "ok") \in [key : Keys, token : Tokens, stage : Stages]
      /\ Moved(q, "ok").key = q.key /\ Moved(q, "ok").token = q.token
      /\ Moved(q, "ok").stage = "ok"
      /\ q \in [key : Keys, token : Tokens, stage : Stages]
  BY MovedFields DEF Verify, SendInv, Stages
<1>BridgeTypeOK. BridgeTypeOK'
  BY <1>1, <1>2 DEF SendInv, BridgeTypeOK, LedgerStates
<1>Identity. Identity'
  BY <1>1, <1>2 DEF SendInv, Identity
<1>OneInLane. OneInLane'
  BY <1>1, <1>2 DEF SendInv, OneInLane, InLane
<1>OneSender. OneSender'
  BY <1>1, <1>2 DEF SendInv, OneSender, Entered
<1>NoEntry. NoEntry'
  BY <1>1, <1>2 DEF SendInv, NoEntry, Unsent, BridgeTypeOK, Answered
<1>KnownEntry. KnownEntry'
  BY <1>1, <1>2 DEF SendInv, KnownEntry, BridgeTypeOK, Answered
<1>Unarrived. Unarrived'
  BY <1>1, <1>2 DEF SendInv, Unarrived, BridgeTypeOK, Answered
<1>Arrived. Arrived'
  BY <1>1, <1>2 DEF SendInv, Arrived, BridgeTypeOK, Answered
<1>Answered. Answered'
  BY <1>1, <1>2 DEF SendInv, Answered, BridgeTypeOK
<1>SentOncePerKey. SentOncePerKey'
  BY <1>1, <1>2 DEF SendInv, SentOncePerKey
<1> QED
  BY <1>BridgeTypeOK, <1>Identity, <1>OneInLane, <1>OneSender, <1>NoEntry,
     <1>KnownEntry, <1>Unarrived, <1>Arrived, <1>Answered, <1>SentOncePerKey DEF SendInv

\* A message nobody waits for arrives.
LEMMA ArriveKeeps ==
    ASSUME SendInv, NEW q \in requests, Arrive(q)
    PROVE  SendInv'
<1>1. /\ ledger' = ledger /\ chat' = [chat EXCEPT ![q.key] = @ + 1]
      /\ q.stage = "adrift"
  BY DEF Arrive
<1>2. /\ requests' = (requests \ {q}) \cup {Moved(q, "lost")}
      /\ Moved(q, "lost") \in [key : Keys, token : Tokens, stage : Stages]
      /\ Moved(q, "lost").key = q.key /\ Moved(q, "lost").token = q.token
      /\ Moved(q, "lost").stage = "lost"
      /\ q \in [key : Keys, token : Tokens, stage : Stages]
  BY MovedFields DEF Arrive, SendInv, Stages
<1>BridgeTypeOK. BridgeTypeOK'
  BY <1>1, <1>2 DEF SendInv, BridgeTypeOK, LedgerStates
<1>Identity. Identity'
  BY <1>1, <1>2 DEF SendInv, Identity
<1>OneInLane. OneInLane'
  BY <1>1, <1>2 DEF SendInv, OneInLane, InLane
<1>OneSender. OneSender'
  BY <1>1, <1>2 DEF SendInv, OneSender, Entered
<1>NoEntry. NoEntry'
  BY <1>1, <1>2 DEF SendInv, NoEntry, Unsent, BridgeTypeOK, Unarrived
<1>KnownEntry. KnownEntry'
  BY <1>1, <1>2 DEF SendInv, KnownEntry, BridgeTypeOK, Unarrived
<1>Unarrived. Unarrived'
  BY <1>1, <1>2 DEF SendInv, Unarrived, BridgeTypeOK, OneSender, Entered
<1>Arrived. Arrived'
  BY <1>1, <1>2 DEF SendInv, Arrived, BridgeTypeOK, Unarrived, OneSender, Entered
<1>Answered. Answered'
  BY <1>1, <1>2 DEF SendInv, Answered
<1>SentOncePerKey. SentOncePerKey'
  BY <1>1, <1>2 DEF SendInv, SentOncePerKey, BridgeTypeOK, Unarrived
<1> QED
  BY <1>BridgeTypeOK, <1>Identity, <1>OneInLane, <1>OneSender, <1>NoEntry,
     <1>KnownEntry, <1>Unarrived, <1>Arrived, <1>Answered, <1>SentOncePerKey DEF SendInv

\* A request dropped while its message may still leave keeps its mark.
LEMMA DropKeeps ==
    ASSUME SendInv, NEW q \in requests, Drop(q)
    PROVE  SendInv'
<1> DEFINE stage == IF q.stage = "sending" THEN "adrift" ELSE "lost"
<1>1. /\ ledger' = ledger /\ chat' = chat
      /\ q.stage \in {"requested", "sending", "sent", "reading"}
      /\ stage \in {"adrift", "lost"} /\ (stage = "adrift" <=> q.stage = "sending")
  BY DEF Drop, InLane
<1>2. /\ requests' = (requests \ {q}) \cup {Moved(q, stage)}
      /\ Moved(q, stage) \in [key : Keys, token : Tokens, stage : Stages]
      /\ Moved(q, stage).key = q.key /\ Moved(q, stage).token = q.token
      /\ Moved(q, stage).stage = stage
      /\ q \in [key : Keys, token : Tokens, stage : Stages]
  BY MovedFields DEF Drop, SendInv, Stages
<1> HIDE DEF stage
<1>BridgeTypeOK. BridgeTypeOK'
  BY <1>1, <1>2 DEF SendInv, BridgeTypeOK, LedgerStates
<1>Identity. Identity'
  BY <1>1, <1>2 DEF SendInv, Identity
<1>OneInLane. OneInLane'
  BY <1>1, <1>2 DEF SendInv, OneInLane, InLane
<1>OneSender. OneSender'
  BY <1>1, <1>2 DEF SendInv, OneSender, Entered
<1>NoEntry. NoEntry'
  BY <1>1, <1>2 DEF SendInv, NoEntry, Unsent
<1>KnownEntry. KnownEntry'
  BY <1>1, <1>2 DEF SendInv, KnownEntry
<1>Unarrived. Unarrived'
  BY <1>1, <1>2 DEF SendInv, Unarrived
<1>Arrived. Arrived'
  BY <1>1, <1>2 DEF SendInv, Arrived
<1>Answered. Answered'
  BY <1>1, <1>2 DEF SendInv, Answered
<1>SentOncePerKey. SentOncePerKey'
  BY <1>1, <1>2 DEF SendInv, SentOncePerKey
<1> QED
  BY <1>BridgeTypeOK, <1>Identity, <1>OneInLane, <1>OneSender, <1>NoEntry,
     <1>KnownEntry, <1>Unarrived, <1>Arrived, <1>Answered, <1>SentOncePerKey DEF SendInv

(***************************************************************************)
(* Theorems                                                                *)
(***************************************************************************)
\* Nothing was asked and nothing sent.
LEMMA SendInit == Init => SendInv
BY DEF Init, SendInv, BridgeTypeOK, Identity, OneInLane, OneSender, NoEntry, KnownEntry,
         Unarrived, Arrived, Answered, SentOncePerKey, LedgerStates

\* Every step of the bridge and of its clients keeps the invariant.
LEMMA SendStep == SendInv /\ [Next]_bridgeVars => SendInv'
<1> SUFFICES ASSUME SendInv, [Next]_bridgeVars PROVE SendInv'
  OBVIOUS
<1>1. CASE \E k \in Keys : Lookup(k)
  BY <1>1, LookupKeeps
<1>2. CASE \E k \in Keys, t \in Tokens : Request(k, t)
  BY <1>2, RequestKeeps
<1>3. CASE \E q \in requests : Step(q)
  BY <1>3, IntentKeeps, StaleKeeps, ReplayKeeps, SendKeeps, RecordKeeps, VerifyKeeps,
     DropKeeps, ArriveKeeps DEF Step
<1>4. CASE UNCHANGED bridgeVars
  BY <1>4 DEF bridgeVars, SendInv, BridgeTypeOK, Identity, OneInLane, OneSender, NoEntry,
              KnownEntry, Unarrived, Arrived, Answered, SentOncePerKey
<1> QED
  BY <1>1, <1>2, <1>3, <1>4 DEF Next

\* The bridge keeps SendInv: every entry of the ledger and every stage of a
\* request tells the truth about the chat.
THEOREM SendInvariant == Spec => []SendInv
BY SendInit, SendStep, PTL DEF Spec

\* The owner receives each notification at most once, however often and by
\* whomever it is requested and wherever the bridge stops.
THEOREM SentOnce == Spec => []SentOncePerKey
<1>1. SendInv => SentOncePerKey
  BY DEF SendInv
<1> QED
  BY <1>1, SendInvariant, PTL

\* "verified" and "ok" prove one message, a missing entry proves none: what the
\* daemon and the digest executor conclude from the bridge's answers.
THEOREM AnswersProve == Spec => []AnswersAreProof
<1>1. SendInv => AnswersAreProof
  BY DEF SendInv, AnswersAreProof, NoEntry, KnownEntry, Answered, BridgeTypeOK, Unsent
<1> QED
  BY <1>1, SendInvariant, PTL

\* An intent whose request is gone blocks its key for good.
THEOREM IntentsBlock == Spec => IntentBlocks
<1>1. SendInv /\ [Next]_bridgeVars =>
        [\A k \in Keys :
            ledger[k] = "intent" /\ (\A q \in requests : q.key = k => q.stage \notin {"sending", "sent"})
                => ledger'[k] = "intent"]_bridgeVars
  <2> SUFFICES ASSUME SendInv, Next, NEW k \in Keys, ledger[k] = "intent",
                      \A q \in requests : q.key = k => q.stage \notin {"sending", "sent"}
               PROVE  ledger'[k] = "intent"
    OBVIOUS
  <2>1. CASE \E x \in Keys : Lookup(x)
    BY <2>1 DEF Lookup, LookupVerifies, MarkVerified, SendInv, BridgeTypeOK
  <2>2. CASE \E x \in Keys, t \in Tokens : Request(x, t)
    BY <2>2 DEF Request
  <2>3. CASE \E q \in requests : Step(q)
    <3> PICK q \in requests : Step(q)
      BY <2>3
    <3>1. q \in [key : Keys, token : Tokens, stage : Stages] /\ ledger \in [Keys -> LedgerStates]
      BY DEF SendInv, BridgeTypeOK
    <3>2. Verify(q) => q.key # k
      BY DEF Verify, SendInv, Answered
    <3>3. Record(q) => q.key # k
      BY DEF Record
    <3> QED
      BY <3>1, <3>2, <3>3
      DEF Step, Intent, Stale, Replay, Send, Record, Verify, MarkVerified, Drop, Arrive
  <2> QED
    BY <2>1, <2>2, <2>3 DEF Next
<1> QED
  BY <1>1, SendInvariant, PTL DEF Spec, IntentBlocks
=============================================================================
