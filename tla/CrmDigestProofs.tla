-------------------------- MODULE CrmDigestProofs --------------------------
(***************************************************************************)
(* The digest for any number of events, digests and claims: the cursors    *)
(* are always complete, what may still reach the owner is written down,    *)
(* and the whole implements DigestFeed.                                    *)
(***************************************************************************)
EXTENDS CrmDigest, FiniteSetTheorems, SequenceTheorems, TLAPS

\* What is proved of the bridge for any clients.
Sends == INSTANCE OwnerBridgeProofs WITH Keys <- Digests, Tokens <- Claims

Cuts == DOMAIN feed.cut
TextParts == Parts \ {"notification_message_id"}
Announced == {"sending", "sent_unverified", "delivered_unacked"}

\* All parts of digest d, its message apart.
Whole(c, d) == \A name \in TextParts : c[name] = d
Delivery == cursors["delivery_state"]
Pending == cursors["pending_digest_id"]
DigestOf(w) == workers[w].seen["pending_digest_id"]

(* The invariant, in parts. *)

Values == 0..MaxDigests \cup States
Seen == [Parts -> Values] \cup [ToSet(Names) -> Values]
OneOf == ToSet(Names) \X Values
Writes == Seq(OneOf)
IsWorker(x) ==
    /\ x \in [step : Steps, todo : Writes, seen : Seen, acked : Nat, resuming : BOOLEAN]
    /\ x.acked <= feed.acked

FeedTypes ==
    [high : Nat, acked : Nat, cut : Seq([from : Nat, through : Nat]), acks : SUBSET Digests,
     recuts : BOOLEAN]

TypesOK ==
    /\ feed \in FeedTypes
    /\ cursors \in [ToSet(Names) -> Values]
    /\ Delivery \in States /\ \A name \in Parts : cursors[name] \in 0..MaxDigests
    /\ lease \in 0..MaxClaims
    /\ workers = [w \in Claims |-> workers[w]]
    /\ \A w \in Claims : IsWorker(workers[w])

\* Stretches of events that were published; what was acknowledged was told.
FeedOK ==
    /\ feed.acked <= feed.high /\ feed.high <= MaxEvents
    /\ Len(feed.cut) <= MaxDigests
    /\ \A d \in Cuts : /\ 1 <= feed.cut[d].from /\ feed.cut[d].from <= feed.cut[d].through
                       /\ feed.cut[d].through <= feed.high
    /\ \A d \in feed.acks : d \in Cuts /\ chat[d] = 1

\* Nothing of this digest ever got past the bridge.
Clean(d) == \A q \in requests : q.key = d => q.stage = "stale"
BridgeOK ==
    /\ \A q \in requests : q.key \in Cuts
    /\ \A d \in Digests : Clean(d) => chat[d] = 0

\* No message of this digest is out or can get out, unless it is announced.
Idle(d) == Clean(d) /\ \A w \in Claims : ~(At(w, "apply") /\ DigestOf(w) = d)

\* The digest that may be on its way to the owner.
Open(d) == IF feed.recuts THEN Delivery \in Announced /\ Pending = d ELSE d = Len(feed.cut)
Done(d) == feed.cut[d].through <= feed.acked /\ chat[d] = 1
Placed == \A d \in Cuts : Open(d) \/ Done(d) \/ (feed.recuts /\ Idle(d))
OpenNext ==
    \A d \in Cuts : Open(d) =>
        \/ feed.cut[d].from = feed.acked + 1
        \/ feed.cut[d].through = feed.acked /\ chat[d] = 1

\* Events are told in order, each by one digest.
Covers(d, n) == chat[d] = 1 /\ feed.cut[d].from <= n /\ n <= feed.cut[d].through
Reached(n) ==
    n <= feed.acked \/ \E d \in Cuts : Open(d) /\ chat[d] = 1 /\ n <= feed.cut[d].through
ToldInOrder ==
    \A n \in 1..MaxEvents :
        /\ \A d, e \in Cuts : Covers(d, n) /\ Covers(e, n) => d = e
        /\ Reached(n) <=> \E d \in Cuts : Covers(d, n)

\* Where the feed cuts anew, a digest has one author, who alone asks for it.
Author(w, d) == workers[w].step \in {"announce", "apply", "applying"} /\ DigestOf(w) = d
OneAuthor ==
    feed.recuts =>
        /\ \A d \in Cuts, v, w \in Claims : Author(v, d) /\ Author(w, d) => v = w
        /\ \A q \in requests, w \in Claims : Author(w, q.key) => w = q.token
        /\ \A p, q \in requests : p.key = q.key => p.token = q.token

\* Writes still to be made: those of p from the i-th on.
Rest(p, i) == [k \in 1..(Len(p) + 1 - i) |-> p[k + i - 1]]

\* What the cursors show the holder of the lease while it clears them or writes a digest.
Next1(d) == feed.recuts => feed.cut[d].from = feed.acked + 1
ClearedTo(i) ==
    /\ i > 1 => Delivery = "none"
    /\ i = 1 /\ Delivery \in Announced => Done(Pending)
PreparedTo(d, i) ==
    /\ \A k \in 1..(i - 1) : cursors[Prepare(d)[k][1]] = Prepare(d)[k][2]
    /\ i <= Len(Prepare(d)) => Delivery = "none"
    /\ Next1(d)

\* A worker, whether it still has the lease or not, and what the cursors show if it has.
Knows(w) == Whole(workers[w].seen, DigestOf(w)) /\ DigestOf(w) \in Cuts
Shows(w) == Whole(cursors, DigestOf(w))
Confirmed(w) == workers[w].seen["notification_message_id"] = DigestOf(w) /\ chat[DigestOf(w)] = 1
Recorded(w) ==
    Shows(w) /\ cursors["notification_message_id"] = DigestOf(w) /\ Delivery \in Announced

IdleOK(w) == workers[w].todo = <<>>
LookupOK(w) == workers[w].todo = <<>> /\ Knows(w) /\ (lease = w => Shows(w) /\ Delivery = "sending")
ClearOK(w, n) ==
    \E i \in 1..n : workers[w].todo = Rest(Clear, i) /\ (lease = w => ClearedTo(i))
AnnounceOK(w) ==
    /\ Knows(w)
    /\ \E i \in 1..8 : /\ workers[w].todo = Rest(Prepare(DigestOf(w)), i)
                       /\ lease = w => PreparedTo(DigestOf(w), i)
ApplyOK(w) ==
    /\ Knows(w)
    /\ \/ /\ workers[w].todo = State("sending")
          /\ lease = w => Shows(w) /\ Delivery = "prepared" /\ Next1(DigestOf(w))
       \/ workers[w].todo = <<>> /\ (lease = w => Shows(w) /\ Delivery = "sending")
ApplyingOK(w) ==
    workers[w].todo = <<>> /\ Knows(w) /\ (lease = w => Shows(w) /\ Delivery = "sending")
ReadbackOK(w) ==
    /\ Knows(w) /\ Confirmed(w)
    /\ \E i \in 1..3 : /\ workers[w].todo = Rest(MessageKnown(DigestOf(w)), i)
                       /\ lease = w /\ i = 1 => Shows(w) /\ Delivery = "sending"
                       /\ lease = w /\ i > 1 => Recorded(w)
AckOK(w) ==
    /\ Knows(w) /\ Confirmed(w) /\ (lease = w => Recorded(w))
    /\ workers[w].todo \in {State("delivered_unacked"), <<>>}
AckingOK(w) == Knows(w) /\ Confirmed(w) /\ (lease = w => Recorded(w)) /\ workers[w].todo = <<>>
TakenBackOK(w) ==
    /\ workers[w].todo = State("prepared")
    /\ lease = w => /\ Delivery = "sending" /\ Whole(cursors, Pending)
                    /\ feed.recuts => Idle(Pending)

WorkerOK(w) ==
    /\ workers[w].step \in {"new", "register", "resume"} => IdleOK(w)
    /\ workers[w].step = "lookup" => LookupOK(w)
    /\ workers[w].step = "read" => ClearOK(w, 8)
    /\ workers[w].step = "announce" => AnnounceOK(w)
    /\ workers[w].step = "apply" => ApplyOK(w)
    /\ workers[w].step = "applying" => ApplyingOK(w)
    /\ workers[w].step = "readback" => ReadbackOK(w)
    /\ workers[w].step = "ack" => AckOK(w)
    /\ workers[w].step = "acking" => AckingOK(w)
    /\ workers[w].step = "done" => IdleOK(w) \/ ClearOK(w, 7) \/ TakenBackOK(w)
WorkersOK == \A w \in Claims : WorkerOK(w)

DigestInv ==
    /\ TypesOK /\ FeedOK /\ BridgeOK /\ PendingIsComplete /\ WorkersOK
    /\ Placed /\ OpenNext /\ ToldInOrder /\ OneAuthor

-----------------------------------------------------------------------------
(* Names, and lists of writes *)

\* The cursors: the state and the parts of a digest.
LEMMA NamesAre ==
    /\ ToSet(Names) = Parts \cup {"delivery_state"} /\ "delivery_state" \notin Parts
    /\ Parts = {"pending_ack", "pending_digest_id", "pending_content_hash",
                "pending_through_sequence", "notification_message_id", "notification_text_hash"}
    /\ TextParts = {"pending_ack", "pending_digest_id", "pending_content_hash",
                    "pending_through_sequence", "notification_text_hash"}
BY DEF Names, Parts, TextParts, ToSet

\* The bounds are numbers.
LEMMA ClaimsAre == MaxEvents \in Nat /\ MaxDigests \in Nat \ {0} /\ MaxClaims \in Nat \ {0}
BY DigestConstants

\* A function over 1..n is a sequence of length n.
LEMMA IsSeq ==
    ASSUME NEW S, NEW n \in Nat, NEW s \in [1..n -> S]
    PROVE  s \in Seq(S) /\ Len(s) = n
<1>1. Seq(S) = UNION {[1..m -> S] : m \in Nat}
  BY SeqDef, Zenon
<1>2. s \in Seq(S)
  BY <1>1, Zenon
<1>3. Len(s) = n
  <2>1. DOMAIN s = 1..Len(s) /\ Len(s) \in Nat
    BY <1>2, LenProperties
  <2> QED
    BY <2>1
<1> QED
  BY <1>2, <1>3

\* A list of n writes.
List(p, n) == p \in [1..n -> OneOf]

\* Making the first write of a list leaves the list from the next one on.
LEMMA RestOf ==
    ASSUME NEW n \in Nat, NEW e, e = n + 1, NEW p, List(p, n), NEW i \in 1..e
    PROVE  /\ Rest(p, 1) = p
           /\ i = e => Rest(p, i) = <<>>
           /\ i # e => Rest(p, i) # <<>>
           /\ i # e => Head(Rest(p, i)) = p[i]
           /\ i # e => Tail(Rest(p, i)) = Rest(p, i + 1)
<1> USE DEF List
<1> DEFINE S == {p[k] : k \in 1..n}
           m == n + 1 - i
<1>0. Len(p) = n
  BY IsSeq
<1>1. Rest(p, 1) = p
  <2>1. Rest(p, 1) = [k \in 1..n |-> p[k + 1 - 1]]
    BY <1>0 DEF Rest
  <2>2. \A k \in 1..n : p[k + 1 - 1] = p[k]
    OBVIOUS
  <2> QED
    BY <2>1, <2>2
<1>2. m \in Nat /\ Rest(p, i) \in [1..m -> S]
  BY <1>0 DEF Rest
<1> HIDE DEF S, m
<1>3. Rest(p, i) \in Seq(S)
  BY <1>2, IsSeq
<1>4. Len(Rest(p, i)) = m
  BY <1>2, IsSeq
<1> USE DEF S, m
<1>5. Rest(p, i) = <<>> <=> i = e
  BY <1>3, <1>4, LenProperties, EmptySeq
<1>6. ASSUME i # e PROVE Head(Rest(p, i)) = p[i] /\ Tail(Rest(p, i)) = Rest(p, i + 1)
  <2>1. m - 1 \in Nat /\ Rest(p, i) # <<>>
    BY <1>5, <1>6
  <2>2. Head(Rest(p, i)) = Rest(p, i)[1]
    BY <1>3, <2>1
  <2>3. Rest(p, i)[1] = p[i]
    BY <1>0, <1>6 DEF Rest
  <2>4. /\ Tail(Rest(p, i)) \in Seq(S) /\ Len(Tail(Rest(p, i))) = m - 1
        /\ \A k \in 1..(m - 1) : Tail(Rest(p, i))[k] = Rest(p, i)[k + 1]
    BY <1>3, <1>4, <2>1, HeadTailProperties
  <2>5. Rest(p, i + 1) = [k \in 1..(m - 1) |-> p[k + i]]
    BY <1>0, <1>6 DEF Rest
  <2>6. \A k \in 1..(m - 1) : p[k + i] \in S /\ Rest(p, i)[k + 1] = p[k + i]
    BY <1>0, <1>6 DEF Rest
  <2>7. Rest(p, i + 1) \in [1..(m - 1) -> S]
    BY <2>5, <2>6
  <2>8. Rest(p, i + 1) \in Seq(S) /\ Len(Rest(p, i + 1)) = m - 1
    <3> PICK n1 : n1 = m - 1
      OBVIOUS
    <3> PICK r : r = Rest(p, i + 1)
      OBVIOUS
    <3>1. n1 \in Nat
      BY <2>1
    <3>2. r \in [1..n1 -> S]
      BY <2>7
    <3> HIDE DEF S
    <3>3. r \in Seq(S) /\ Len(r) = n1
      BY <3>1, <3>2, IsSeq
    <3> QED
      BY <3>3
  <2>9. \A k \in 1..(m - 1) : Tail(Rest(p, i))[k] = Rest(p, i + 1)[k]
    BY <2>4, <2>5, <2>6
  <2>10. Tail(Rest(p, i)) = Rest(p, i + 1)
    BY <2>4, <2>8, <2>9, SeqEqual
  <2> QED
    BY <2>2, <2>3, <2>10
<1> QED
  BY <1>1, <1>5, <1>6

\* The first of the writes that remain is the i-th; the others remain after it.
LEMMA RestSteps ==
    ASSUME NEW n \in Nat, NEW p, List(p, n), NEW i \in 1..n
    PROVE  /\ Head(Rest(p, i)) = p[i]
           /\ Tail(Rest(p, i)) = Rest(p, i + 1)
           /\ Rest(p, i) # <<>>
<1> PICK e : e = n + 1
  OBVIOUS
<1>1. i \in 1..e /\ i # e
  OBVIOUS
<1>2. Head(Rest(p, i)) = p[i]
  BY <1>1, RestOf
<1>3. Tail(Rest(p, i)) = Rest(p, i + 1)
  BY <1>1, RestOf
<1>4. Rest(p, i) # <<>>
  BY <1>1, RestOf
<1> QED
  BY <1>2, <1>3, <1>4

\* All writes remain at first, none in the end.
LEMMA RestEnds ==
    ASSUME NEW n \in Nat, NEW e, e = n + 1, NEW p, List(p, n)
    PROVE  Rest(p, 1) = p /\ Rest(p, e) = <<>>
<1>1. e \in 1..e
  OBVIOUS
<1> QED
  BY <1>1, RestOf

\* Clearing ends the state first.
LEMMA ClearIs ==
    /\ Len(Clear) = 7 /\ Clear = [k \in 1..7 |-> Clear[k]]
    /\ Clear[1] = <<"delivery_state", "none">>
    /\ \A k \in 2..7 : \E name \in Parts : Clear[k] = <<name, 0>>
<1>1. Len(Names) = 7
  BY DEF Names
<1>2. Clear = [k \in 1..7 |-> <<Names[k], NoCursors[Names[k]]>>]
  BY <1>1 DEF Clear
<1>3. Names[1] = "delivery_state" /\ \A k \in 2..7 : Names[k] \in Parts
  BY NamesAre DEF Names
<1>4. NoCursors["delivery_state"] = "none" /\ \A name \in Parts : NoCursors[name] = 0
  BY NamesAre DEF NoCursors
<1> QED
  BY <1>2, <1>3, <1>4

\* A digest is written part by part, its state last.
LEMMA PrepareIs ==
    ASSUME NEW d
    PROVE  /\ Len(Prepare(d)) = 7 /\ Prepare(d) = [k \in 1..7 |-> Prepare(d)[k]]
           /\ Prepare(d)[7] = <<"delivery_state", "prepared">>
           /\ Prepare(d)[6] = <<"notification_message_id", 0>>
           /\ \A k \in 1..5 : Prepare(d)[k][1] \in TextParts /\ Prepare(d)[k] = <<Prepare(d)[k][1], d>>
           /\ \A name \in TextParts : \E k \in 1..5 : Prepare(d)[k][1] = name
           /\ \A j, k \in 1..7 : Prepare(d)[j][1] = Prepare(d)[k][1] => j = k
<1>1. /\ Prepare(d)[1] = <<"pending_ack", d>> /\ Prepare(d)[2] = <<"pending_digest_id", d>>
      /\ Prepare(d)[3] = <<"pending_content_hash", d>>
      /\ Prepare(d)[4] = <<"pending_through_sequence", d>>
      /\ Prepare(d)[5] = <<"notification_text_hash", d>>
      /\ Prepare(d)[6] = <<"notification_message_id", 0>>
      /\ Prepare(d)[7] = <<"delivery_state", "prepared">>
  BY DEF Prepare
<1>2. Len(Prepare(d)) = 7 /\ Prepare(d) = [k \in 1..7 |-> Prepare(d)[k]]
  BY DEF Prepare
<1>3. \A k \in 1..7 : k = 1 \/ k = 2 \/ k = 3 \/ k = 4 \/ k = 5 \/ k = 6 \/ k = 7
  OBVIOUS
<1>4. \A k \in 1..5 : Prepare(d)[k][1] \in TextParts /\ Prepare(d)[k] = <<Prepare(d)[k][1], d>>
  BY <1>1, <1>3, NamesAre
<1>5. \A name \in TextParts : \E k \in 1..5 : Prepare(d)[k][1] = name
  BY <1>1, NamesAre
<1>6. \A j, k \in 1..7 : Prepare(d)[j][1] = Prepare(d)[k][1] => j = k
  BY <1>1, <1>3
<1> QED
  BY <1>1, <1>2, <1>4, <1>5, <1>6

\* A list of one write.
LEMMA OneWrite ==
    ASSUME NEW s
    PROVE  /\ State(s) # <<>> /\ Head(State(s)) = <<"delivery_state", s>>
           /\ Tail(State(s)) = <<>>
BY DEF State

\* A message is written before the state that says so.
LEMMA MessageIs ==
    ASSUME NEW d
    PROVE  /\ Len(MessageKnown(d)) = 2 /\ MessageKnown(d) = [k \in 1..2 |-> MessageKnown(d)[k]]
           /\ MessageKnown(d)[1] = <<"notification_message_id", d>>
           /\ MessageKnown(d)[2] = <<"delivery_state", "sent_unverified">>
BY DEF MessageKnown

\* Lists of writes, and where they end.
LEMMA WritesAre ==
    /\ <<>> \in Writes /\ List(Clear, 7) /\ Clear \in Writes
    /\ \A d \in 0..MaxDigests :
          /\ List(Prepare(d), 7) /\ List(MessageKnown(d), 2)
          /\ Prepare(d) \in Writes /\ MessageKnown(d) \in Writes
    /\ \A s \in States : State(s) \in Writes
<1> USE DEF List
<1>1. \A p \in Parts, d \in 0..MaxDigests : <<p, d>> \in OneOf
  BY NamesAre DEF Values, OneOf
<1>2. \A s \in States : <<"delivery_state", s>> \in OneOf
  BY NamesAre DEF Values, OneOf
<1>3. 0 \in 0..MaxDigests /\ "none" \in States /\ "prepared" \in States
      /\ "sent_unverified" \in States
  BY ClaimsAre DEF States
<1>4. Clear \in [1..7 -> OneOf]
  <2>1. \A k \in 1..7 : Clear[k] \in OneOf
    <3>1. \A k \in 1..7 : k = 1 \/ k \in 2..7
      OBVIOUS
    <3> QED
      BY <1>1, <1>2, <1>3, <3>1, ClearIs
  <2> QED
    BY <2>1, ClearIs
<1>5. ASSUME NEW d \in 0..MaxDigests
      PROVE  Prepare(d) \in [1..7 -> OneOf] /\ MessageKnown(d) \in [1..2 -> OneOf]
  <2>1. \A k \in 1..7 : k \in 1..5 \/ k = 6 \/ k = 7
    OBVIOUS
  <2>2. \A k \in 1..7 : Prepare(d)[k] \in OneOf
    <3>1. ASSUME NEW k \in 1..5 PROVE Prepare(d)[k] \in OneOf
      <4>1. PICK name \in TextParts : Prepare(d)[k] = <<name, d>>
        BY PrepareIs
      <4>2. name \in Parts
        BY DEF TextParts
      <4> QED
        BY <1>1, <4>1, <4>2
    <3>2. Prepare(d)[6] \in OneOf
      <4>1. Prepare(d)[6] = <<"notification_message_id", 0>>
        BY PrepareIs
      <4>2. "notification_message_id" \in Parts
        BY NamesAre
      <4> QED
        BY <1>1, <1>3, <4>1, <4>2
    <3>3. Prepare(d)[7] \in OneOf
      <4>1. Prepare(d)[7] = <<"delivery_state", "prepared">>
        BY PrepareIs
      <4> QED
        BY <1>2, <1>3, <4>1
    <3> QED
      BY <2>1, <3>1, <3>2, <3>3
  <2>3. Prepare(d) \in [1..7 -> OneOf]
    BY <2>2, PrepareIs
  <2>4. \A k \in 1..2 : k = 1 \/ k = 2
    OBVIOUS
  <2>5. \A k \in 1..2 : MessageKnown(d)[k] \in OneOf
    BY <1>1, <1>2, <1>3, <2>4, MessageIs, NamesAre
  <2>6. MessageKnown(d) \in [1..2 -> OneOf]
    BY <2>5, MessageIs
  <2> QED
    BY <2>3, <2>6
<1>6. ASSUME NEW s \in States PROVE State(s) \in Writes
  <2>1. State(s) \in [1..1 -> OneOf]
    BY <1>2 DEF State
  <2> QED
    BY <2>1, IsSeq DEF Writes
<1>7. <<>> \in Writes
  BY EmptySeq DEF Writes
<1> QED
  BY <1>4, <1>5, <1>6, <1>7, IsSeq DEF Writes

\* The same for the lists of the executor.
LEMMA SevenWrites ==
    ASSUME NEW p, List(p, 7)
    PROVE  /\ Rest(p, 1) = p
           /\ Rest(p, 8) = <<>>
           /\ \A i \in 1..7 : Rest(p, i) # <<>> /\ Head(Rest(p, i)) = p[i]
                               /\ Tail(Rest(p, i)) = Rest(p, i + 1)
<1>1. Rest(p, 1) = p /\ Rest(p, 8) = <<>>
  BY RestEnds
<1>2. \A i \in 1..7 : Rest(p, i) # <<>> /\ Head(Rest(p, i)) = p[i] /\ Tail(Rest(p, i)) = Rest(p, i + 1)
  BY RestSteps
<1> QED
  BY <1>1, <1>2, Zenon

\* A list of two writes, from one to the next.
LEMMA TwoWrites ==
    ASSUME NEW p, List(p, 2)
    PROVE  /\ Rest(p, 1) = p
           /\ Rest(p, 3) = <<>>
           /\ \A i \in 1..2 : Rest(p, i) # <<>> /\ Head(Rest(p, i)) = p[i]
                               /\ Tail(Rest(p, i)) = Rest(p, i + 1)
<1>1. Rest(p, 1) = p /\ Rest(p, 3) = <<>>
  BY RestEnds
<1>2. \A i \in 1..2 : Rest(p, i) # <<>> /\ Head(Rest(p, i)) = p[i] /\ Tail(Rest(p, i)) = Rest(p, i + 1)
  BY RestSteps
<1> QED
  BY <1>1, <1>2, Zenon

\* The lists of the executor are over after their last write.
LEMMA RestIsOver ==
    /\ Rest(Clear, 1) = Clear /\ Rest(Clear, 8) = <<>> /\ Clear # <<>>
    /\ \A i \in 1..7 : Rest(Clear, i) # <<>>
    /\ \A d \in 0..MaxDigests :
          /\ Rest(Prepare(d), 1) = Prepare(d)
          /\ \A i \in 1..7 : Rest(Prepare(d), i) # <<>>
          /\ Rest(MessageKnown(d), 1) = MessageKnown(d) /\ Rest(MessageKnown(d), 3) = <<>>
          /\ \A i \in 1..2 : Rest(MessageKnown(d), i) # <<>>
BY WritesAre, SevenWrites, TwoWrites

-----------------------------------------------------------------------------
(* The bridge *)

BridgeKnown ==
    /\ requests \subseteq [key : Digests, token : Claims, stage : Bridge!Stages]
    /\ chat \in [Digests -> Nat] /\ \A d \in Digests : chat[d] <= 1
    /\ \A p, q \in requests : p.key = q.key /\ p.token = q.token => p = q
    /\ \A d \in Digests : /\ ledger[d] = "none" => chat[d] = 0
                          /\ ledger[d] \in {"known", "verified"} => chat[d] = 1
    /\ \A q \in requests : q.stage = "ok" => chat[q.key] = 1

\* What is used of the bridge follows from its own invariant.
LEMMA SendsKnown == Sends!SendInv => BridgeKnown
BY DEF Sends!SendInv, BridgeKnown, Sends!BridgeTypeOK, Sends!SentOncePerKey, Sends!Identity,
   Sends!NoEntry, Sends!KnownEntry, Sends!Answered, Bridge!Stages, Sends!Stages,
   Sends!LedgerStates

\* What a step of the bridge may do.
BridgeMoves ==
    /\ \A d \in Digests : Clean(d) => Clean(d)'
    /\ \A r \in requests' : \E q \in requests : r.key = q.key /\ r.token = q.token
    /\ \A d \in Digests : chat[d] = 1 => chat'[d] = 1
    /\ \/ chat' = chat
       \/ \E e \in Digests : /\ ~Clean(e) /\ chat[e] = 0 /\ chat'[e] = 1
                             /\ \A d \in Digests \ {e} : chat'[d] = chat[d]

\* A step of the bridge is a move of one request, and at most one message.
LEMMA BridgeStep ==
    ASSUME BridgeKnown, BridgeKnown', BridgeOK, feed' = feed,
           NEW q \in requests, Bridge!Step(q)
    PROVE  BridgeOK' /\ BridgeMoves
<1>1. PICK s \in Bridge!Stages :
         /\ Bridge!Advance(q, s) /\ q.stage # "stale"
         /\ s = "stale" => ledger[q.key] = "none" /\ chat' = chat
         /\ chat' = chat \/ (chat' = [chat EXCEPT ![q.key] = @ + 1] /\ s # "stale")
  BY DEF Bridge!Step, Bridge!Intent, Bridge!Stale, Bridge!Replay, Bridge!Send, Bridge!Record,
     Bridge!Verify, Bridge!Drop, Bridge!Arrive, Bridge!InLane, Bridge!Stages
<1>2. PICK r : r = [q EXCEPT !.stage = s]
  OBVIOUS
<1>3. /\ q.key \in Digests /\ r.key = q.key /\ r.token = q.token /\ r.stage = s
      /\ requests' = (requests \ {q}) \cup {r}
  BY <1>1, <1>2 DEF BridgeKnown, Bridge!Advance
<1>4. \A d \in Digests : Clean(d) => Clean(d)'
  BY <1>1, <1>3 DEF Clean
<1>5. \A p \in requests' : \E x \in requests : p.key = x.key /\ p.token = x.token
  BY <1>3
<1>6. \/ chat' = chat
      \/ /\ chat[q.key] = 0 /\ chat'[q.key] = 1 /\ s # "stale"
         /\ \A d \in Digests \ {q.key} : chat'[d] = chat[d]
  <2>1. CASE chat' = [chat EXCEPT ![q.key] = @ + 1] /\ s # "stale"
    <3>1. chat'[q.key] = chat[q.key] + 1 /\ chat'[q.key] <= 1 /\ chat[q.key] \in Nat
      BY <1>3, <2>1 DEF BridgeKnown
    <3>2. \A d \in Digests \ {q.key} : chat'[d] = chat[d]
      BY <2>1 DEF BridgeKnown
    <3> QED
      BY <2>1, <3>1, <3>2
  <2> QED
    BY <1>1, <2>1
<1>7. ~Clean(q.key)
  BY <1>1 DEF Clean
<1>8. BridgeMoves
  BY <1>3, <1>4, <1>5, <1>6, <1>7 DEF BridgeMoves
<1>9. ASSUME NEW d \in Digests, Clean(d)' PROVE chat'[d] = 0
  <2>1. CASE d = q.key
    BY <1>1, <1>3, <1>9, <2>1 DEF Clean, BridgeKnown
  <2>2. CASE d # q.key
    <3>1. Clean(d)
      BY <1>3, <1>9, <2>2 DEF Clean
    <3> QED
      BY <1>6, <2>2, <3>1 DEF BridgeOK
  <2> QED
    BY <2>1, <2>2
<1>10. \A p \in requests' : p.key \in Cuts'
  BY <1>5 DEF BridgeOK, Cuts
<1> QED
  BY <1>8, <1>9, <1>10 DEF BridgeOK

-----------------------------------------------------------------------------
(* What stays as it is for a worker that does not move *)

\* The feed never takes back a digest or an acknowledgement.
FeedGrows ==
    /\ feed'.recuts = feed.recuts /\ feed.acked <= feed'.acked
    /\ \A d \in Cuts : d \in Cuts' /\ feed'.cut[d] = feed.cut[d]
ChatGrows == \A d \in Digests : chat[d] = 1 => chat'[d] = 1
IdleKept == \A d \in Cuts : Idle(d) => Idle(d)'

\* What the holder of the lease relies on.
Undisturbed ==
    /\ cursors' = cursors /\ IdleKept
    /\ feed'.acked = feed.acked \/ ~feed.recuts \/ Delivery \in Announced

\* Digests are numbered from 1, their stretches are stretches of published events.
LEMMA CutsAre ==
    ASSUME TypesOK, FeedOK
    PROVE  /\ feed.cut \in Seq([from : Nat, through : Nat]) /\ Len(feed.cut) \in Nat
           /\ Cuts = 1..Len(feed.cut) /\ Cuts \subseteq Digests
           /\ feed.acked \in Nat /\ feed.high \in Nat /\ feed.recuts \in BOOLEAN
           /\ \A d \in Cuts : /\ feed.cut[d].from \in Nat /\ feed.cut[d].through \in Nat
                              /\ feed.cut[d].from <= feed.cut[d].through
                              /\ feed.cut[d].through <= feed.high /\ 1 <= feed.cut[d].from
           /\ \A d \in Cuts : Through(d) = feed.cut[d].through
<1>1. /\ feed.cut \in Seq([from : Nat, through : Nat]) /\ feed.acked \in Nat
      /\ feed.high \in Nat /\ feed.recuts \in BOOLEAN
  BY DEF TypesOK, FeedTypes
<1>2. Len(feed.cut) \in Nat /\ Cuts = 1..Len(feed.cut)
  BY <1>1, LenProperties DEF Cuts
<1>3. \A d \in Cuts : feed.cut[d] \in [from : Nat, through : Nat]
  BY <1>1, <1>2, ElementOfSeq
<1>4. Cuts \subseteq Digests
  BY <1>2, ClaimsAre DEF FeedOK, Digests
<1>5. \A d \in Cuts : Through(d) = feed.cut[d].through
  BY <1>2 DEF Through
<1> QED
  BY <1>1, <1>2, <1>3, <1>4, <1>5 DEF FeedOK

\* The pending digest is one of the feed.
LEMMA PendingIsCut ==
    ASSUME PendingIsComplete, Delivery # "none"
    PROVE  Pending \in Cuts /\ Whole(cursors, Pending)
BY NamesAre DEF PendingIsComplete, Delivery, Pending, Cuts, Whole, TextParts

\* A worker that does not move keeps its place.
LEMMA WorkerKeeps ==
    ASSUME TypesOK, FeedOK, PendingIsComplete, NEW w \in Claims, WorkerOK(w),
           workers'[w] = workers[w],
           TypesOK', FeedOK', FeedGrows, ChatGrows, lease' = w => lease = w /\ Undisturbed
    PROVE  WorkerOK(w)'
<1> DEFINE d == DigestOf(w)
<1>1. DigestOf(w)' = d
  BY DEF DigestOf
<1>2. Knows(w) => Knows(w)' /\ d \in Digests
  BY CutsAre DEF Knows, Whole, DigestOf, FeedGrows
<1>3. Knows(w) /\ Confirmed(w) => Confirmed(w)'
  BY <1>2 DEF Confirmed, ChatGrows, DigestOf
<1>4. lease' = w /\ Shows(w) => Shows(w)'
  BY DEF Shows, Whole, DigestOf, Undisturbed
<1>5. lease' = w => Delivery' = Delivery
  BY DEF Delivery, Undisturbed
<1>6. lease' = w /\ Recorded(w) => Recorded(w)'
  BY <1>4, <1>5 DEF Recorded, DigestOf, Undisturbed
<1>7. lease' = w /\ Delivery \notin Announced /\ d \in Cuts /\ Next1(d) => Next1(DigestOf(w))'
  BY <1>1 DEF Next1, Undisturbed, FeedGrows
<1>8. lease' = w => Pending' = Pending
  BY DEF Pending, Undisturbed
<1>9. ASSUME lease' = w, Delivery \in Announced, Done(Pending) PROVE Done(Pending)'
  <2>1. Pending \in Cuts /\ Pending \in Digests
    BY <1>9, PendingIsCut, CutsAre DEF Announced
  <2>2. /\ feed.cut[Pending].through \in Nat /\ feed.acked \in Nat /\ feed'.acked \in Nat
    BY <2>1, CutsAre DEF TypesOK, FeedTypes
  <2> QED
    BY <1>8, <1>9, <2>1, <2>2 DEF Done, FeedGrows, ChatGrows
<1>10. ASSUME NEW i \in 1..8, lease' = w, ClearedTo(i) PROVE ClearedTo(i)'
  BY <1>5, <1>9, <1>10 DEF ClearedTo
<1>11. IdleOK(w) => IdleOK(w)'
  BY DEF IdleOK
<1>12. LookupOK(w) => LookupOK(w)'
  BY <1>2, <1>4, <1>5 DEF LookupOK
<1>13. ASSUME NEW n \in 1..8, ClearOK(w, n) PROVE ClearOK(w, n)'
  BY <1>10, <1>13 DEF ClearOK
<1>14. ASSUME AnnounceOK(w) PROVE AnnounceOK(w)'
  <2> PICK i \in 1..8 : /\ workers[w].todo = Rest(Prepare(d), i)
                        /\ lease = w => PreparedTo(d, i)
    BY <1>14 DEF AnnounceOK
  <2>1. ASSUME lease' = w PROVE PreparedTo(DigestOf(w), i)'
    <3>1. PreparedTo(d, i) /\ cursors' = cursors
      BY <2>1 DEF Undisturbed
    <3>2. Delivery \notin Announced
      <4>1. CASE i <= 7
        BY <3>1, <4>1, PrepareIs DEF PreparedTo, Announced
      <4>2. CASE i = 8
        <5>1. cursors[Prepare(d)[7][1]] = Prepare(d)[7][2]
          BY <3>1, <4>2 DEF PreparedTo
        <5> QED
          BY <5>1, PrepareIs DEF Delivery, Announced
      <4> QED
        BY <4>1, <4>2
    <3>3. Next1(DigestOf(w))'
      BY <1>7, <1>14, <2>1, <3>1, <3>2 DEF AnnounceOK, Knows, PreparedTo
    <3> QED
      BY <1>1, <1>5, <2>1, <3>1, <3>3 DEF PreparedTo
  <2> QED
    BY <1>1, <1>2, <1>14, <2>1 DEF AnnounceOK
<1>15. ASSUME ApplyOK(w) PROVE ApplyOK(w)'
  <2>1. Knows(w)' /\ d \in Cuts
    BY <1>2, <1>15 DEF ApplyOK, Knows
  <2>2. CASE /\ workers[w].todo = State("sending")
             /\ lease = w => Shows(w) /\ Delivery = "prepared" /\ Next1(d)
    BY <1>4, <1>5, <1>7, <2>1, <2>2 DEF ApplyOK, Announced
  <2>3. CASE workers[w].todo = <<>> /\ (lease = w => Shows(w) /\ Delivery = "sending")
    BY <1>4, <1>5, <2>1, <2>3 DEF ApplyOK
  <2> QED
    BY <1>15, <2>2, <2>3 DEF ApplyOK
<1>16. ApplyingOK(w) => ApplyingOK(w)'
  BY <1>2, <1>4, <1>5 DEF ApplyingOK
<1>17. ASSUME ReadbackOK(w) PROVE ReadbackOK(w)'
  <2> PICK i \in 1..3 : /\ workers[w].todo = Rest(MessageKnown(d), i)
                        /\ lease = w /\ i = 1 => Shows(w) /\ Delivery = "sending"
                        /\ lease = w /\ i > 1 => Recorded(w)
    BY <1>17 DEF ReadbackOK
  <2> QED
    BY <1>1, <1>2, <1>3, <1>4, <1>5, <1>6, <1>17 DEF ReadbackOK
<1>18. AckOK(w) => AckOK(w)'
  BY <1>2, <1>3, <1>6 DEF AckOK
<1>19. AckingOK(w) => AckingOK(w)'
  BY <1>2, <1>3, <1>6 DEF AckingOK
<1>20. ASSUME TakenBackOK(w) PROVE TakenBackOK(w)'
  <2>1. ASSUME lease' = w PROVE Delivery = "sending" /\ Whole(cursors, Pending) /\ Pending \in Cuts
    BY <1>20, <2>1, PendingIsCut DEF TakenBackOK
  <2>2. lease' = w => Whole(cursors, Pending)'
    BY <1>8, <2>1 DEF Whole, Undisturbed
  <2>3. ASSUME lease' = w, feed'.recuts PROVE Idle(Pending)'
    <3>1. Idle(Pending) /\ Pending \in Cuts
      BY <1>20, <2>1, <2>3 DEF TakenBackOK, FeedGrows
    <3>2. PICK e \in Cuts : e = Pending
      BY <3>1
    <3>3. Idle(e)'
      BY <2>3, <3>1, <3>2 DEF Undisturbed, IdleKept
    <3> QED
      BY <1>8, <2>3, <3>2, <3>3
  <2> QED
    BY <1>5, <1>20, <2>1, <2>2, <2>3 DEF TakenBackOK
<1> QED
  BY <1>11, <1>12, <1>13, <1>14, <1>15, <1>16, <1>17, <1>18, <1>19, <1>20 DEF WorkerOK

-----------------------------------------------------------------------------
(* The step of one worker *)

\* The owner has learnt of the same events.
SameReach == \A n \in 1..MaxEvents : Reached(n)' <=> Reached(n)

\* What every step does to the feed as DigestFeed sees it.
Rests == feed'.high = feed.high /\ feed'.acked = feed.acked /\ SameReach
Publishes ==
    feed.high < MaxEvents /\ feed'.high = feed.high + 1 /\ feed'.acked = feed.acked /\ SameReach
Acknowledges(t) ==
    /\ feed.acked < t /\ t <= feed.high /\ feed'.high = feed.high /\ feed'.acked = t
    /\ SameReach /\ \A n \in 1..MaxEvents : Reached(n) <=> n <= t
Tells(t) ==
    /\ feed.acked < t /\ t <= feed.high /\ feed'.high = feed.high /\ feed'.acked = feed.acked
    /\ \A n \in 1..MaxEvents : (Reached(n) <=> n <= feed.acked) /\ (Reached(n)' <=> n <= t)
FeedMoves == Rests \/ Publishes \/ \E t \in 1..MaxEvents : Acknowledges(t) \/ Tells(t)

\* A digest is announced while it is the next one and untold, and taken back
\* when it is done or can no longer leave.
OpenMoves ==
    \A d \in Cuts :
        /\ Open(d)' => Open(d) \/ (feed.cut[d].from = feed.acked + 1 /\ chat[d] = 0)
        /\ Open(d) => Open(d)' \/ Done(d) \/ (feed.recuts /\ Idle(d))
        /\ feed.recuts /\ Idle(d) => Idle(d)' \/ Open(d)'

\* While the cursors stay, the announced digest stays.
LEMMA SameCursors ==
    ASSUME cursors' = cursors, feed'.cut = feed.cut, feed'.recuts = feed.recuts, IdleKept
    PROVE  OpenMoves
<1>1. \A d \in Cuts : Open(d)' <=> Open(d)
  BY DEF Open, Delivery, Pending
<1> QED
  BY <1>1 DEF OpenMoves, IdleKept

\* What is left to show of a step of one worker: its record, its cursors, and that nothing is
\* announced or taken back which is not due.
LEMMA OwnStep ==
    ASSUME DigestInv, BridgeKnown, NEW w \in Claims, NEW x, NEW A,
           workers' = [workers EXCEPT ![w] = x], TypesOK', PendingIsComplete', WorkerOK(w)',
           feed' = [feed EXCEPT !.acks = A], \A d \in A : d \in Cuts /\ chat[d] = 1,
           lease' \in {0, w, lease}, lease' \in {0, w} \/ (cursors' = cursors /\ IdleKept),
           chat' = chat, requests \subseteq requests',
           \A r \in requests' \ requests : At(w, "apply") /\ r.key = DigestOf(w) /\ r.token = w,
           feed.recuts => \A d \in Cuts : Author(w, d)' => Author(w, d),
           OpenMoves
    PROVE  DigestInv' /\ Rests
<1>1. /\ feed'.high = feed.high /\ feed'.acked = feed.acked /\ feed'.cut = feed.cut
      /\ feed'.recuts = feed.recuts /\ feed'.acks = A /\ Cuts' = Cuts
  BY DEF DigestInv, TypesOK, FeedTypes, Cuts
<1>2. /\ workers'[w] = x /\ \A v \in Claims \ {w} : workers'[v] = workers[v]
  BY DEF DigestInv, TypesOK
<1>3. /\ Cuts \subseteq Digests /\ feed.acked \in Nat
      /\ \A d \in Cuts : feed.cut[d].from \in Nat /\ feed.cut[d].through \in Nat
      /\ \A d \in Cuts : feed.cut[d].from <= feed.cut[d].through
  BY CutsAre DEF DigestInv
<1>4. FeedOK'
  BY <1>1 DEF DigestInv, FeedOK
<1>5. \A d \in Digests : Clean(d)' => Clean(d)
  BY DEF Clean
<1>6. \A r \in requests' : r \in requests \/ (r.key = DigestOf(w) /\ r.token = w /\ r.key \in Cuts)
  BY DEF DigestInv, WorkersOK, WorkerOK, ApplyOK, Knows, At
<1>7. BridgeOK'
  BY <1>1, <1>5, <1>6 DEF DigestInv, BridgeOK
<1>8. FeedGrows /\ ChatGrows
  BY <1>1, <1>3 DEF FeedGrows, ChatGrows
<1>9. ASSUME NEW v \in Claims, v # w PROVE WorkerOK(v)'
  <2>1. workers'[v] = workers[v] /\ WorkerOK(v)
    BY <1>2, <1>9 DEF DigestInv, WorkersOK
  <2>2. lease' = v => lease = v /\ Undisturbed
    BY <1>1, <1>9, ClaimsAre DEF Undisturbed, Claims
  <2> QED
    BY <1>4, <1>8, <2>1, <2>2, WorkerKeeps DEF DigestInv
<1>10. WorkersOK'
  BY <1>9 DEF WorkersOK
<1>11. \A d \in Cuts : Done(d)' <=> Done(d)
  BY <1>1 DEF Done
<1>12. Placed'
  BY <1>1, <1>11 DEF DigestInv, Placed, OpenMoves
<1>13. OpenNext'
  BY <1>1 DEF DigestInv, OpenNext, OpenMoves
<1>14. \A d \in Cuts, n \in 1..MaxEvents : Covers(d, n)' <=> Covers(d, n)
  BY <1>1 DEF Covers
<1>15. ASSUME NEW n \in 1..MaxEvents PROVE Reached(n)' <=> Reached(n)
  <2>1. ASSUME NEW d \in Cuts, Open(d)', chat[d] = 1 PROVE Open(d)
    BY <2>1 DEF OpenMoves
  <2>2. ASSUME NEW d \in Cuts, Open(d), chat[d] = 1, n <= feed.cut[d].through, n > feed.acked
        PROVE  Open(d)'
    <3>1. ~Done(d)
      BY <1>3, <2>2 DEF Done
    <3>2. ~Idle(d)
      BY <1>3, <2>2 DEF Idle, DigestInv, BridgeOK
    <3> QED
      BY <2>2, <3>1, <3>2 DEF OpenMoves
  <2> QED
    BY <1>1, <1>3, <2>1, <2>2 DEF Reached
<1>16. ToldInOrder'
  BY <1>1, <1>14, <1>15 DEF DigestInv, ToldInOrder
<1>17. ASSUME feed.recuts PROVE OneAuthor'
  <2>1. \A d \in Cuts, v \in Claims : Author(v, d)' => Author(v, d)
    BY <1>2, <1>17 DEF Author, DigestOf
  <2>2. \A r \in requests' \ requests : Author(w, r.key) /\ r.token = w /\ r.key \in Cuts
    BY <1>6 DEF Author, At
  <2>3. /\ \A d \in Cuts, u, v \in Claims : Author(u, d) /\ Author(v, d) => u = v
        /\ \A q \in requests, v \in Claims : Author(v, q.key) => v = q.token
        /\ \A p, q \in requests : p.key = q.key => p.token = q.token
    BY <1>17 DEF DigestInv, OneAuthor
  <2>4. \A d \in Cuts, u, v \in Claims : Author(u, d)' /\ Author(v, d)' => u = v
    BY <2>1, <2>3
  <2>5. ASSUME NEW q \in requests', NEW k, k = q.key, NEW v \in Claims, Author(v, k)'
        PROVE  v = q.token
    <3>1. k \in Cuts
      BY <1>1, <1>7, <2>5 DEF BridgeOK
    <3> QED
      BY <2>1, <2>2, <2>3, <2>5, <3>1
  <2>6. \A p, q \in requests' : p.key = q.key => p.token = q.token
    BY <2>2, <2>3
  <2>7. \A q \in requests', v \in Claims : Author(v, q.key)' => v = q.token
    BY <2>5 DEF Author, DigestOf
  <2> QED
    BY <1>1, <2>4, <2>6, <2>7 DEF OneAuthor
<1>18. OneAuthor'
  BY <1>1, <1>17 DEF OneAuthor
<1>19. Rests
  BY <1>1, <1>15 DEF Rests, SameReach
<1> QED
  BY <1>4, <1>7, <1>10, <1>12, <1>13, <1>16, <1>18, <1>19 DEF DigestInv

\* A step of one worker keeps the types.
LEMMA TypesKept ==
    ASSUME DigestInv, NEW w \in Claims, NEW x, NEW A,
           workers' = [workers EXCEPT ![w] = x], IsWorker(x), cursors' = cursors,
           feed' = [feed EXCEPT !.acks = A], \A d \in A : d \in Cuts,
           lease' \in {0, w, lease}
    PROVE  TypesOK'
<1>1. /\ feed'.high = feed.high /\ feed'.acked = feed.acked /\ feed'.cut = feed.cut
      /\ feed'.recuts = feed.recuts /\ feed'.acks = A
  BY DEF DigestInv, TypesOK, FeedTypes
<1>2. A \subseteq Digests
  BY CutsAre DEF DigestInv
<1>3. feed' \in FeedTypes
  BY <1>2 DEF DigestInv, TypesOK, FeedTypes
<1>4. lease' \in 0..MaxClaims
  BY ClaimsAre DEF DigestInv, TypesOK, Claims
<1>5. \A v \in Claims : workers'[v] = workers[v] \/ workers'[v] = x
  BY DEF DigestInv, TypesOK
<1>6. ASSUME NEW v \in Claims PROVE IsWorker(workers[v])'
  <2> PICK y : y = workers'[v]
    OBVIOUS
  <2>1. IsWorker(y)
    BY <1>5 DEF DigestInv, TypesOK
  <2> QED
    BY <1>1, <2>1 DEF IsWorker
<1>7. workers' = [v \in Claims |-> workers'[v]]
  BY DEF DigestInv, TypesOK
<1> QED
  BY <1>3, <1>4, <1>6, <1>7 DEF DigestInv, TypesOK, Delivery

\* A step of a worker alone, or one that acknowledges or looks up.
LEMMA Quiet ==
    ASSUME DigestInv, BridgeKnown, NEW w \in Claims, NEW x, NEW A,
           workers' = [workers EXCEPT ![w] = x], IsWorker(x), cursors' = cursors,
           feed' = [feed EXCEPT !.acks = A], \A d \in A : d \in Cuts /\ chat[d] = 1,
           lease' \in {0, w, lease}, chat' = chat, requests' = requests,
           x.step # "apply" \/ x.todo # <<>>,
           x.step \in {"announce", "apply", "applying"} =>
               /\ workers[w].step \in {"announce", "apply", "applying"}
               /\ x.seen["pending_digest_id"] = DigestOf(w),
           WorkerOK(w)'
    PROVE  DigestInv' /\ Rests
<1>1. TypesOK'
  BY TypesKept
<1>2. /\ feed'.high = feed.high /\ feed'.acked = feed.acked /\ feed'.cut = feed.cut
      /\ feed'.recuts = feed.recuts /\ Cuts' = Cuts
  BY DEF DigestInv, TypesOK, FeedTypes, Cuts
<1>3. PendingIsComplete'
  BY <1>2 DEF DigestInv, PendingIsComplete
<1>4. workers'[w] = x /\ \A v \in Claims \ {w} : workers'[v] = workers[v]
  BY DEF DigestInv, TypesOK
<1>5. IdleKept
  BY <1>4 DEF IdleKept, Idle, Clean, At, DigestOf
<1>6. OpenMoves
  BY <1>2, <1>5, SameCursors
<1>7. \A d \in Cuts : Author(w, d)' => Author(w, d)
  BY <1>4 DEF Author, DigestOf
<1> QED
  BY <1>1, <1>3, <1>5, <1>6, <1>7, OwnStep

\* The record of worker w after its step.
IsNow(w, x, s, t) ==
    workers' = [workers EXCEPT ![w] = x] /\ IsWorker(x) /\ x.step = s /\ x.todo = t

\* The invariant, for one worker.
LEMMA WorkersAre ==
    ASSUME DigestInv, NEW w \in Claims
    PROVE  /\ workers = [v \in Claims |-> workers[v]] /\ IsWorker(workers[w])
           /\ WorkerOK(w)
BY DEF DigestInv, TypesOK, WorkersOK

\* A worker that goes on.
LEMMA GoIs ==
    ASSUME DigestInv, NEW w \in Claims, NEW s \in Steps, NEW t \in Writes, Go(w, s, t)
    PROVE  \E x : IsNow(w, x, s, t) /\ x.seen = workers[w].seen
<1> PICK x : x = [workers[w] EXCEPT !.step = s, !.todo = t]
  OBVIOUS
<1>1. workers' = [workers EXCEPT ![w] = x]
  BY WorkersAre DEF Go
<1>2. IsWorker(x) /\ x.step = s /\ x.todo = t /\ x.seen = workers[w].seen
  BY WorkersAre DEF IsWorker
<1> QED
  BY <1>1, <1>2 DEF IsNow

\* A worker that is over.
LEMMA OverIs ==
    ASSUME DigestInv, NEW w \in Claims, NEW t \in Writes, Over(w, t)
    PROVE  \E x : IsNow(w, x, "done", t)
<1>1. feed.acked \in Nat /\ NoCursors \in Seen
  BY CutsAre, NamesAre, ClaimsAre DEF DigestInv, NoCursors, Seen, Values, States
<1> DEFINE r == [step |-> "done", todo |-> t, seen |-> NoCursors, acked |-> 0, resuming |-> FALSE]
<1>2. IsWorker(r) /\ r.step = "done" /\ r.todo = t
  <2>1. r.step = "done" /\ r.todo = t /\ r.acked = 0
    OBVIOUS
  <2>2. r \in [step : Steps, todo : Writes, seen : Seen, acked : Nat, resuming : BOOLEAN]
    BY <1>1 DEF Steps
  <2> HIDE DEF r
  <2> QED
    BY <1>1, <2>1, <2>2 DEF IsWorker
<1> PICK x : x = [NewWorker EXCEPT !.step = "done", !.todo = t]
  OBVIOUS
<1>3. x = r
  BY DEF NewWorker
<1> HIDE DEF r
<1>4. IsWorker(x) /\ x.step = "done" /\ x.todo = t
  BY <1>2, <1>3, Zenon
<1>5. workers' = [workers EXCEPT ![w] = x]
  BY DEF Over
<1> QED
  BY <1>4, <1>5, Zenon DEF IsNow

\* The worker goes on with what it has seen.
Turns(w, s, t, c) ==
    workers' = [workers EXCEPT ![w] = [workers[w] EXCEPT !.step = s, !.todo = t, !.seen = c]]

\* Its record is one of a worker.
LEMMA SeenIs ==
    ASSUME DigestInv, NEW w \in Claims, NEW s \in Steps, NEW t \in Writes, NEW c \in Seen,
           Turns(w, s, t, c)
    PROVE  \E x : IsNow(w, x, s, t) /\ x.seen = c
<1> PICK x : x = [workers[w] EXCEPT !.step = s, !.todo = t, !.seen = c]
  OBVIOUS
<1>1. IsWorker(x) /\ x.step = s /\ x.todo = t /\ x.seen = c
  BY WorkersAre DEF IsWorker
<1> QED
  BY <1>1 DEF IsNow, Turns

\* What the invariant asks of worker w after a step that leaves the cursors.
LEMMA NowIs ==
    ASSUME DigestInv, NEW w \in Claims, NEW x, workers' = [workers EXCEPT ![w] = x]
    PROVE  workers'[w] = x /\ DigestOf(w)' = x.seen["pending_digest_id"]
BY WorkersAre DEF DigestOf

\* Steps that leave the feed acknowledge nothing.
LEMMA NoAcks ==
    ASSUME DigestInv, UNCHANGED feed
    PROVE  feed' = [feed EXCEPT !.acks = feed.acks] /\ \A d \in feed.acks : d \in Cuts /\ chat[d] = 1
BY DEF DigestInv, TypesOK, FeedTypes, FeedOK

(* The steps of a worker before it has a digest. *)

\* A worker stops.
LEMMA StopKeeps ==
    ASSUME DigestInv, BridgeKnown, NEW w \in Claims, Over(w, <<>>),
           UNCHANGED <<feed, cursors, lease, bridgeVars>>
    PROVE  DigestInv' /\ Rests
<1> PICK x : IsNow(w, x, "done", <<>>)
  BY OverIs, WritesAre
<1>1. WorkerOK(w)'
  BY NowIs DEF IsNow, WorkerOK, IdleOK
<1> QED
  BY <1>1, NoAcks, Quiet DEF IsNow, bridgeVars

\* A claim starts with nothing.
LEMMA ClaimKeeps ==
    ASSUME DigestInv, BridgeKnown, NEW w \in Claims, Claim(w)
    PROVE  DigestInv' /\ Rests
<1> PICK x : x = [workers[w] EXCEPT !.step = "register"]
  OBVIOUS
<1>1. workers[w].step = "new" /\ workers[w].todo = <<>>
  BY WorkersAre DEF Claim, WorkerOK, IdleOK, Claims
<1>2. IsNow(w, x, "register", <<>>)
  BY <1>1, WorkersAre DEF Claim, IsNow, IsWorker, Steps
<1>3. WorkerOK(w)'
  BY <1>2, NowIs DEF IsNow, WorkerOK, IdleOK
<1> QED
  BY <1>2, <1>3, NoAcks, Quiet DEF IsNow, bridgeVars, Claim

\* Registering at the feed reads what was acknowledged.
LEMMA RegisterKeeps ==
    ASSUME DigestInv, BridgeKnown, NEW w \in Claims, Register(w)
    PROVE  DigestInv' /\ Rests
<1> PICK x : x = [workers[w] EXCEPT !.step = "resume", !.acked = feed.acked, !.resuming = TRUE]
  OBVIOUS
<1>1. feed.acked \in Nat
  BY CutsAre DEF DigestInv
<1>2. IsNow(w, x, "resume", <<>>)
  <2>1. workers' = [workers EXCEPT ![w] = x] /\ workers[w].todo = <<>>
    BY WorkersAre DEF Register, At
  <2>2. workers[w] \in [step : Steps, todo : Writes, seen : Seen, acked : Nat, resuming : BOOLEAN]
    BY WorkersAre DEF IsWorker
  <2>3. x.step = "resume" /\ x.todo = <<>> /\ x.acked = feed.acked
    BY <2>1, <2>2
  <2>4. x \in [step : Steps, todo : Writes, seen : Seen, acked : Nat, resuming : BOOLEAN]
    BY <1>1, <2>2 DEF Steps
  <2> QED
    BY <1>1, <2>1, <2>3, <2>4 DEF IsNow, IsWorker
<1>3. WorkerOK(w)'
  BY <1>2, NowIs DEF IsNow, WorkerOK, IdleOK
<1> QED
  BY <1>2, <1>3, NoAcks, Quiet DEF IsNow, bridgeVars, Register

\* The digest that is written down, once it was settled, is done.
LEMMA SettledIsDone ==
    ASSUME DigestInv, BridgeKnown, Delivery \in Announced, feed.cut[Pending].through <= feed.acked
    PROVE  Done(Pending)
<1>1. Pending \in Cuts
  BY PendingIsCut DEF DigestInv, Announced
<1>2. PICK d : d = Pending
  OBVIOUS
<1>3. feed.cut[d].from \in Nat /\ feed.cut[d].through \in Nat /\ feed.acked \in Nat
      /\ feed.cut[d].from <= feed.cut[d].through
  BY <1>1, <1>2, CutsAre DEF DigestInv
<1>4. Open(d) => Done(d)
  BY <1>1, <1>2, <1>3 DEF DigestInv, OpenNext, Done
<1>5. Open(d) \/ Done(d)
  BY <1>1, <1>2 DEF DigestInv, Placed, Open
<1> QED
  BY <1>2, <1>4, <1>5

\* The list that clears the cursors, for the holder of the lease.
LEMMA MayClear ==
    ASSUME DigestInv, NEW w \in Claims, UNCHANGED <<feed, cursors, chat>>, NEW n \in 1..8,
           NEW x, x = workers'[w], x.todo = Clear,
           lease' = w /\ Delivery \in Announced => Done(Pending)
    PROVE  ClearOK(w, n)'
<1>1. lease' = w => ClearedTo(1)'
  BY DEF ClearedTo, Delivery, Done, Pending
<1>2. workers'[w].todo = Rest(Clear, 1) /\ 1 \in 1..n
  BY RestIsOver
<1> QED
  BY <1>1, <1>2 DEF ClearOK

\* The resume finds one digest in the cursors, or none.
LEMMA ResumeKeeps ==
    ASSUME DigestInv, BridgeKnown, NEW w \in Claims, Resume(w)
    PROVE  DigestInv' /\ Rests
<1>1. /\ UNCHANGED <<feed, cursors, lease, bridgeVars>> /\ At(w, "resume")
      /\ cursors \in Seen
  BY DEF Resume, DigestInv, TypesOK, Seen
<1>2. PICK s, t :
        /\ Turns(w, s, t, cursors)
        /\ \/ Delivery = "none" /\ s = "read" /\ t = <<>>
           \/ Delivery # "none" /\ Settled(w) /\ s = "read" /\ t = Clear
           \/ Delivery = "sending" /\ s = "lookup" /\ t = <<>>
           \/ Delivery \notin {"none", "sending"} /\ ~Settled(w) /\ s = "readback" /\ t = <<>>
  BY WorkersAre DEF Resume, Delivery, Turns
<1>3. s \in {"read", "lookup", "readback"} /\ s \in Steps /\ t \in Writes
  BY <1>2, WritesAre DEF Steps
<1>4. PICK x : IsNow(w, x, s, t) /\ x.seen = cursors
  BY <1>1, <1>2, <1>3, SeenIs
<1>5. workers'[w] = x /\ DigestOf(w)' = Pending
  BY <1>4, NowIs DEF IsNow, Pending
<1>6. Delivery' = Delivery /\ Cuts' = Cuts
  BY <1>1 DEF Delivery, Cuts
<1>7. Delivery # "none" => Knows(w)' /\ Shows(w)' /\ Pending \in Cuts
  BY <1>1, <1>4, <1>5, <1>6, PendingIsCut DEF DigestInv, Knows, Shows, Whole
<1>8. ASSUME s = "read" /\ t = <<>> PROVE WorkerOK(w)'
  <2>1. Delivery = "none"
    BY <1>2, <1>8, ClearIs
  <2>2. ClearedTo(8)'
    BY <1>6, <2>1 DEF ClearedTo
  <2>3. ClearOK(w, 8)'
    BY <1>4, <1>5, <1>8, <2>2, RestIsOver DEF IsNow, ClearOK
  <2>4. workers'[w].step = "read"
    BY <1>4, <1>5, <1>8 DEF IsNow
  <2> QED
    BY <2>3, <2>4 DEF WorkerOK
<1>9. ASSUME s = "read", t = Clear, Settled(w), Delivery # "none" PROVE WorkerOK(w)'
  <2>1. /\ Pending \in Cuts /\ Through(cursors["pending_through_sequence"]) = feed.cut[Pending].through
        /\ feed.cut[Pending].through \in Nat
    BY <1>9, PendingIsCut, NamesAre, CutsAre DEF DigestInv, Whole
  <2>2. workers[w].acked <= feed.acked /\ workers[w].acked \in Nat /\ feed.acked \in Nat
    BY WorkersAre, CutsAre DEF IsWorker, DigestInv
  <2>3. Delivery \in Announced => Done(Pending)
    BY <1>9, <2>1, <2>2, SettledIsDone DEF Settled, Delivery, Announced
  <2>4. ClearOK(w, 8)'
    BY <1>1, <1>4, <1>5, <1>9, <2>3, MayClear DEF IsNow, bridgeVars
  <2>5. workers'[w].step = "read"
    BY <1>4, <1>5, <1>9 DEF IsNow
  <2> QED
    BY <2>4, <2>5 DEF WorkerOK
<1>10. ASSUME s = "lookup", t = <<>>, Delivery = "sending" PROVE WorkerOK(w)'
  <2>1. workers'[w].step = "lookup" /\ workers'[w].todo = <<>>
    BY <1>4, <1>5, <1>10 DEF IsNow
  <2>2. LookupOK(w)'
    BY <1>6, <1>7, <1>10, <2>1 DEF LookupOK
  <2> QED
    BY <2>1, <2>2 DEF WorkerOK
<1>11. ASSUME s = "readback", t = <<>>, Delivery \notin {"none", "sending"}, ~Settled(w)
       PROVE  WorkerOK(w)'
  <2>1. workers'[w].step = "readback" /\ workers'[w].todo = <<>>
    BY <1>4, <1>5, <1>11 DEF IsNow
  <2>2. Delivery \in {"sent_unverified", "delivered_unacked"}
    BY <1>11 DEF DigestInv, TypesOK, States, Settled, Delivery
  <2>3. cursors["notification_message_id"] = Pending /\ chat[Pending] = 1
    BY <2>2, NamesAre DEF DigestInv, PendingIsComplete, Delivery, Pending
  <2>4. Confirmed(w)' /\ Recorded(w)'
    <3> PICK d : d = Pending
      OBVIOUS
    <3>1. chat'[d] = 1 /\ DigestOf(w)' = d /\ workers'[w].seen["notification_message_id"] = d
          /\ cursors'["notification_message_id"] = d
      BY <1>1, <1>4, <1>5, <2>3 DEF bridgeVars
    <3> QED
      BY <1>6, <1>7, <2>2, <3>1 DEF Confirmed, Recorded, Announced
  <2>5. ReadbackOK(w)'
    <3> PICK d \in Cuts : d = Pending
      BY <1>7, <1>11
    <3>1. d \in 0..MaxDigests /\ DigestOf(w)' = d
      BY <1>5, CutsAre, ClaimsAre DEF DigestInv, Digests
    <3>2. workers'[w].todo = Rest(MessageKnown(d), 3) /\ 3 \in 1..3
      BY <2>1, <3>1, RestIsOver
    <3> QED
      BY <1>7, <1>11, <2>4, <3>1, <3>2 DEF ReadbackOK
  <2> QED
    BY <2>1, <2>5 DEF WorkerOK
<1>12. WorkerOK(w)'
  BY <1>2, <1>8, <1>9, <1>10, <1>11
<1> QED
  BY <1>1, <1>3, <1>4, <1>12, NoAcks, Quiet DEF IsNow, bridgeVars

\* Nothing to tell.
LEMMA ReadNothingKeeps ==
    ASSUME DigestInv, BridgeKnown, NEW w \in Claims, ReadNothing(w)
    PROVE  DigestInv' /\ Rests
BY StopKeeps DEF ReadNothing

\* A digest that is written down is to be announced.
LEMMA AnnounceKeeps ==
    ASSUME DigestInv, BridgeKnown, NEW w \in Claims, Announce(w)
    PROVE  DigestInv' /\ Rests
<1>1. /\ UNCHANGED <<feed, cursors, lease, bridgeVars>> /\ Go(w, "apply", State("sending"))
      /\ workers[w].step = "announce" /\ workers[w].todo = <<>> /\ lease = w
  BY DEF Announce, At, Holds
<1>2. PICK x : IsNow(w, x, "apply", State("sending")) /\ x.seen = workers[w].seen
  BY <1>1, WritesAre, GoIs DEF States, Steps
<1> PICK d : d = DigestOf(w)
  OBVIOUS
<1>3. workers'[w] = x /\ DigestOf(w)' = d /\ Cuts' = Cuts /\ Delivery' = Delivery
  BY <1>1, <1>2, NowIs DEF IsNow, DigestOf, Cuts, Delivery
<1>4. AnnounceOK(w)
  BY <1>1, WorkersAre DEF WorkerOK
<1>5. d \in Cuts /\ d \in 0..MaxDigests /\ Knows(w)
  BY <1>4, CutsAre, ClaimsAre DEF AnnounceOK, Knows, DigestInv, Digests
<1>6. PreparedTo(d, 8)
  <2>1. PICK i \in 1..8 : workers[w].todo = Rest(Prepare(d), i) /\ PreparedTo(d, i)
    BY <1>1, <1>4 DEF AnnounceOK
  <2>2. i = 8 \/ i \in 1..7
    OBVIOUS
  <2> QED
    BY <1>1, <1>5, <2>1, <2>2, RestIsOver
<1>7. /\ \A k \in 1..7 : cursors[Prepare(d)[k][1]] = Prepare(d)[k][2]
      /\ Next1(d)
  BY <1>6 DEF PreparedTo
<1>8. Delivery = "prepared" /\ Whole(cursors, d)
  <2>1. Delivery = "prepared"
    <3>1. Prepare(d)[7] = <<"delivery_state", "prepared">>
      BY PrepareIs
    <3>2. cursors[Prepare(d)[7][1]] = Prepare(d)[7][2]
      BY <1>7
    <3> QED
      BY <3>1, <3>2 DEF Delivery
  <2>2. ASSUME NEW name \in TextParts PROVE cursors[name] = d
    <3> PICK k \in 1..5 : Prepare(d)[k][1] = name
      BY PrepareIs
    <3>1. Prepare(d)[k] = <<name, d>>
      BY PrepareIs
    <3>2. cursors[Prepare(d)[k][1]] = Prepare(d)[k][2]
      BY <1>7
    <3> QED
      BY <3>1, <3>2
  <2> QED
    BY <2>1, <2>2 DEF Whole
<1>9. ApplyOK(w)'
  <2>1. Knows(w)'
    BY <1>2, <1>3, <1>5 DEF Knows, Whole
  <2>2. Shows(w)' /\ Delivery' = "prepared"
    BY <1>1, <1>3, <1>8 DEF Shows, Whole
  <2>3. Next1(DigestOf(w))'
    BY <1>1, <1>3, <1>7 DEF Next1
  <2> QED
    BY <1>2, <1>3, <2>1, <2>2, <2>3 DEF ApplyOK, IsNow
<1>10. WorkerOK(w)'
  <2>1. workers'[w].step = "apply"
    BY <1>2, <1>3 DEF IsNow
  <2> QED
    BY <1>9, <2>1 DEF WorkerOK
<1>11. State("sending") # <<>>
  BY OneWrite
<1> QED
  BY <1>1, <1>2, <1>3, <1>10, <1>11, NoAcks, Quiet DEF IsNow, bridgeVars, DigestOf

\* A message that is known goes to the cursors, and to what the run has seen.
LEMMA MessageKeeps ==
    ASSUME DigestInv, BridgeKnown, NEW w \in Claims, NEW d, d = DigestOf(w),
           workers' = [workers EXCEPT ![w].step = "readback", ![w].todo = MessageKnown(d),
                                      ![w].seen["notification_message_id"] = d],
           UNCHANGED <<feed, cursors, lease, requests, chat>>,
           Knows(w), chat[d] = 1, lease = w => Shows(w) /\ Delivery = "sending"
    PROVE  DigestInv' /\ Rests
<1> PICK y : y = workers[w].seen
  OBVIOUS
<1> PICK c : c = [y EXCEPT !["notification_message_id"] = d]
  OBVIOUS
<1>1. d \in Cuts /\ d \in 0..MaxDigests /\ d \in Values
  BY CutsAre, ClaimsAre DEF Knows, DigestInv, Digests, Values
<1>2. y \in Seen
  BY WorkersAre DEF IsWorker
<1>3. /\ c \in Seen /\ c["notification_message_id"] = d
      /\ \A name \in TextParts : c[name] = y[name]
  BY <1>1, <1>2, NamesAre DEF Seen
<1>4. Turns(w, "readback", MessageKnown(d), c)
  <2>1. workers = [v \in Claims |-> workers[v]] /\ workers[w].seen = y
    BY WorkersAre
  <2> QED
    BY <2>1, ZenonT(60) DEF Turns
<1>5. PICK x : IsNow(w, x, "readback", MessageKnown(d)) /\ x.seen = c
  BY <1>1, <1>3, <1>4, WritesAre, SeenIs DEF Steps
<1>6. "pending_digest_id" \in TextParts
  BY NamesAre
<1>7. workers'[w] = x /\ DigestOf(w)' = d /\ Cuts' = Cuts /\ Delivery' = Delivery
  <2>1. workers'[w] = x /\ DigestOf(w)' = x.seen["pending_digest_id"]
    BY <1>5, NowIs DEF IsNow
  <2>2. x.seen["pending_digest_id"] = d
    BY <1>3, <1>5, <1>6 DEF DigestOf
  <2> QED
    BY <2>1, <2>2 DEF Cuts, Delivery
<1>8. Knows(w)' /\ Confirmed(w)'
  BY <1>1, <1>3, <1>5, <1>7 DEF Knows, Whole, Confirmed
<1>9. lease' = w => Shows(w)' /\ Delivery' = "sending"
  BY <1>7 DEF Shows, Whole
<1>10. WorkerOK(w)'
  <2>1. workers'[w].step = "readback" /\ workers'[w].todo = Rest(MessageKnown(d), 1)
    BY <1>1, <1>5, <1>7, RestIsOver DEF IsNow
  <2>2. ReadbackOK(w)'
    BY <1>7, <1>8, <1>9, <2>1 DEF ReadbackOK
  <2> QED
    BY <2>1, <2>2 DEF WorkerOK
<1> QED
  BY <1>5, <1>10, NoAcks, Quiet DEF IsNow

\* A lookup that verifies has found the message.
LEMMA LookUpKeeps ==
    ASSUME DigestInv, BridgeKnown, NEW w \in Claims, LookUp(w)
    PROVE  DigestInv' /\ Rests
<1> PICK d : d = DigestOf(w)
  OBVIOUS
<1>1. LookupOK(w)
  BY WorkersAre DEF LookUp, At, WorkerOK
<1>2. d \in Digests
  BY <1>1, CutsAre DEF LookupOK, Knows, DigestInv
<1>3. chat[d] = 1 /\ UNCHANGED <<requests, chat>>
  BY <1>2 DEF LookUp, DigestOf, Bridge!Lookup, Bridge!LookupVerifies, BridgeKnown
<1>4. /\ workers' = [workers EXCEPT ![w].step = "readback", ![w].todo = MessageKnown(d),
                                    ![w].seen["notification_message_id"] = d]
      /\ UNCHANGED <<feed, cursors, lease>>
  BY DEF LookUp, DigestOf
<1> QED
  BY <1>1, <1>3, <1>4, MessageKeeps DEF LookupOK

\* An answer that verifies has found the message.
LEMMA AppliedOkKeeps ==
    ASSUME DigestInv, BridgeKnown, NEW w \in Claims, AppliedOk(w)
    PROVE  DigestInv' /\ Rests
<1> PICK d : d = DigestOf(w)
  OBVIOUS
<1>1. ApplyingOK(w)
  BY WorkersAre DEF AppliedOk, At, WorkerOK
<1>2. chat[d] = 1
  BY DEF AppliedOk, Answer, Bridge!Answers, BridgeKnown, DigestOf
<1>3. /\ workers' = [workers EXCEPT ![w].step = "readback", ![w].todo = MessageKnown(d),
                                    ![w].seen["notification_message_id"] = d]
      /\ UNCHANGED <<feed, cursors, lease, requests, chat>>
  BY DEF AppliedOk, DigestOf, bridgeVars
<1> QED
  BY <1>1, <1>2, <1>3, MessageKeeps DEF ApplyingOK

\* A refusal shows that nothing of this digest has left or can leave.
LEMMA AppliedStaleKeeps ==
    ASSUME DigestInv, BridgeKnown, NEW w \in Claims, AppliedStale(w)
    PROVE  DigestInv' /\ Rests
<1> PICK d : d = DigestOf(w)
  OBVIOUS
<1>1. /\ UNCHANGED <<feed, cursors, lease, bridgeVars>> /\ Over(w, State("prepared"))
      /\ workers[w].step = "applying"
  BY DEF AppliedStale, At
<1>2. ApplyingOK(w)
  BY <1>1, WorkersAre DEF WorkerOK
<1>3. PICK x : IsNow(w, x, "done", State("prepared"))
  BY <1>1, OverIs, WritesAre DEF States
<1>4. workers'[w] = x /\ \A v \in Claims \ {w} : workers'[v] = workers[v]
  BY <1>3, WorkersAre DEF IsNow
<1>5. d \in Cuts /\ Author(w, d)
  BY <1>1, <1>2 DEF ApplyingOK, Knows, Author
<1>6. ASSUME feed.recuts PROVE Idle(d)'
  <2>1. PICK q \in requests : q.key = d /\ q.token = w /\ q.stage = "stale"
    BY DEF AppliedStale, Answer, Bridge!Answers, DigestOf
  <2>2. \A p \in requests : p.key = d => p = q
    BY <1>6, <2>1 DEF DigestInv, OneAuthor, BridgeKnown
  <2>3. Clean(d)'
    BY <1>1, <2>1, <2>2 DEF Clean, bridgeVars
  <2>4. ASSUME NEW v \in Claims, At(v, "apply")', DigestOf(v)' = d PROVE FALSE
    <3>1. v # w
      BY <1>3, <1>4, <2>4 DEF At, IsNow
    <3>2. Author(v, d)
      BY <1>4, <2>4, <3>1 DEF At, DigestOf, Author
    <3> QED
      BY <1>5, <1>6, <3>1, <3>2 DEF DigestInv, OneAuthor
  <2> QED
    BY <2>3, <2>4 DEF Idle
<1>7. ASSUME lease' = w PROVE Delivery' = "sending" /\ Pending' = d /\ Whole(cursors, Pending)'
  <2>1. Shows(w) /\ Delivery = "sending" /\ cursors' = cursors
    BY <1>1, <1>2, <1>7 DEF ApplyingOK
  <2>2. Pending = d
    BY <2>1, NamesAre DEF Shows, Whole, Pending
  <2> QED
    BY <2>1, <2>2 DEF Shows, Whole, Pending, Delivery
<1>8. TakenBackOK(w)'
  <2>1. feed'.recuts = feed.recuts
    BY <1>1
  <2>2. ASSUME lease' = w, feed'.recuts PROVE Idle(Pending)'
    BY <1>6, <1>7, <2>1, <2>2
  <2> QED
    BY <1>3, <1>4, <1>7, <2>2 DEF TakenBackOK, IsNow
<1>9. WorkerOK(w)'
  <2>1. workers'[w].step = "done"
    BY <1>3, <1>4 DEF IsNow
  <2> QED
    BY <1>8, <2>1 DEF WorkerOK
<1> QED
  BY <1>1, <1>3, <1>9, NoAcks, Quiet DEF IsNow, bridgeVars

\* A message that reads back is to be recorded as delivered.
LEMMA ReadbackKeeps ==
    ASSUME DigestInv, BridgeKnown, NEW w \in Claims, Readback(w)
    PROVE  DigestInv' /\ Rests
<1>1. /\ UNCHANGED <<feed, cursors, lease, bridgeVars>> /\ Go(w, "ack", State("delivered_unacked"))
      /\ workers[w].step = "readback" /\ workers[w].todo = <<>>
  BY DEF Readback, At
<1>2. PICK x : IsNow(w, x, "ack", State("delivered_unacked")) /\ x.seen = workers[w].seen
  BY <1>1, WritesAre, GoIs DEF States, Steps
<1> PICK d : d = DigestOf(w)
  OBVIOUS
<1>3. workers'[w] = x /\ DigestOf(w)' = d /\ Cuts' = Cuts /\ Delivery' = Delivery
  BY <1>1, <1>2, NowIs DEF IsNow, DigestOf, Cuts, Delivery
<1>4. ReadbackOK(w)
  BY <1>1, WorkersAre DEF WorkerOK
<1>5. d \in Cuts /\ d \in 0..MaxDigests /\ Knows(w) /\ Confirmed(w)
  BY <1>4, CutsAre, ClaimsAre DEF ReadbackOK, Knows, DigestInv, Digests
<1>6. lease = w => Recorded(w)
  <2>1. PICK i \in 1..3 : workers[w].todo = Rest(MessageKnown(d), i) /\ (lease = w /\ i > 1 => Recorded(w))
    BY <1>4 DEF ReadbackOK
  <2>2. i = 3 \/ i \in 1..2
    OBVIOUS
  <2> QED
    BY <1>1, <1>5, <2>1, <2>2, RestIsOver
<1>7. Knows(w)' /\ Confirmed(w)' /\ (lease' = w => Recorded(w)')
  BY <1>1, <1>2, <1>3, <1>5, <1>6
     DEF Knows, Confirmed, Recorded, Whole, Shows, bridgeVars, DigestOf
<1>8. WorkerOK(w)'
  <2>1. workers'[w].step = "ack" /\ workers'[w].todo = State("delivered_unacked")
    BY <1>2, <1>3 DEF IsNow
  <2>2. AckOK(w)'
    BY <1>7, <2>1 DEF AckOK
  <2> QED
    BY <2>1, <2>2 DEF WorkerOK
<1> QED
  BY <1>1, <1>2, <1>8, NoAcks, Quiet DEF IsNow, bridgeVars

\* Only what was told is acknowledged.
LEMMA AcknowledgeKeeps ==
    ASSUME DigestInv, BridgeKnown, NEW w \in Claims, Acknowledge(w)
    PROVE  DigestInv' /\ Rests
<1> PICK d : d = DigestOf(w)
  OBVIOUS
<1>1. /\ UNCHANGED <<cursors, lease, bridgeVars>> /\ Go(w, "acking", <<>>)
      /\ workers[w].step = "ack" /\ workers[w].todo = <<>>
      /\ feed' = [feed EXCEPT !.acks = feed.acks \cup {workers[w].seen["pending_ack"]}]
  BY DEF Acknowledge, At
<1>2. PICK x : IsNow(w, x, "acking", <<>>) /\ x.seen = workers[w].seen
  BY <1>1, WritesAre, GoIs DEF Steps
<1>3. AckOK(w)
  BY <1>1, WorkersAre DEF WorkerOK
<1>4. d \in Cuts /\ chat[d] = 1 /\ workers[w].seen["pending_ack"] = d
  BY <1>3, NamesAre DEF AckOK, Knows, Confirmed, Whole
<1>5. \A a \in feed.acks \cup {d} : a \in Cuts /\ chat[a] = 1
  BY <1>4 DEF DigestInv, FeedOK
<1>6. /\ workers'[w] = x /\ DigestOf(w)' = d /\ Cuts' = Cuts /\ Delivery' = Delivery
  BY <1>1, <1>2, NowIs DEF IsNow, DigestOf, Cuts, Delivery, DigestInv, TypesOK, FeedTypes
<1>7. Knows(w)' /\ Confirmed(w)' /\ (lease' = w => Recorded(w)')
  BY <1>1, <1>2, <1>3, <1>6
     DEF AckOK, Knows, Confirmed, Recorded, Whole, Shows, bridgeVars, DigestOf
<1>8. WorkerOK(w)'
  <2>1. workers'[w].step = "acking" /\ workers'[w].todo = <<>>
    BY <1>2, <1>6 DEF IsNow
  <2>2. AckingOK(w)'
    BY <1>7, <2>1 DEF AckingOK
  <2> QED
    BY <2>1, <2>2 DEF WorkerOK
<1> PICK A : A = feed.acks \cup {d}
  OBVIOUS
<1>9. feed' = [feed EXCEPT !.acks = A]
  BY <1>1, <1>4
<1> QED
  BY <1>1, <1>2, <1>5, <1>8, <1>9, Quiet DEF IsNow, bridgeVars

\* What was acknowledged is done, and may be cleared.
LEMMA AcknowledgedKeeps ==
    ASSUME DigestInv, BridgeKnown, NEW w \in Claims, Acknowledged(w)
    PROVE  DigestInv' /\ Rests
<1> PICK d : d = DigestOf(w)
  OBVIOUS
<1>1. /\ UNCHANGED <<feed, cursors, lease, bridgeVars>> /\ workers[w].step = "acking"
      /\ feed.acked >= Through(workers[w].seen["pending_through_sequence"])
  BY DEF Acknowledged, At
<1>2. AckingOK(w)
  BY <1>1, WorkersAre DEF WorkerOK
<1>3. /\ d \in Cuts /\ chat[d] = 1 /\ workers[w].seen["pending_through_sequence"] = d
      /\ lease = w => Recorded(w)
  BY <1>2, NamesAre DEF AckingOK, Knows, Confirmed, Whole
<1>4. Done(d)
  BY <1>1, <1>3, CutsAre DEF Done, DigestInv
<1>5. lease' = w => Done(Pending)
  BY <1>1, <1>3, <1>4, NamesAre DEF Recorded, Shows, Whole, Pending
<1>6. \/ Go(w, "read", Clear)
      \/ Over(w, Clear)
  BY DEF Acknowledged
<1>7. CASE Go(w, "read", Clear)
  <2>1. PICK x : IsNow(w, x, "read", Clear)
    BY <1>7, WritesAre, GoIs DEF Steps
  <2>2. workers'[w] = x
    BY <2>1, NowIs DEF IsNow
  <2>3. ClearOK(w, 8)'
    BY <1>1, <1>5, <2>1, <2>2, MayClear DEF IsNow, bridgeVars
  <2>4. WorkerOK(w)'
    <3>1. workers'[w].step = "read"
      BY <2>1, <2>2 DEF IsNow
    <3> QED
      BY <2>3, <3>1 DEF WorkerOK
  <2> QED
    BY <1>1, <2>1, <2>4, NoAcks, Quiet DEF IsNow, bridgeVars
<1>8. CASE Over(w, Clear)
  <2>1. PICK x : IsNow(w, x, "done", Clear)
    BY <1>8, WritesAre, OverIs
  <2>2. workers'[w] = x
    BY <2>1, NowIs DEF IsNow
  <2>3. ClearOK(w, 7)'
    BY <1>1, <1>5, <2>1, <2>2, MayClear DEF IsNow, bridgeVars
  <2>4. WorkerOK(w)'
    <3>1. workers'[w].step = "done"
      BY <2>1, <2>2 DEF IsNow
    <3> QED
      BY <2>3, <3>1 DEF WorkerOK
  <2> QED
    BY <1>1, <2>1, <2>4, NoAcks, Quiet DEF IsNow, bridgeVars
<1> QED
  BY <1>6, <1>7, <1>8

-----------------------------------------------------------------------------
(* The holder of the lease writes the next cursor of its list *)

Wrote(w, name, value, rest) ==
    /\ lease = w /\ UNCHANGED <<feed, lease, requests, ledger, chat>> /\ Cuts' = Cuts
    /\ cursors'[name] = value /\ \A n \in ToSet(Names) \ {name} : cursors'[n] = cursors[n]
    /\ \E x : workers' = [workers EXCEPT ![w] = x]
    /\ workers'[w].step = workers[w].step /\ workers'[w].seen = workers[w].seen
    /\ workers'[w].todo = rest /\ DigestOf(w)' = DigestOf(w)

\* One write of the list.
LEMMA WriteIs ==
    ASSUME DigestInv, NEW w \in Claims, WriteCursor(w), NEW name, NEW value, NEW rest \in Writes,
           Head(workers[w].todo) = <<name, value>>, Tail(workers[w].todo) = rest,
           \/ name = "delivery_state" /\ value \in States
           \/ name \in Parts /\ value \in 0..MaxDigests
    PROVE  Wrote(w, name, value, rest) /\ TypesOK'
<1> PICK x : x = [workers[w] EXCEPT !.todo = rest]
  OBVIOUS
<1>1. workers' = [workers EXCEPT ![w] = x]
  BY WorkersAre DEF WriteCursor
<1>2. /\ lease = w /\ UNCHANGED <<feed, lease, requests, ledger, chat>> /\ Cuts' = Cuts
      /\ cursors' = [cursors EXCEPT ![name] = value]
  <2>1. <<name, value>>[1] = name /\ <<name, value>>[2] = value
    OBVIOUS
  <2>2. cursors' = [cursors EXCEPT ![<<name, value>>[1]] = <<name, value>>[2]]
    BY Zenon DEF WriteCursor
  <2>3. cursors' = [cursors EXCEPT ![name] = value]
    BY <2>1, <2>2, Zenon
  <2> QED
    BY <2>3 DEF WriteCursor, Holds, bridgeVars, Cuts
<1>3. IsWorker(x) /\ x.step = workers[w].step /\ x.seen = workers[w].seen /\ x.todo = rest
  BY WorkersAre DEF IsWorker
<1>4. workers'[w] = x
  BY <1>1, NowIs
<1>5. cursors \in [ToSet(Names) -> Values] /\ name \in ToSet(Names) /\ value \in Values
  BY NamesAre DEF DigestInv, TypesOK, Values
<1>6. /\ cursors'[name] = value /\ \A n \in ToSet(Names) \ {name} : cursors'[n] = cursors[n]
      /\ cursors' \in [ToSet(Names) -> Values]
  BY <1>2, <1>5
<1>7. Wrote(w, name, value, rest)
  BY <1>1, <1>2, <1>3, <1>4, <1>6 DEF Wrote, DigestOf
<1>8. Delivery' \in States /\ \A n \in Parts : cursors'[n] \in 0..MaxDigests
  BY <1>6, NamesAre DEF Delivery, DigestInv, TypesOK
<1>9. ASSUME NEW v \in Claims PROVE IsWorker(workers[v])'
  <2> PICK y : y = workers'[v]
    OBVIOUS
  <2>1. IsWorker(y)
    BY <1>1, <1>3 DEF DigestInv, TypesOK
  <2> QED
    BY <1>2, <2>1 DEF IsWorker
<1>10. workers' = [v \in Claims |-> workers'[v]]
  BY <1>1 DEF DigestInv, TypesOK
<1>11. feed' \in FeedTypes /\ lease' \in 0..MaxClaims
  BY <1>2 DEF DigestInv, TypesOK
<1>12. TypesOK'
  BY <1>6, <1>8, <1>9, <1>10, <1>11 DEF TypesOK
<1> QED
  BY <1>7, <1>12

\* A write keeps the invariant if it keeps what the cursors tell.
LEMMA WroteKeeps ==
    ASSUME DigestInv, BridgeKnown, NEW w \in Claims, NEW name, NEW value, NEW rest,
           Wrote(w, name, value, rest), TypesOK', PendingIsComplete', WorkerOK(w)', OpenMoves
    PROVE  DigestInv' /\ Rests
<1>1. PICK x : workers' = [workers EXCEPT ![w] = x]
  BY DEF Wrote
<1>2. feed' = [feed EXCEPT !.acks = feed.acks] /\ \A d \in feed.acks : d \in Cuts /\ chat[d] = 1
  BY NoAcks DEF Wrote
<1>3. \A d \in Cuts : Author(w, d)' => Author(w, d)
  BY DEF Wrote, Author, DigestOf
<1> QED
  BY <1>1, <1>2, <1>3, OwnStep DEF Wrote

\* Unless the next step is the request, what could not leave still cannot.
LEMMA WroteIdle ==
    ASSUME DigestInv, NEW w \in Claims, NEW name, NEW value, NEW rest,
           Wrote(w, name, value, rest), workers[w].step # "apply"
    PROVE  \A d \in Cuts : Idle(d) => Idle(d)'
<1>1. \A v \in Claims : v # w => workers'[v] = workers[v]
  BY WorkersAre DEF Wrote
<1> QED
  BY <1>1 DEF Idle, Clean, At, DigestOf, Wrote

\* Where nothing is announced, before or after, nothing is open.
LEMMA WroteQuietly ==
    ASSUME DigestInv, NEW w \in Claims, NEW name, NEW value, NEW rest,
           Wrote(w, name, value, rest), workers[w].step # "apply",
           Delivery \in Announced => Done(Pending), Delivery' \notin Announced
    PROVE  OpenMoves
<1>1. feed.recuts => \A d \in Cuts : ~Open(d)' /\ (Open(d) => Done(d))
  BY DEF Open, Wrote
<1>2. ~feed.recuts => \A d \in Cuts : Open(d)' <=> Open(d)
  BY DEF Open, Wrote
<1> QED
  BY <1>1, <1>2, WroteIdle DEF OpenMoves, DigestInv, TypesOK, FeedTypes

\* Where the same digest stays announced, what is open stays open.
LEMMA WroteOpenly ==
    ASSUME DigestInv, NEW w \in Claims, NEW name, NEW value, NEW rest,
           Wrote(w, name, value, rest), workers[w].step # "apply",
           Delivery \in Announced, Delivery' \in Announced, Pending' = Pending
    PROVE  OpenMoves
<1>1. \A d \in Cuts : Open(d)' <=> Open(d)
  BY DEF Open, Wrote
<1> QED
  BY <1>1, WroteIdle DEF OpenMoves

\* A write of _clear_pending.
LEMMA WriteClear ==
    ASSUME DigestInv, BridgeKnown, NEW w \in Claims, WriteCursor(w), NEW n \in {7, 8}, ClearOK(w, n),
           workers[w].step = IF n = 8 THEN "read" ELSE "done"
    PROVE  DigestInv' /\ Rests
<1>1. PICK i \in 1..n : workers[w].todo = Rest(Clear, i) /\ ClearedTo(i)
  BY DEF ClearOK, WriteCursor, Holds
<1>2. i \in 1..7
  <2>1. i \in 1..7 \/ i = 8
    OBVIOUS
  <2> QED
    BY <1>1, <2>1, RestIsOver DEF WriteCursor
<1>3. /\ Head(workers[w].todo) = Clear[i] /\ Tail(workers[w].todo) = Rest(Clear, i + 1)
  <2>1. List(Clear, 7)
    BY WritesAre
  <2>2. Head(Rest(Clear, i)) = Clear[i] /\ Tail(Rest(Clear, i)) = Rest(Clear, i + 1)
    BY <1>2, <2>1, SevenWrites, Zenon
  <2> QED
    BY <1>1, <2>2
<1>4. Rest(Clear, i + 1) \in Writes
  <2>1. workers[w].todo \in Seq(OneOf) /\ workers[w].todo # <<>>
    BY WorkersAre DEF WriteCursor, IsWorker, Writes
  <2>2. Tail(workers[w].todo) \in Seq(OneOf)
    BY <2>1, HeadTailProperties
  <2> QED
    BY <1>3, <2>2 DEF Writes
<1>5. PICK name, value :
         /\ Clear[i] = <<name, value>>
         /\ \/ name = "delivery_state" /\ value \in States
            \/ name \in Parts /\ value \in 0..MaxDigests
         /\ i = 1 => name = "delivery_state" /\ value = "none"
         /\ i > 1 => name \in Parts
  <2>1. CASE i = 1
    BY <2>1, ClearIs DEF States
  <2>2. CASE i \in 2..7
    <3>1. PICK name \in Parts : Clear[i] = <<name, 0>>
      BY <2>2, ClearIs
    <3>2. 0 \in 0..MaxDigests /\ i # 1
      BY <2>2, ClaimsAre
    <3> QED
      BY <3>1, <3>2
  <2> QED
    BY <1>2, <2>1, <2>2
<1>6. Wrote(w, name, value, Rest(Clear, i + 1)) /\ TypesOK'
  BY <1>3, <1>4, <1>5, WriteIs
<1>7. Delivery' = "none"
  BY <1>1, <1>2, <1>5, <1>6, NamesAre DEF ClearedTo, Wrote, Delivery
<1>8. PendingIsComplete'
  BY <1>7 DEF PendingIsComplete, Delivery
<1>9. Delivery \in Announced => Done(Pending)
  BY <1>1, <1>2 DEF ClearedTo, Announced
<1>10. OpenMoves
  BY <1>6, <1>7, <1>9, WroteQuietly DEF Announced
<1>11. WorkerOK(w)'
  <2>1. workers'[w].todo = Rest(Clear, i + 1) /\ workers'[w].step = workers[w].step
    BY <1>6 DEF Wrote
  <2>2. ClearedTo(i + 1)'
    BY <1>2, <1>7 DEF ClearedTo
  <2>3. ASSUME i + 1 \in 1..n PROVE ClearOK(w, n)'
    BY <2>1, <2>2, <2>3 DEF ClearOK
  <2>4. i + 1 \in 1..n \/ (n = 7 /\ i = 7)
    BY <1>2
  <2>5. i = 7 => IdleOK(w)'
    BY <2>1, RestIsOver DEF IdleOK
  <2> QED
    BY <2>1, <2>3, <2>4, <2>5 DEF WorkerOK
<1> QED
  BY <1>6, <1>8, <1>10, <1>11, WroteKeeps

\* A write of a prepared digest.
LEMMA WriteAnnounce ==
    ASSUME DigestInv, BridgeKnown, NEW w \in Claims, WriteCursor(w), AnnounceOK(w),
           workers[w].step = "announce"
    PROVE  DigestInv' /\ Rests
<1> PICK d : d = DigestOf(w)
  OBVIOUS
<1>1. lease = w /\ Knows(w) /\ d \in Cuts /\ d \in 0..MaxDigests
  BY CutsAre, ClaimsAre DEF AnnounceOK, WriteCursor, Holds, Knows, DigestInv, Digests
<1>2. PICK i \in 1..8 : workers[w].todo = Rest(Prepare(d), i) /\ PreparedTo(d, i)
  BY <1>1 DEF AnnounceOK
<1>3. i \in 1..7
  <2>1. i \in 1..7 \/ i = 8
    OBVIOUS
  <2>2. List(Prepare(d), 7)
    BY <1>1, WritesAre
  <2> QED
    BY <1>2, <2>1, <2>2, SevenWrites DEF WriteCursor
<1>4. Head(workers[w].todo) = Prepare(d)[i] /\ Tail(workers[w].todo) = Rest(Prepare(d), i + 1)
  <2>1. List(Prepare(d), 7)
    BY <1>1, WritesAre
  <2>2. /\ Head(Rest(Prepare(d), i)) = Prepare(d)[i]
        /\ Tail(Rest(Prepare(d), i)) = Rest(Prepare(d), i + 1)
    BY <1>3, <2>1, SevenWrites, Zenon
  <2> QED
    BY <1>2, <2>2
<1>5. Rest(Prepare(d), i + 1) \in Writes
  BY <1>4, WorkersAre, HeadTailProperties DEF WriteCursor, IsWorker, Writes
<1>6. PICK name, value :
         /\ Prepare(d)[i] = <<name, value>> /\ name = Prepare(d)[i][1] /\ value = Prepare(d)[i][2]
         /\ \/ name = "delivery_state" /\ value \in States
            \/ name \in Parts /\ value \in 0..MaxDigests
         /\ i = 7 => name = "delivery_state" /\ value = "prepared"
         /\ i # 7 => name \in Parts
  <2>1. CASE i \in 1..5
    <3>1. PICK name \in TextParts : Prepare(d)[i] = <<name, d>>
      BY <2>1, PrepareIs
    <3>2. name \in Parts /\ i # 7
      BY <2>1 DEF TextParts
    <3>3. <<name, d>>[1] = name /\ <<name, d>>[2] = d
      OBVIOUS
    <3> QED
      BY <1>1, <3>1, <3>2, <3>3
  <2>2. CASE i = 6
    <3>1. Prepare(d)[i] = <<"notification_message_id", 0>> /\ 0 \in 0..MaxDigests
      BY <2>2, PrepareIs, ClaimsAre
    <3>2. "notification_message_id" \in Parts /\ i # 7
      BY <2>2, NamesAre
    <3> QED
      BY <3>1, <3>2
  <2>3. CASE i = 7
    BY <2>3, PrepareIs DEF States
  <2> QED
    BY <1>3, <2>1, <2>2, <2>3
<1>7. Wrote(w, name, value, Rest(Prepare(d), i + 1)) /\ TypesOK'
  BY <1>4, <1>5, <1>6, WriteIs
<1>8. Delivery = "none"
  BY <1>2, <1>3, PrepareIs DEF PreparedTo
<1>9. Delivery' = IF i = 7 THEN "prepared" ELSE "none"
  BY <1>6, <1>7, <1>8, NamesAre DEF Wrote, Delivery
<1>10. ASSUME NEW k \in 1..7, k <= i PROVE cursors'[Prepare(d)[k][1]] = Prepare(d)[k][2]
  <2>1. CASE k = i
    BY <1>6, <1>7, <2>1 DEF Wrote
  <2>2. CASE k # i
    <3>1. Prepare(d)[k][1] # name
      BY <1>3, <1>6, <2>2, PrepareIs
    <3>2. Prepare(d)[k][1] \in ToSet(Names)
      <4>1. k \in 1..5 \/ k = 6
        BY <1>3, <1>10, <2>2
      <4>2. k \in 1..5 => Prepare(d)[k][1] \in Parts
        BY PrepareIs DEF TextParts
      <4>3. k = 6 => Prepare(d)[k][1] \in Parts
        BY PrepareIs, NamesAre
      <4> QED
        BY <4>1, <4>2, <4>3, NamesAre
    <3>3. cursors[Prepare(d)[k][1]] = Prepare(d)[k][2]
      BY <1>2, <1>3, <1>10, <2>2 DEF PreparedTo
    <3> QED
      BY <1>7, <3>1, <3>2, <3>3 DEF Wrote
  <2> QED
    BY <2>1, <2>2
<1>11. i = 7 => Whole(cursors', d)
  <2> SUFFICES ASSUME i = 7, NEW name1 \in TextParts PROVE cursors'[name1] = d
    BY DEF Whole
  <2>1. PICK k \in 1..5 : Prepare(d)[k][1] = name1
    BY PrepareIs
  <2>2. Prepare(d)[k][2] = d
    <3>1. Prepare(d)[k] = <<Prepare(d)[k][1], d>>
      BY PrepareIs
    <3> QED
      BY <3>1
  <2> QED
    BY <1>10, <2>1, <2>2
<1>12. PendingIsComplete'
  <2>1. CASE i = 7
    BY <1>1, <1>7, <1>9, <1>11, <2>1 DEF PendingIsComplete, Delivery, Whole, TextParts, Cuts, Wrote
  <2>2. CASE i # 7
    BY <1>9, <2>2 DEF PendingIsComplete, Delivery
  <2> QED
    BY <2>1, <2>2
<1>13. OpenMoves
  BY <1>7, <1>8, <1>9, WroteQuietly DEF Announced
<1>14. WorkerOK(w)'
  <2>1. /\ workers'[w].todo = Rest(Prepare(d), i + 1) /\ workers'[w].step = "announce"
        /\ DigestOf(w)' = d /\ Knows(w)'
    BY <1>1, <1>7 DEF Wrote, Knows
  <2>2. Next1(d)'
    BY <1>2, <1>7 DEF PreparedTo, Next1, Wrote
  <2>3. i + 1 \in 1..8 /\ (i + 1 <= 7 => Delivery' = "none")
    BY <1>3, <1>9
  <2>4. \A k \in 1..(i + 1 - 1) : cursors'[Prepare(d)[k][1]] = Prepare(d)[k][2]
    BY <1>3, <1>10
  <2>5. Len(Prepare(d)) = 7
    BY PrepareIs
  <2>6. PreparedTo(d, i + 1)'
    BY <2>2, <2>3, <2>4, <2>5 DEF PreparedTo
  <2>7. AnnounceOK(w)'
    BY <2>1, <2>3, <2>6 DEF AnnounceOK
  <2> QED
    BY <2>1, <2>7 DEF WorkerOK
<1> QED
  BY <1>7, <1>12, <1>13, <1>14, WroteKeeps

\* A list of one write of the state.
LEMMA StateIs ==
    ASSUME DigestInv, NEW w \in Claims, WriteCursor(w), NEW s \in States, workers[w].todo = State(s)
    PROVE  /\ Wrote(w, "delivery_state", s, <<>>) /\ TypesOK' /\ Delivery' = s
           /\ \A n \in Parts : cursors'[n] = cursors[n]
           /\ Pending' = Pending
<1>1. Wrote(w, "delivery_state", s, <<>>) /\ TypesOK'
  BY OneWrite, WritesAre, WriteIs
<1>2. Delivery' = s /\ \A n \in Parts : cursors'[n] = cursors[n]
  BY <1>1, NamesAre DEF Wrote, Delivery
<1> QED
  BY <1>1, <1>2, NamesAre DEF Pending

\* The write that announces a digest.
LEMMA WriteSending ==
    ASSUME DigestInv, BridgeKnown, NEW w \in Claims, WriteCursor(w), ApplyOK(w),
           workers[w].step = "apply"
    PROVE  DigestInv' /\ Rests
<1> PICK d : d = DigestOf(w)
  OBVIOUS
<1>1. /\ lease = w /\ Knows(w) /\ d \in Cuts /\ d \in Digests /\ workers[w].todo = State("sending")
      /\ Shows(w) /\ Delivery = "prepared" /\ Next1(d)
  BY CutsAre DEF ApplyOK, WriteCursor, Holds, Knows, DigestInv
<1>2. /\ Wrote(w, "delivery_state", "sending", <<>>) /\ TypesOK' /\ Delivery' = "sending"
      /\ \A n \in Parts : cursors'[n] = cursors[n]
      /\ Pending' = Pending
  BY <1>1, StateIs DEF States
<1>3. Pending = d
  BY <1>1, NamesAre DEF Shows, Whole, Pending
<1>4. Whole(cursors', d)
  BY <1>1, <1>2 DEF Shows, Whole, TextParts
<1>5. PendingIsComplete'
  BY <1>1, <1>2, <1>4 DEF PendingIsComplete, Delivery, Whole, TextParts, Cuts, Wrote
<1>6. ASSUME feed.recuts PROVE feed.cut[d].from = feed.acked + 1 /\ chat[d] = 0
  <2>1. feed.cut[d].from = feed.acked + 1
    BY <1>1, <1>6 DEF Next1
  <2>2. ~Open(d)
    BY <1>1, <1>6 DEF Open, Announced
  <2>3. /\ feed.acked \in Nat /\ feed.cut[d].through \in Nat
        /\ feed.cut[d].from <= feed.cut[d].through
    BY <1>1, CutsAre DEF DigestInv
  <2>4. ~Done(d)
    BY <2>1, <2>3 DEF Done
  <2>5. Clean(d)
    BY <1>1, <2>2, <2>4 DEF DigestInv, Placed, Idle
  <2> QED
    BY <1>1, <2>1, <2>5 DEF DigestInv, BridgeOK
<1>7. \A v \in Claims : v # w => workers'[v] = workers[v]
  BY <1>2, WorkersAre DEF Wrote
<1>8. ASSUME feed.recuts PROVE OpenMoves
  <2>1. \A e \in Cuts : ~Open(e) /\ (Open(e)' <=> e = d)
    BY <1>1, <1>2, <1>3, <1>8 DEF Open, Announced, Wrote
  <2>2. \A e \in Cuts : e # d /\ Idle(e) => Idle(e)'
    BY <1>2, <1>7 DEF Idle, Clean, At, DigestOf, Wrote
  <2> QED
    BY <1>6, <1>8, <2>1, <2>2 DEF OpenMoves
<1>9. ASSUME ~feed.recuts PROVE OpenMoves
  BY <1>2, <1>9 DEF OpenMoves, Open, Wrote
<1>10. WorkerOK(w)'
  <2>1. workers'[w].todo = <<>> /\ workers'[w].step = "apply" /\ DigestOf(w)' = d
    BY <1>2 DEF Wrote
  <2>2. Knows(w)' /\ Shows(w)'
    BY <1>1, <1>2, <1>4, <2>1 DEF Knows, Shows, Wrote, Whole
  <2>3. ApplyOK(w)'
    BY <1>2, <2>1, <2>2 DEF ApplyOK
  <2> QED
    BY <2>1, <2>3 DEF WorkerOK
<1> QED
  BY <1>2, <1>5, <1>8, <1>9, <1>10, WroteKeeps

\* A write of a known message.
LEMMA WriteMessage ==
    ASSUME DigestInv, BridgeKnown, NEW w \in Claims, WriteCursor(w), ReadbackOK(w),
           workers[w].step = "readback"
    PROVE  DigestInv' /\ Rests
<1> PICK d : d = DigestOf(w)
  OBVIOUS
<1>1. lease = w /\ Knows(w) /\ Confirmed(w) /\ d \in Cuts /\ d \in 0..MaxDigests
  BY CutsAre, ClaimsAre DEF ReadbackOK, WriteCursor, Holds, Knows, DigestInv, Digests
<1>2. PICK i \in 1..3 : /\ workers[w].todo = Rest(MessageKnown(d), i)
                        /\ i = 1 => Shows(w) /\ Delivery = "sending"
                        /\ i > 1 => Recorded(w)
  BY <1>1 DEF ReadbackOK
<1>3. List(MessageKnown(d), 2)
  BY <1>1, WritesAre
<1>4. i \in 1..2
  <2>1. i \in 1..2 \/ i = 3
    OBVIOUS
  <2> QED
    BY <1>2, <1>3, <2>1, TwoWrites DEF WriteCursor
<1>5. /\ Head(workers[w].todo) = MessageKnown(d)[i]
      /\ Tail(workers[w].todo) = Rest(MessageKnown(d), i + 1)
  <2>1. /\ Head(Rest(MessageKnown(d), i)) = MessageKnown(d)[i]
        /\ Tail(Rest(MessageKnown(d), i)) = Rest(MessageKnown(d), i + 1)
    BY <1>3, <1>4, TwoWrites, Zenon
  <2> QED
    BY <1>2, <2>1
<1>6. Rest(MessageKnown(d), i + 1) \in Writes
  BY <1>5, WorkersAre, HeadTailProperties DEF WriteCursor, IsWorker, Writes
<1>7. Shows(w) /\ Delivery \in Announced /\ Pending = d
  BY <1>2, <1>4, NamesAre DEF Recorded, Announced, Shows, Whole, Pending
<1>8. "notification_message_id" \in Parts /\ "notification_message_id" \notin TextParts
  BY NamesAre
<1>9. CASE i = 1
  <2>1. /\ Wrote(w, "notification_message_id", d, Rest(MessageKnown(d), 2)) /\ TypesOK'
    BY <1>1, <1>5, <1>6, <1>8, <1>9, MessageIs, WriteIs
  <2>2. Delivery' = Delivery /\ \A n \in TextParts : cursors'[n] = cursors[n]
    BY <1>8, <2>1, NamesAre DEF Wrote, Delivery, TextParts
  <2>3. Pending' = Pending /\ Whole(cursors', d) /\ cursors'["notification_message_id"] = d
    BY <1>7, <2>1, <2>2, NamesAre DEF Pending, Whole, Shows, Wrote
  <2>4. PendingIsComplete'
    BY <1>1, <1>2, <1>9, <2>1, <2>2, <2>3
       DEF PendingIsComplete, Delivery, Whole, TextParts, Cuts, Wrote
  <2>5. OpenMoves
    BY <1>7, <2>1, <2>2, <2>3, WroteOpenly
  <2>6. WorkerOK(w)'
    <3>1. /\ workers'[w].todo = Rest(MessageKnown(d), 2) /\ workers'[w].step = "readback"
          /\ DigestOf(w)' = d /\ Knows(w)' /\ Confirmed(w)'
      BY <1>1, <2>1 DEF Wrote, Knows, Confirmed
    <3>2. Recorded(w)'
      BY <1>7, <2>2, <2>3, <3>1 DEF Recorded, Shows, Whole
    <3>3. ReadbackOK(w)'
      BY <3>1, <3>2 DEF ReadbackOK
    <3> QED
      BY <3>1, <3>3 DEF WorkerOK
  <2> QED
    BY <2>1, <2>4, <2>5, <2>6, WroteKeeps
<1>10. CASE i = 2
  <2>1. /\ Wrote(w, "delivery_state", "sent_unverified", Rest(MessageKnown(d), 3)) /\ TypesOK'
    <3>1. Head(workers[w].todo) = <<"delivery_state", "sent_unverified">>
      BY <1>5, <1>10, MessageIs
    <3>2. Tail(workers[w].todo) = Rest(MessageKnown(d), 3) /\ Rest(MessageKnown(d), 3) \in Writes
      BY <1>5, <1>6, <1>10
    <3>3. "sent_unverified" \in States
      BY DEF States
    <3> QED
      BY <3>1, <3>2, <3>3, WriteIs
  <2>2. Delivery' = "sent_unverified" /\ \A n \in Parts : cursors'[n] = cursors[n]
    BY <2>1, NamesAre DEF Wrote, Delivery
  <2>3. /\ Pending' = Pending /\ Whole(cursors', d) /\ cursors'["notification_message_id"] = d
    BY <1>2, <1>7, <1>8, <1>10, <2>2, NamesAre DEF Pending, Whole, Shows, Recorded, TextParts
  <2>4. PendingIsComplete'
    BY <1>1, <2>1, <2>2, <2>3
       DEF PendingIsComplete, Delivery, Whole, TextParts, Cuts, Wrote, Confirmed
  <2>5. OpenMoves
    BY <1>7, <2>1, <2>2, <2>3, WroteOpenly DEF Announced
  <2>6. WorkerOK(w)'
    <3>1. /\ workers'[w].todo = Rest(MessageKnown(d), 3) /\ workers'[w].step = "readback"
          /\ DigestOf(w)' = d /\ Knows(w)' /\ Confirmed(w)'
      BY <1>1, <2>1 DEF Wrote, Knows, Confirmed
    <3>2. Recorded(w)'
      BY <2>2, <2>3, <3>1 DEF Recorded, Shows, Whole, Announced
    <3>3. ReadbackOK(w)'
      BY <3>1, <3>2 DEF ReadbackOK
    <3> QED
      BY <3>1, <3>3 DEF WorkerOK
  <2> QED
    BY <2>1, <2>4, <2>5, <2>6, WroteKeeps
<1> QED
  BY <1>4, <1>9, <1>10

\* The write that says a message was delivered.
LEMMA WriteUnacked ==
    ASSUME DigestInv, BridgeKnown, NEW w \in Claims, WriteCursor(w), AckOK(w),
           workers[w].step = "ack"
    PROVE  DigestInv' /\ Rests
<1> PICK d : d = DigestOf(w)
  OBVIOUS
<1>1. /\ lease = w /\ Knows(w) /\ Confirmed(w) /\ d \in Cuts /\ Recorded(w)
      /\ workers[w].todo = State("delivered_unacked")
  BY DEF AckOK, WriteCursor, Holds, Knows
<1>2. /\ Wrote(w, "delivery_state", "delivered_unacked", <<>>) /\ TypesOK'
      /\ Delivery' = "delivered_unacked" /\ Pending' = Pending
      /\ \A n \in Parts : cursors'[n] = cursors[n]
  BY <1>1, StateIs DEF States
<1>3. Delivery \in Announced
  BY <1>1 DEF Recorded
<1>4. Whole(cursors', d) /\ cursors'["notification_message_id"] = d
  BY <1>1, <1>2, NamesAre DEF Recorded, Shows, Whole, TextParts
<1>5. PendingIsComplete'
  BY <1>1, <1>2, <1>4
     DEF PendingIsComplete, Delivery, Whole, TextParts, Cuts, Wrote, Confirmed
<1>6. OpenMoves
  BY <1>2, <1>3, WroteOpenly DEF Announced
<1>7. WorkerOK(w)'
  <2>1. /\ workers'[w].todo = <<>> /\ workers'[w].step = "ack"
        /\ DigestOf(w)' = d /\ Knows(w)' /\ Confirmed(w)'
    BY <1>1, <1>2 DEF Wrote, Knows, Confirmed
  <2>2. Recorded(w)'
    BY <1>2, <1>4, <2>1 DEF Recorded, Shows, Whole, Announced
  <2>3. AckOK(w)'
    BY <2>1, <2>2 DEF AckOK
  <2> QED
    BY <2>1, <2>3 DEF WorkerOK
<1> QED
  BY <1>2, <1>5, <1>6, <1>7, WroteKeeps

\* The write that takes an announcement back.
LEMMA WriteTakenBack ==
    ASSUME DigestInv, BridgeKnown, NEW w \in Claims, WriteCursor(w), TakenBackOK(w),
           workers[w].step = "done"
    PROVE  DigestInv' /\ Rests
<1>1. /\ lease = w /\ Delivery = "sending" /\ Whole(cursors, Pending) /\ Pending \in Cuts
      /\ feed.recuts => Idle(Pending)
      /\ workers[w].todo = State("prepared")
  BY PendingIsCut DEF TakenBackOK, WriteCursor, Holds, DigestInv
<1>2. /\ Wrote(w, "delivery_state", "prepared", <<>>) /\ TypesOK'
      /\ Delivery' = "prepared" /\ Pending' = Pending
      /\ \A n \in Parts : cursors'[n] = cursors[n]
  BY <1>1, StateIs DEF States
<1>3. PICK d \in Cuts : d = Pending
  BY <1>1
<1>4. Whole(cursors', d)
  BY <1>1, <1>2, <1>3 DEF Whole, TextParts
<1>5. PendingIsComplete'
  BY <1>2, <1>3, <1>4 DEF PendingIsComplete, Delivery, Whole, TextParts, Cuts, Wrote
<1>6. \A e \in Cuts : Idle(e) => Idle(e)'
  BY <1>2, WroteIdle
<1>7. ASSUME feed.recuts PROVE OpenMoves
  <2>1. \A e \in Cuts : ~Open(e)' /\ (Open(e) => e = d)
    BY <1>2, <1>3, <1>7 DEF Open, Announced, Wrote
  <2>2. Idle(d)
    BY <1>1, <1>3, <1>7
  <2> QED
    BY <1>6, <1>7, <2>1, <2>2 DEF OpenMoves
<1>8. ASSUME ~feed.recuts PROVE OpenMoves
  BY <1>2, <1>8 DEF OpenMoves, Open, Wrote
<1>9. WorkerOK(w)'
  BY <1>2 DEF Wrote, WorkerOK, IdleOK
<1> QED
  BY <1>2, <1>5, <1>7, <1>8, <1>9, WroteKeeps

\* Every write of a cursor.
LEMMA WriteCursorKeeps ==
    ASSUME DigestInv, BridgeKnown, NEW w \in Claims, WriteCursor(w)
    PROVE  DigestInv' /\ Rests
<1>1. workers[w].todo # <<>> /\ WorkerOK(w) /\ workers[w].step \in Steps
  BY WorkersAre DEF WriteCursor, IsWorker
<1>2. CASE workers[w].step = "read"
  <2>1. ClearOK(w, 8)
    BY <1>1, <1>2 DEF WorkerOK
  <2> QED
    BY <1>2, <2>1, WriteClear
<1>3. CASE workers[w].step = "announce"
  <2>1. AnnounceOK(w)
    BY <1>1, <1>3 DEF WorkerOK
  <2> QED
    BY <1>3, <2>1, WriteAnnounce
<1>4. CASE workers[w].step = "apply"
  <2>1. ApplyOK(w)
    BY <1>1, <1>4 DEF WorkerOK
  <2> QED
    BY <1>4, <2>1, WriteSending
<1>5. CASE workers[w].step = "readback"
  <2>1. ReadbackOK(w)
    BY <1>1, <1>5 DEF WorkerOK
  <2> QED
    BY <1>5, <2>1, WriteMessage
<1>6. CASE workers[w].step = "ack"
  <2>1. AckOK(w)
    BY <1>1, <1>6 DEF WorkerOK
  <2> QED
    BY <1>6, <2>1, WriteUnacked
<1>7. CASE workers[w].step = "done"
  <2>1. ClearOK(w, 7) \/ TakenBackOK(w)
    BY <1>1, <1>7 DEF WorkerOK, IdleOK
  <2> QED
    BY <1>7, <2>1, WriteClear, WriteTakenBack
<1>8. workers[w].step \in {"read", "announce", "apply", "readback", "ack", "done"}
  BY <1>1 DEF WorkerOK, IdleOK, LookupOK, ApplyingOK, AckingOK, Steps
<1> QED
  BY <1>2, <1>3, <1>4, <1>5, <1>6, <1>7, <1>8

-----------------------------------------------------------------------------
(* The other steps *)

\* Without a lease nobody relies on the cursors.
LEMMA LeaseEndsKeeps ==
    ASSUME DigestInv, BridgeKnown, LeaseEnds
    PROVE  DigestInv' /\ Rests
<1> PICK w \in Claims : TRUE
  BY ClaimsAre DEF Claims
<1>1. /\ lease' = 0 /\ UNCHANGED <<feed, cursors, workers, requests, ledger, chat>>
  BY DEF LeaseEnds, bridgeVars
<1> PICK x : x = workers[w]
  OBVIOUS
<1>2. workers' = [workers EXCEPT ![w] = x] /\ IsWorker(x)
  BY <1>1, WorkersAre
<1>3. TypesOK'
  BY <1>1, <1>2, NoAcks, TypesKept DEF DigestInv, FeedOK
<1>4. PendingIsComplete' /\ IdleKept
  BY <1>1 DEF DigestInv, PendingIsComplete, IdleKept, Idle, Clean, At, DigestOf
<1>5. FeedOK' /\ FeedGrows /\ ChatGrows
  BY <1>1, CutsAre DEF DigestInv, FeedOK, FeedGrows, ChatGrows, Cuts
<1>6. WorkerOK(w)'
  <2>1. lease' # w /\ workers'[w] = workers[w] /\ WorkerOK(w)
    BY <1>1, WorkersAre DEF Claims
  <2> QED
    BY <1>3, <1>5, <2>1, WorkerKeeps DEF DigestInv
<1>7. OpenMoves
  BY <1>1, <1>4, SameCursors
<1>8. \A d \in Cuts : Author(w, d)' => Author(w, d)
  BY <1>1 DEF Author, DigestOf
<1> QED
  BY <1>1, <1>2, <1>3, <1>4, <1>6, <1>7, <1>8, NoAcks, OwnStep

\* A job that is created again over a feed that keeps its digests finds the same one there.
LEMMA RecreateKeeps ==
    ASSUME DigestInv, BridgeKnown, Recreate
    PROVE  DigestInv' /\ Rests
<1> PICK w \in Claims : TRUE
  BY ClaimsAre DEF Claims
<1>1. /\ ~feed.recuts /\ lease = 0 /\ cursors' = NoCursors
      /\ UNCHANGED <<feed, lease, workers, requests, ledger, chat>>
  BY DEF Recreate, bridgeVars
<1> PICK x : x = workers[w]
  OBVIOUS
<1>2. workers' = [workers EXCEPT ![w] = x] /\ IsWorker(x)
  BY <1>1, WorkersAre
<1>3. /\ NoCursors \in [ToSet(Names) -> Values] /\ NoCursors["delivery_state"] = "none"
      /\ \A name \in Parts : NoCursors[name] \in 0..MaxDigests
  BY NamesAre, ClaimsAre DEF NoCursors, Values, States
<1>4. TypesOK'
  <2>1. \A v \in Claims : IsWorker(workers[v])'
    BY <1>1 DEF DigestInv, TypesOK, IsWorker
  <2> QED
    BY <1>1, <1>3, <2>1 DEF DigestInv, TypesOK, Delivery, States, FeedTypes
<1>5. PendingIsComplete'
  BY <1>1, <1>3 DEF PendingIsComplete
<1>6. FeedOK' /\ FeedGrows /\ ChatGrows
  BY <1>1, CutsAre DEF DigestInv, FeedOK, FeedGrows, ChatGrows, Cuts
<1>7. WorkerOK(w)'
  <2>1. lease' # w /\ workers'[w] = workers[w] /\ WorkerOK(w)
    BY <1>1, WorkersAre DEF Claims
  <2> QED
    BY <1>4, <1>6, <2>1, WorkerKeeps DEF DigestInv
<1>8. OpenMoves
  BY <1>1 DEF OpenMoves, Open
<1>9. \A d \in Cuts : Author(w, d)' => Author(w, d)
  BY <1>1 DEF Author, DigestOf
<1> QED
  BY <1>1, <1>2, <1>4, <1>5, <1>7, <1>8, <1>9, NoAcks, OwnStep

\* A digest that is announced is asked for.
LEMMA ApplyKeeps ==
    ASSUME DigestInv, BridgeKnown, NEW w \in Claims, Apply(w)
    PROVE  DigestInv' /\ Rests
<1> PICK d : d = DigestOf(w)
  OBVIOUS
<1>1. /\ UNCHANGED <<feed, cursors, lease, chat>> /\ Go(w, "applying", <<>>)
      /\ requests' = requests \cup {[key |-> d, token |-> w, stage |-> "requested"]}
      /\ workers[w].step = "apply" /\ workers[w].todo = <<>>
  BY DEF Apply, At, Bridge!Request, DigestOf
<1>2. PICK x : IsNow(w, x, "applying", <<>>) /\ x.seen = workers[w].seen
  BY <1>1, WritesAre, GoIs DEF Steps
<1>3. /\ workers'[w] = x /\ DigestOf(w)' = d /\ Cuts' = Cuts /\ Delivery' = Delivery
      /\ \A v \in Claims \ {w} : workers'[v] = workers[v]
  BY <1>1, <1>2, NowIs, WorkersAre DEF IsNow, DigestOf, Cuts, Delivery
<1>4. Knows(w) /\ (lease = w => Shows(w) /\ Delivery = "sending")
  BY <1>1, WorkersAre, OneWrite DEF WorkerOK, ApplyOK
<1>5. WorkerOK(w)'
  <2>1. workers'[w].step = "applying" /\ workers'[w].todo = <<>>
    BY <1>2, <1>3 DEF IsNow
  <2>2. ApplyingOK(w)'
    BY <1>1, <1>2, <1>3, <1>4, <2>1 DEF ApplyingOK, Knows, Shows, Whole
  <2> QED
    BY <2>1, <2>2 DEF WorkerOK
<1>6. TypesOK'
  BY <1>1, <1>2, NoAcks, TypesKept DEF IsNow
<1>7. PendingIsComplete'
  BY <1>1 DEF DigestInv, PendingIsComplete
<1>8. IdleKept
  <2> SUFFICES ASSUME NEW e \in Cuts, Idle(e) PROVE Idle(e)'
    BY DEF IdleKept
  <2>1. e # d
    BY <1>1 DEF Idle, At
  <2>2. Clean(e)'
    BY <1>1, <2>1 DEF Clean, Idle
  <2>3. \A v \in Claims : ~(At(v, "apply")' /\ DigestOf(v)' = e)
    BY <1>2, <1>3, <2>1 DEF Idle, At, DigestOf, IsNow
  <2> QED
    BY <2>2, <2>3 DEF Idle
<1>9. OpenMoves
  BY <1>1, <1>8, SameCursors
<1>10. \A e \in Cuts : Author(w, e)' => Author(w, e)
  BY <1>1, <1>3 DEF Author, DigestOf
<1>11. \A r \in requests' \ requests : At(w, "apply") /\ r.key = DigestOf(w) /\ r.token = w
  BY <1>1 DEF At
<1> QED
  BY <1>1, <1>2, <1>5, <1>6, <1>7, <1>8, <1>9, <1>10, <1>11, NoAcks, OwnStep DEF IsNow

\* What a run that reads starts from: the holder of the lease, with clean cursors.
LEMMA ReadingIs ==
    ASSUME DigestInv, BridgeKnown, NEW w \in Claims, ReadAndSummarize(w)
    PROVE  \E d \in Digests, t \in 1..MaxEvents, c \in Seen :
             /\ Cut(d, t) /\ feed.high > feed.acked /\ lease = w /\ Delivery = "none"
             /\ UNCHANGED <<cursors, lease, requests, ledger, chat>>
             /\ Whole(c, d)
             /\ \E x : IsNow(w, x, "announce", Prepare(d)) /\ x.seen = c
<1> PICK d \in Digests, t \in 1..MaxEvents :
        /\ Cut(d, t)
        /\ workers' = [workers EXCEPT
              ![w].step = "announce", ![w].todo = Prepare(d), ![w].resuming = FALSE,
              ![w].seen = [name \in Parts |-> IF name = "notification_message_id" THEN 0 ELSE d]]
  BY DEF ReadAndSummarize
<1> PICK c : c = [name \in Parts |-> IF name = "notification_message_id" THEN 0 ELSE d]
  OBVIOUS
<1> PICK x : x = [workers[w] EXCEPT !.step = "announce", !.todo = Prepare(d), !.resuming = FALSE,
                                   !.seen = c]
  OBVIOUS
<1>1. d \in 0..MaxDigests /\ 0 \in 0..MaxDigests
  BY ClaimsAre DEF Digests
<1>2. c \in Seen /\ Whole(c, d)
  BY <1>1 DEF Seen, Values, Whole, TextParts
<1>3. workers' = [workers EXCEPT ![w] = x]
  BY WorkersAre
<1>4. Prepare(d) \in Writes
  BY <1>1, WritesAre
<1>5. IsWorker(x) /\ x.step = "announce" /\ x.todo = Prepare(d) /\ x.seen = c
  BY <1>2, <1>4, WorkersAre DEF IsWorker, Steps
<1>6. /\ feed.high > feed.acked /\ lease = w /\ UNCHANGED <<cursors, lease, requests, ledger, chat>>
      /\ workers[w].step = "read" /\ workers[w].todo = <<>>
  BY DEF ReadAndSummarize, At, Holds, bridgeVars
<1>7. Delivery = "none"
  <2>1. ClearOK(w, 8)
    BY <1>6, WorkersAre DEF WorkerOK
  <2>2. PICK i \in 1..8 : workers[w].todo = Rest(Clear, i) /\ ClearedTo(i)
    BY <1>6, <2>1 DEF ClearOK
  <2>3. i = 8 \/ i \in 1..7
    OBVIOUS
  <2> QED
    BY <1>6, <2>2, <2>3, RestIsOver DEF ClearedTo
<1>8. IsNow(w, x, "announce", Prepare(d)) /\ x.seen = c
  BY <1>3, <1>5 DEF IsNow
<1>9. Cut(d, t)
  OBVIOUS
<1> QED
  BY <1>2, <1>6, <1>7, <1>8, <1>9, Zenon

\* The worker that read has a list to write.
LEMMA ReaderIs ==
    ASSUME DigestInv, NEW w \in Claims, NEW d \in Digests, NEW c \in Seen, NEW x,
           IsNow(w, x, "announce", Prepare(d)), x.seen = c, Whole(c, d), d \in Cuts',
           UNCHANGED cursors, Delivery = "none",
           feed'.recuts => feed'.cut[d].from = feed'.acked + 1
    PROVE  WorkerOK(w)' /\ DigestOf(w)' = d
<1>1. "pending_digest_id" \in TextParts
  BY NamesAre
<1>2. /\ workers'[w] = x /\ DigestOf(w)' = d /\ workers'[w].step = "announce" /\ workers'[w].seen = c
      /\ workers'[w].todo = Prepare(d)
  BY <1>1, NowIs DEF IsNow, Whole
<1>3. Knows(w)'
  BY <1>2 DEF Knows, Whole
<1>4. Prepare(d) = Rest(Prepare(d), 1)
  BY RestIsOver, ClaimsAre DEF Digests
<1>5. PreparedTo(d, 1)'
  BY PrepareIs DEF PreparedTo, Next1, Delivery
<1>6. AnnounceOK(w)'
  BY <1>2, <1>3, <1>4, <1>5 DEF AnnounceOK
<1> QED
  BY <1>2, <1>6 DEF WorkerOK

\* The feed has kept the digest of this stretch.
LEMMA ReadAgainKeeps ==
    ASSUME DigestInv, BridgeKnown, NEW w \in Claims, NEW d \in Digests, NEW c \in Seen, NEW x,
           ~feed.recuts, d \in Cuts, UNCHANGED <<feed, cursors, lease, requests, ledger, chat>>,
           Delivery = "none", Whole(c, d), IsNow(w, x, "announce", Prepare(d)), x.seen = c
    PROVE  DigestInv' /\ Rests
<1>1. WorkerOK(w)'
  BY ReaderIs DEF Cuts
<1>2. TypesOK'
  BY NoAcks, TypesKept DEF IsNow
<1>3. PendingIsComplete'
  BY DEF DigestInv, PendingIsComplete
<1>4. \A v \in Claims : ~At(v, "apply")' \/ workers'[v] = workers[v]
  BY WorkersAre DEF IsNow, At
<1>5. IdleKept
  BY <1>4 DEF IdleKept, Idle, Clean, At, DigestOf
<1>6. OpenMoves
  BY <1>5, SameCursors
<1> QED
  BY <1>1, <1>2, <1>3, <1>5, <1>6, NoAcks, OwnStep DEF IsNow

\* The feed cuts a digest of all that is unacknowledged up to t.
CutsAnew(d, t) ==
    /\ feed.recuts \/ Unacknowledged = {}
    /\ d = Len(feed.cut) + 1 /\ t \in feed.acked + 1 .. feed.high
    /\ feed' = [feed EXCEPT !.cut = Append(@, [from |-> feed.acked + 1, through |-> t])]

\* The new digest is the next one.
LEMMA CutGrows ==
    ASSUME TypesOK, FeedOK, NEW d \in Digests, NEW t, CutsAnew(d, t)
    PROVE  /\ feed' \in FeedTypes
           /\ Cuts' = Cuts \cup {d} /\ d \notin Cuts /\ Len(feed'.cut) = d
           /\ \A e \in Cuts : feed'.cut[e] = feed.cut[e]
           /\ feed'.cut[d].from = feed.acked + 1 /\ feed'.cut[d].through = t
           /\ feed'.high = feed.high /\ feed'.acked = feed.acked /\ feed'.acks = feed.acks
           /\ feed'.recuts = feed.recuts
<1>1. /\ feed.cut \in Seq([from : Nat, through : Nat]) /\ Len(feed.cut) \in Nat
      /\ Cuts = 1..Len(feed.cut) /\ feed.acked \in Nat /\ feed.high \in Nat
  BY CutsAre
<1> PICK r : r = [from |-> feed.acked + 1, through |-> t]
  OBVIOUS
<1>2. r \in [from : Nat, through : Nat] /\ r.from = feed.acked + 1 /\ r.through = t
  BY <1>1 DEF CutsAnew
<1> PICK s : s = Append(feed.cut, r)
  OBVIOUS
<1>3. /\ s \in Seq([from : Nat, through : Nat]) /\ Len(s) = Len(feed.cut) + 1
      /\ \A e \in 1..Len(feed.cut) : s[e] = feed.cut[e]
      /\ s[Len(feed.cut) + 1] = r
  BY <1>1, <1>2, AppendProperties
<1>4. feed' = [feed EXCEPT !.cut = s]
  BY DEF CutsAnew, TypesOK, FeedTypes
<1>5. /\ feed' \in FeedTypes /\ feed'.cut = s /\ feed'.high = feed.high
      /\ feed'.acked = feed.acked /\ feed'.acks = feed.acks /\ feed'.recuts = feed.recuts
  BY <1>3, <1>4 DEF TypesOK, FeedTypes
<1>6. Cuts' = 1..(Len(feed.cut) + 1)
  BY <1>3, <1>5, LenProperties DEF Cuts
<1> QED
  BY <1>1, <1>2, <1>3, <1>5, <1>6 DEF CutsAnew

\* A new digest has no message, no request and one author.
LEMMA ReadNewKeeps ==
    ASSUME DigestInv, BridgeKnown, NEW w \in Claims, NEW d \in Digests, NEW t, NEW c \in Seen, NEW x,
           CutsAnew(d, t), UNCHANGED <<cursors, lease, requests, ledger, chat>>, lease = w,
           Delivery = "none", Whole(c, d), IsNow(w, x, "announce", Prepare(d)), x.seen = c
    PROVE  DigestInv' /\ Rests
<1>1. /\ feed' \in FeedTypes
      /\ Cuts' = Cuts \cup {d} /\ d \notin Cuts /\ Len(feed'.cut) = d
      /\ \A e \in Cuts : feed'.cut[e] = feed.cut[e]
      /\ feed'.cut[d].from = feed.acked + 1 /\ feed'.cut[d].through = t
      /\ feed'.high = feed.high /\ feed'.acked = feed.acked /\ feed'.acks = feed.acks
      /\ feed'.recuts = feed.recuts
  BY CutGrows DEF DigestInv
<1>2. /\ Cuts = 1..Len(feed.cut) /\ Len(feed.cut) \in Nat /\ Cuts \subseteq Digests
      /\ feed.acked \in Nat /\ feed.high \in Nat /\ feed.recuts \in BOOLEAN
      /\ \A e \in Cuts : /\ feed.cut[e].from \in Nat /\ feed.cut[e].through \in Nat
                         /\ feed.cut[e].from <= feed.cut[e].through
                         /\ feed.cut[e].through <= feed.high /\ 1 <= feed.cut[e].from
  BY CutsAre DEF DigestInv
<1>3. t \in Nat /\ feed.acked + 1 <= t /\ t <= feed.high /\ d = Len(feed.cut) + 1
  BY <1>2 DEF CutsAnew
<1>4. feed.recuts \/ \A e \in Cuts : feed.cut[e].from # feed.acked + 1
  BY DEF CutsAnew, Unacknowledged, Cuts
<1>5. workers'[w] = x /\ \A v \in Claims \ {w} : workers'[v] = workers[v]
  BY DEF DigestInv, TypesOK, IsNow
<1>6. WorkerOK(w)'
  BY <1>1, ReaderIs
<1>7. TypesOK'
  <2>1. ASSUME NEW v \in Claims PROVE IsWorker(workers[v])'
    <3> PICK y : y = workers'[v]
      OBVIOUS
    <3>1. IsWorker(y)
      BY <1>5 DEF DigestInv, TypesOK, IsNow
    <3> QED
      BY <1>1, <3>1 DEF IsWorker
  <2>2. workers' = [v \in Claims |-> workers'[v]]
    BY DEF DigestInv, TypesOK, IsNow
  <2> QED
    BY <1>1, <2>1, <2>2 DEF DigestInv, TypesOK, Delivery
<1>8. FeedOK'
  <2>1. feed'.acked <= feed'.high /\ feed'.high <= MaxEvents /\ Len(feed'.cut) <= MaxDigests
    BY <1>1, <1>2, ClaimsAre DEF DigestInv, FeedOK, Digests
  <2>2. \A e \in feed'.acks : e \in Cuts' /\ chat'[e] = 1
    BY <1>1 DEF DigestInv, FeedOK
  <2>3. ASSUME NEW e \in Cuts'
        PROVE  /\ 1 <= feed'.cut[e].from /\ feed'.cut[e].from <= feed'.cut[e].through
               /\ feed'.cut[e].through <= feed'.high
    <3>1. e \in Cuts \/ e = d
      BY <1>1
    <3>2. CASE e \in Cuts
      BY <1>1, <1>2, <3>2
    <3>3. CASE e = d
      BY <1>1, <1>2, <1>3, <3>3
    <3> QED
      BY <3>1, <3>2, <3>3
  <2> QED
    BY <2>1, <2>2, <2>3 DEF FeedOK
<1>9. PendingIsComplete'
  BY DEF PendingIsComplete, Delivery
<1>10. BridgeOK'
  BY <1>1 DEF DigestInv, BridgeOK, Clean
<1>11. IdleKept
  BY <1>5 DEF IdleKept, Idle, Clean, At, DigestOf, IsNow
<1>12. FeedGrows /\ ChatGrows
  BY <1>1, <1>2 DEF FeedGrows, ChatGrows
<1>13. WorkersOK'
  <2>1. ASSUME NEW v \in Claims, v # w PROVE WorkerOK(v)'
    BY <1>1, <1>5, <1>7, <1>8, <1>11, <1>12, <2>1, WorkerKeeps DEF DigestInv, WorkersOK
  <2> QED
    BY <1>6, <2>1 DEF WorkersOK
<1>14. /\ Clean(d) /\ Clean(d)' /\ chat[d] = 0
       /\ \A v \in Claims : At(v, "apply") => DigestOf(v) # d
  <2>1. \A q \in requests : q.key # d
    BY <1>1 DEF DigestInv, BridgeOK
  <2>2. \A v \in Claims : At(v, "apply") => DigestOf(v) # d
    BY <1>1 DEF DigestInv, WorkersOK, WorkerOK, ApplyOK, Knows, At
  <2>3. Clean(d) /\ Clean(d)'
    BY <2>1 DEF Clean
  <2> QED
    BY <2>2, <2>3 DEF DigestInv, BridgeOK
<1>15. Idle(d)'
  BY <1>5, <1>14 DEF Idle, At, DigestOf, IsNow
<1>16. \A e \in Cuts : Done(e)' <=> Done(e)
  BY <1>1 DEF Done
<1>17. Placed'
  <2>1. CASE feed.recuts
    <3>1. \A e \in Cuts : ~Open(e)
      BY <2>1 DEF Open, Announced
    <3>2. \A e \in Cuts : Done(e)' \/ (feed'.recuts /\ Idle(e)')
      BY <1>1, <1>11, <1>16, <2>1, <3>1 DEF DigestInv, Placed, IdleKept
    <3> QED
      BY <1>1, <1>15, <2>1, <3>2 DEF Placed
  <2>2. CASE ~feed.recuts
    <3>1. Open(d)'
      BY <1>1, <2>2 DEF Open
    <3>2. ASSUME NEW e \in Cuts PROVE Done(e)
      <4>1. Open(e) \/ Done(e)
        BY <2>2 DEF DigestInv, Placed
      <4>2. Open(e) => feed.cut[e].through = feed.acked /\ chat[e] = 1
        BY <1>4, <2>2 DEF DigestInv, OpenNext
      <4> QED
        BY <1>2, <4>1, <4>2 DEF Done
    <3> QED
      BY <1>1, <1>16, <3>1, <3>2 DEF Placed
  <2> QED
    BY <2>1, <2>2
<1>18. \A e \in Cuts' : Open(e)' <=> (~feed.recuts /\ e = d)
  BY <1>1 DEF Open, Delivery, Announced
<1>19. OpenNext'
  BY <1>1, <1>18 DEF OpenNext
<1>20. \A e \in Cuts, n \in 1..MaxEvents : Covers(e, n)' <=> Covers(e, n)
  BY <1>1 DEF Covers
<1>21. \A n \in 1..MaxEvents : ~Covers(d, n)'
  BY <1>14 DEF Covers
<1>22. ASSUME NEW n \in 1..MaxEvents PROVE Reached(n)' <=> Reached(n)
  <2>1. Reached(n)' <=> n <= feed.acked
    BY <1>1, <1>14, <1>18 DEF Reached
  <2>2. ASSUME NEW e \in Cuts, Open(e), n <= feed.cut[e].through PROVE n <= feed.acked
    BY <1>2, <1>4, <2>2 DEF DigestInv, OpenNext, Open, Announced
  <2> QED
    BY <2>1, <2>2 DEF Reached
<1>23. ToldInOrder'
  BY <1>1, <1>20, <1>21, <1>22 DEF DigestInv, ToldInOrder
<1>24. ASSUME feed.recuts PROVE OneAuthor'
  <2>1. ASSUME NEW v \in Claims PROVE Author(v, d)' => v = w
    <3>1. CASE v # w
      <4>1. ~Author(v, d)
        BY <1>1 DEF Author, DigestInv, WorkersOK, WorkerOK, AnnounceOK, ApplyOK, ApplyingOK, Knows
      <4> QED
        BY <1>5, <3>1, <4>1 DEF Author, DigestOf
    <3> QED
      BY <3>1
  <2>2. DigestOf(w)' = d
    BY <1>1, ReaderIs
  <2>3. \A e \in Cuts, v \in Claims : Author(v, e)' => Author(v, e)
    BY <1>1, <1>5, <2>2 DEF Author, DigestOf
  <2>4. \A e \in Cuts', u, v \in Claims : Author(u, e)' /\ Author(v, e)' => u = v
    BY <1>1, <1>24, <2>1, <2>3 DEF DigestInv, OneAuthor
  <2>5. ASSUME NEW q \in requests, NEW k, k = q.key, NEW v \in Claims, Author(v, k)'
        PROVE  v = q.token
    <3>1. k \in Cuts
      BY <2>5 DEF DigestInv, BridgeOK
    <3> QED
      BY <1>24, <2>3, <2>5, <3>1 DEF DigestInv, OneAuthor
  <2>6. \A q \in requests', v \in Claims : Author(v, q.key)' => v = q.token
    BY <2>5 DEF Author, DigestOf
  <2> QED
    BY <1>24, <2>4, <2>6 DEF DigestInv, OneAuthor
<1>25. OneAuthor'
  BY <1>1, <1>24 DEF OneAuthor
<1>26. Rests
  BY <1>1, <1>22 DEF Rests, SameReach
<1> QED
  BY <1>7, <1>8, <1>9, <1>10, <1>13, <1>17, <1>19, <1>23, <1>25, <1>26 DEF DigestInv

\* The run has read the feed.
LEMMA ReadAndSummarizeKeeps ==
    ASSUME DigestInv, BridgeKnown, NEW w \in Claims, ReadAndSummarize(w)
    PROVE  DigestInv' /\ Rests
<1> PICK d \in Digests, t \in 1..MaxEvents, c \in Seen :
        /\ Cut(d, t) /\ feed.high > feed.acked /\ lease = w /\ Delivery = "none"
        /\ UNCHANGED <<cursors, lease, requests, ledger, chat>>
        /\ Whole(c, d)
        /\ \E x : IsNow(w, x, "announce", Prepare(d)) /\ x.seen = c
  BY ReadingIs
<1> PICK x : IsNow(w, x, "announce", Prepare(d)) /\ x.seen = c
  OBVIOUS
<1>1. CASE feed.recuts \/ Unacknowledged = {}
  <2>1. CutsAnew(d, t)
    BY <1>1 DEF Cut, CutsAnew
  <2> QED
    BY <2>1, ReadNewKeeps
<1>2. CASE ~(feed.recuts \/ Unacknowledged = {})
  <2>1. d \in Cuts /\ UNCHANGED feed /\ ~feed.recuts
    BY <1>2 DEF Cut, Unacknowledged, Cuts
  <2> QED
    BY <2>1, ReadAgainKeeps
<1> QED
  BY <1>1, <1>2

-----------------------------------------------------------------------------
(* Steps of the feed and of the bridge *)

\* Workers and cursors stay while the feed or the bridge moves.
LEMMA OthersKeep ==
    ASSUME DigestInv, UNCHANGED <<cursors, lease, workers>>, feed' \in FeedTypes, FeedOK',
           FeedGrows, ChatGrows, \A d \in Digests : Clean(d) => Clean(d)',
           feed'.acked = feed.acked \/ ~feed.recuts \/ Delivery \in Announced
    PROVE  TypesOK' /\ WorkersOK' /\ IdleKept
<1>1. feed.acked \in Nat /\ feed'.acked \in Nat /\ Cuts \subseteq Digests
  BY CutsAre DEF DigestInv, FeedTypes
<1>2. TypesOK'
  <2>1. ASSUME NEW v \in Claims PROVE IsWorker(workers[v])'
    <3>1. IsWorker(workers[v])
      BY DEF DigestInv, TypesOK
    <3> QED
      BY <1>1, <3>1 DEF IsWorker, FeedGrows
  <2> QED
    BY <2>1 DEF DigestInv, TypesOK, Delivery
<1>3. IdleKept
  BY <1>1 DEF IdleKept, Idle, At, DigestOf
<1>4. Undisturbed
  BY <1>3 DEF Undisturbed
<1>5. WorkersOK'
  BY <1>2, <1>4, WorkerKeeps DEF DigestInv, WorkersOK
<1> QED
  BY <1>2, <1>3, <1>5

\* An event is published.
LEMMA PublishKeeps ==
    ASSUME DigestInv, Publish
    PROVE  DigestInv' /\ Publishes
<1>1. feed.high < MaxEvents /\ UNCHANGED <<cursors, lease, workers, requests, ledger, chat>>
  <2>1. MaxKept <= MaxEvents /\ feed.high \in Nat
    BY DigestConstants, CutsAre DEF DigestInv
  <2>2. feed.high < MaxEvents
    BY <2>1, ClaimsAre, DigestConstants DEF Publish
  <2> QED
    BY <2>2 DEF Publish, bridgeVars
<1>2. /\ feed' \in FeedTypes /\ feed'.high = feed.high + 1 /\ feed'.acked = feed.acked
      /\ feed'.cut = feed.cut /\ feed'.acks = feed.acks /\ feed'.recuts = feed.recuts
      /\ feed.high \in Nat /\ Cuts' = Cuts
  <2>1. feed \in FeedTypes /\ feed.high \in Nat
    BY CutsAre DEF DigestInv, TypesOK
  <2> PICK h : h = feed.high + 1
    OBVIOUS
  <2>2. feed' = [feed EXCEPT !.high = h] /\ h \in Nat
    BY <2>1 DEF Publish, FeedTypes
  <2> QED
    BY <2>1, <2>2 DEF FeedTypes, Cuts
<1>3. feed.acked \in Nat /\ \A d \in Cuts : feed.cut[d].through \in Nat
  BY CutsAre DEF DigestInv
<1>4. FeedOK'
  BY <1>1, <1>2, <1>3, ClaimsAre DEF DigestInv, FeedOK
<1>5. \A d \in Digests : Clean(d)' <=> Clean(d)
  BY <1>1 DEF Clean
<1>6. FeedGrows /\ ChatGrows
  BY <1>1, <1>2, <1>3 DEF FeedGrows, ChatGrows
<1>7. TypesOK' /\ WorkersOK' /\ IdleKept
  BY <1>1, <1>2, <1>4, <1>5, <1>6, OthersKeep
<1>8. PendingIsComplete'
  BY <1>1, <1>2 DEF DigestInv, PendingIsComplete
<1>9. BridgeOK'
  BY <1>1, <1>2, <1>5 DEF DigestInv, BridgeOK
<1>10. \A d \in Cuts : (Open(d)' <=> Open(d)) /\ (Done(d)' <=> Done(d))
  BY <1>1, <1>2 DEF Open, Done, Delivery, Pending
<1>11. Placed'
  BY <1>2, <1>7, <1>10 DEF DigestInv, Placed, IdleKept
<1>12. OpenNext'
  BY <1>1, <1>2, <1>10 DEF DigestInv, OpenNext
<1>13. \A d \in Cuts, n \in 1..MaxEvents : Covers(d, n)' <=> Covers(d, n)
  BY <1>1, <1>2 DEF Covers
<1>14. \A n \in 1..MaxEvents : Reached(n)' <=> Reached(n)
  BY <1>1, <1>2, <1>10 DEF Reached
<1>15. ToldInOrder'
  BY <1>2, <1>13, <1>14 DEF DigestInv, ToldInOrder
<1>16. OneAuthor'
  BY <1>1, <1>2 DEF DigestInv, OneAuthor, Author, DigestOf
<1>17. Publishes
  BY <1>1, <1>2, <1>14 DEF Publishes, SameReach
<1> QED
  BY <1>4, <1>7, <1>8, <1>9, <1>11, <1>12, <1>15, <1>16, <1>17 DEF DigestInv

\* The greater of two numbers.
LEMMA LaterOf ==
    ASSUME NEW a \in Nat, NEW b \in Nat
    PROVE  Max({a, b}) = IF a >= b THEN a ELSE b
<1> DEFINE m == IF a >= b THEN a ELSE b
<1>1. m \in {a, b} /\ \A y \in {a, b} : m >= y
  OBVIOUS
<1>2. \A x \in {a, b} : (\A y \in {a, b} : x >= y) => x = m
  OBVIOUS
<1> HIDE DEF m
<1>3. Max({a, b}) = m
  BY <1>1, <1>2 DEF Max
<1> QED
  BY <1>3 DEF m

\* An acknowledgement that arrives is an old one, or that of the announced digest.
LEMMA FeedAckKeeps ==
    ASSUME DigestInv, NEW a \in feed.acks, FeedAck(a)
    PROVE  DigestInv' /\ (Rests \/ \E t \in 1..MaxEvents : Acknowledges(t))
<1>1. /\ a \in Cuts /\ chat[a] = 1 /\ UNCHANGED <<cursors, lease, workers, requests, ledger, chat>>
  BY DEF FeedAck, DigestInv, FeedOK, bridgeVars
<1>2. /\ feed.cut[a].through \in Nat /\ feed.cut[a].from \in Nat /\ feed.acked \in Nat
      /\ feed.high \in Nat
      /\ feed.cut[a].from <= feed.cut[a].through /\ feed.cut[a].through <= feed.high
      /\ 1 <= feed.cut[a].from /\ feed.high <= MaxEvents /\ feed.acked <= feed.high
      /\ Cuts \subseteq Digests /\ feed.recuts \in BOOLEAN
      /\ \A d \in Cuts : feed.cut[d].through \in Nat /\ feed.cut[d].from \in Nat
  BY <1>1, CutsAre DEF DigestInv, FeedOK
<1> PICK m : m = IF feed.acked >= feed.cut[a].through THEN feed.acked ELSE feed.cut[a].through
  OBVIOUS
<1>3. feed' = [feed EXCEPT !.acked = m]
  <2>1. Through(a) = feed.cut[a].through
    BY <1>1, CutsAre DEF DigestInv
  <2>2. Max({feed.acked, Through(a)}) = m
    BY <1>2, <2>1, LaterOf
  <2> QED
    BY <2>2 DEF FeedAck
<1>4. m \in Nat /\ feed.acked <= m /\ m <= feed.high /\ feed.cut[a].through <= m
  BY <1>2
<1>5. /\ feed' \in FeedTypes /\ feed'.high = feed.high /\ feed'.acked = m
      /\ feed'.cut = feed.cut /\ feed'.acks = feed.acks /\ feed'.recuts = feed.recuts
      /\ Cuts' = Cuts
  BY <1>3, <1>4 DEF DigestInv, TypesOK, FeedTypes, Cuts
<1>6. \/ m = feed.acked
      \/ /\ feed.acked < m /\ m = feed.cut[a].through /\ Open(a)
         /\ feed.cut[a].from = feed.acked + 1
  <2>1. CASE feed.acked >= feed.cut[a].through
    BY <2>1
  <2>2. CASE feed.acked < feed.cut[a].through
    <3>1. m = feed.cut[a].through /\ feed.acked < m
      BY <1>2, <2>2
    <3>2. ~Done(a)
      BY <1>2, <2>2 DEF Done
    <3>3. ~Idle(a)
      BY <1>1, <1>2 DEF Idle, DigestInv, BridgeOK
    <3>4. Open(a)
      BY <1>1, <3>2, <3>3 DEF DigestInv, Placed
    <3>5. feed.cut[a].from = feed.acked + 1
      BY <1>1, <1>2, <2>2, <3>4 DEF DigestInv, OpenNext
    <3> QED
      BY <3>1, <3>4, <3>5
  <2> QED
    BY <1>2, <2>1, <2>2
<1>7. \A d \in Cuts : Open(d) /\ m # feed.acked => d = a
  BY <1>6 DEF Open
<1>8. FeedOK'
  BY <1>1, <1>4, <1>5 DEF DigestInv, FeedOK
<1>9. \A d \in Digests : Clean(d)' <=> Clean(d)
  BY <1>1 DEF Clean
<1>10. FeedGrows /\ ChatGrows
  BY <1>1, <1>4, <1>5 DEF FeedGrows, ChatGrows
<1>11. feed'.acked = feed.acked \/ ~feed.recuts \/ Delivery \in Announced
  BY <1>5, <1>6 DEF Open
<1>12. TypesOK' /\ WorkersOK' /\ IdleKept
  BY <1>1, <1>5, <1>8, <1>9, <1>10, <1>11, OthersKeep
<1>13. PendingIsComplete'
  BY <1>1, <1>5 DEF DigestInv, PendingIsComplete
<1>14. BridgeOK'
  BY <1>1, <1>5, <1>9 DEF DigestInv, BridgeOK
<1>15. \A d \in Cuts : Open(d)' <=> Open(d)
  BY <1>1, <1>5 DEF Open, Delivery, Pending
<1>16. \A d \in Cuts : Done(d) => Done(d)'
  BY <1>1, <1>2, <1>4, <1>5 DEF Done
<1>17. Placed'
  BY <1>5, <1>12, <1>15, <1>16 DEF DigestInv, Placed, IdleKept
<1>18. OpenNext'
  <2>1. ASSUME NEW d \in Cuts, Open(d)
        PROVE  feed'.cut[d].from = m + 1 \/ (feed'.cut[d].through = m /\ chat'[d] = 1)
    <3>1. CASE m = feed.acked
      BY <1>1, <1>5, <2>1, <3>1 DEF DigestInv, OpenNext
    <3>2. CASE m # feed.acked
      BY <1>1, <1>5, <1>6, <1>7, <2>1, <3>2
    <3> QED
      BY <3>1, <3>2
  <2> QED
    BY <1>5, <1>15, <2>1 DEF OpenNext
<1>19. \A d \in Cuts, n \in 1..MaxEvents : Covers(d, n)' <=> Covers(d, n)
  BY <1>1, <1>5 DEF Covers
<1>20. ASSUME NEW n \in 1..MaxEvents
       PROVE  /\ Reached(n)' <=> Reached(n)
              /\ m # feed.acked => (Reached(n) <=> n <= m)
  <2>1. Reached(n)' <=> n <= m \/ \E d \in Cuts : Open(d) /\ chat[d] = 1 /\ n <= feed.cut[d].through
    BY <1>1, <1>5, <1>15 DEF Reached
  <2>2. CASE m = feed.acked
    BY <2>1, <2>2 DEF Reached
  <2>3. CASE m # feed.acked
    <3>1. \A d \in Cuts : Open(d) /\ n <= feed.cut[d].through => n <= m
      BY <1>6, <1>7, <2>3
    <3>2. n <= m => Reached(n)
      BY <1>1, <1>6, <2>3 DEF Reached
    <3>3. n <= feed.acked => n <= m
      BY <1>2, <1>4
    <3>4. Reached(n) => n <= m
      BY <3>1, <3>3 DEF Reached
    <3> QED
      BY <2>1, <3>1, <3>2, <3>4
  <2> QED
    BY <2>2, <2>3
<1>21. ToldInOrder'
  BY <1>5, <1>19, <1>20 DEF DigestInv, ToldInOrder
<1>22. OneAuthor'
  BY <1>1, <1>5 DEF DigestInv, OneAuthor, Author, DigestOf
<1>23. CASE m = feed.acked
  <2>1. Rests
    BY <1>5, <1>20, <1>23 DEF Rests, SameReach
  <2> QED
    BY <1>8, <1>12, <1>13, <1>14, <1>17, <1>18, <1>21, <1>22, <2>1 DEF DigestInv
<1>24. CASE m # feed.acked
  <2>1. Acknowledges(m)
    BY <1>4, <1>5, <1>6, <1>20, <1>24 DEF Acknowledges, SameReach
  <2>2. m \in 1..MaxEvents
    BY <1>2, <1>4, <1>6, <1>24, ClaimsAre
  <2> QED
    BY <1>8, <1>12, <1>13, <1>14, <1>17, <1>18, <1>21, <1>22, <2>1, <2>2 DEF DigestInv
<1> QED
  BY <1>23, <1>24

\* A message that reaches the owner is that of the announced digest.
LEMMA BridgeKeeps ==
    ASSUME DigestInv, BridgeKnown, BridgeKnown', NEW q \in requests, Bridge!Step(q),
           UNCHANGED <<feed, cursors, lease, workers>>
    PROVE  DigestInv' /\ (Rests \/ \E t \in 1..MaxEvents : Tells(t))
<1>1. BridgeOK' /\ BridgeMoves
  BY BridgeStep DEF DigestInv
<1>2. /\ Cuts \subseteq Digests /\ feed.acked \in Nat /\ feed.high <= MaxEvents /\ feed.high \in Nat
      /\ feed.recuts \in BOOLEAN
      /\ \A d \in Cuts : /\ feed.cut[d].through \in Nat /\ feed.cut[d].from \in Nat
                         /\ feed.cut[d].through <= feed.high
                         /\ feed.cut[d].from <= feed.cut[d].through /\ 1 <= feed.cut[d].from
  BY CutsAre DEF DigestInv, FeedOK
<1>3. Cuts' = Cuts
  BY DEF Cuts
<1>4. ChatGrows /\ FeedGrows
  BY <1>1, <1>2, <1>3 DEF ChatGrows, BridgeMoves, FeedGrows
<1>5. FeedOK'
  BY <1>2, <1>3, <1>4 DEF DigestInv, FeedOK, ChatGrows
<1>6. TypesOK' /\ WorkersOK' /\ IdleKept
  BY <1>1, <1>4, <1>5, OthersKeep DEF BridgeMoves, DigestInv, TypesOK
<1>7. PendingIsComplete'
  <2>1. ASSUME NEW d \in Cuts, chat[d] = 1 PROVE chat'[d] = 1
    BY <1>2, <1>4, <2>1 DEF ChatGrows
  <2> QED
    BY <2>1 DEF DigestInv, PendingIsComplete, Cuts
<1>8. \A d \in Cuts : Open(d)' <=> Open(d)
  BY DEF Open, Delivery, Pending
<1>9. \A d \in Cuts : Done(d) => Done(d)'
  BY <1>2, <1>4 DEF Done, ChatGrows
<1>10. Placed'
  BY <1>3, <1>6, <1>8, <1>9 DEF DigestInv, Placed, IdleKept
<1>11. OpenNext'
  BY <1>2, <1>3, <1>4, <1>8 DEF DigestInv, OpenNext, ChatGrows
<1>12. OneAuthor'
  <2>1. CASE feed.recuts
    <3>1. /\ \A d \in Cuts, u, v \in Claims : Author(u, d) /\ Author(v, d) => u = v
          /\ \A p \in requests, v \in Claims : Author(v, p.key) => v = p.token
          /\ \A p, r \in requests : p.key = r.key => p.token = r.token
      BY <2>1 DEF DigestInv, OneAuthor
    <3>2. \A r \in requests' : \E p \in requests : r.key = p.key /\ r.token = p.token
      BY <1>1 DEF BridgeMoves
    <3>3. \A d, v : Author(v, d)' <=> Author(v, d)
      BY DEF Author, DigestOf
    <3>4. \A r \in requests', v \in Claims : Author(v, r.key) => v = r.token
      BY <3>1, <3>2
    <3>5. \A r \in requests', v \in Claims : Author(v, r.key)' => v = r.token
      BY <3>4 DEF Author, DigestOf
    <3>6. \A p, r \in requests' : p.key = r.key => p.token = r.token
      BY <3>1, <3>2
    <3> QED
      BY <1>3, <3>1, <3>3, <3>5, <3>6 DEF OneAuthor
  <2> QED
    BY <2>1 DEF OneAuthor
<1>13. CASE chat' = chat
  <2>1. \A d \in Cuts, n \in 1..MaxEvents : Covers(d, n)' <=> Covers(d, n)
    BY <1>13 DEF Covers
  <2>2. \A n \in 1..MaxEvents : Reached(n)' <=> Reached(n)
    BY <1>3, <1>8, <1>13 DEF Reached
  <2>3. ToldInOrder'
    BY <1>3, <2>1, <2>2 DEF DigestInv, ToldInOrder
  <2>4. Rests
    BY <2>2 DEF Rests, SameReach
  <2> QED
    BY <1>1, <1>5, <1>6, <1>7, <1>10, <1>11, <1>12, <2>3, <2>4 DEF DigestInv
<1>14. CASE \E e \in Digests : /\ ~Clean(e) /\ chat[e] = 0 /\ chat'[e] = 1
                               /\ \A d \in Digests \ {e} : chat'[d] = chat[d]
  <2> PICK e \in Digests : /\ ~Clean(e) /\ chat[e] = 0 /\ chat'[e] = 1
                           /\ \A d \in Digests \ {e} : chat'[d] = chat[d]
    BY <1>14
  <2> PICK t : t = feed.cut[e].through
    OBVIOUS
  <2>1. e \in Cuts
    BY DEF Clean, DigestInv, BridgeOK
  <2>2. Open(e) /\ \A d \in Cuts : Open(d) => d = e
    BY <1>2, <2>1 DEF DigestInv, Placed, Done, Idle, Open
  <2>3. feed.cut[e].from = feed.acked + 1 /\ feed.acked < t /\ t <= feed.high /\ t \in 1..MaxEvents
    BY <1>2, <2>1, <2>2, ClaimsAre DEF DigestInv, OpenNext
  <2>4. ASSUME NEW n \in 1..MaxEvents PROVE Reached(n) <=> n <= feed.acked
    BY <2>2 DEF Reached
  <2>5. ASSUME NEW n \in 1..MaxEvents PROVE Reached(n)' <=> n <= t
    <3>1. Reached(n)' <=> n <= feed.acked \/ n <= t
      BY <1>3, <1>8, <2>1, <2>2 DEF Reached
    <3> QED
      BY <1>2, <2>3, <3>1
  <2>6. \A d \in Cuts, n \in 1..MaxEvents : d # e => (Covers(d, n)' <=> Covers(d, n))
    BY <1>2 DEF Covers
  <2>7. \A n \in 1..MaxEvents : ~Covers(e, n) /\ (Covers(e, n)' <=> feed.acked < n /\ n <= t)
    BY <1>2, <2>3 DEF Covers
  <2>8. ToldInOrder'
    <3>1. ASSUME NEW n \in 1..MaxEvents, NEW d \in Cuts, NEW f \in Cuts, Covers(d, n)', Covers(f, n)'
          PROVE  d = f
      <4>1. \A g \in Cuts : Covers(g, n) => n <= feed.acked
        BY <2>4 DEF DigestInv, ToldInOrder
      <4>2. \A g \in Cuts : g # e /\ Covers(g, n)' => Covers(g, n) /\ n <= feed.acked
        BY <2>6, <4>1
      <4>3. Covers(e, n)' => ~(n <= feed.acked)
        BY <1>2, <2>7
      <4>4. d # e /\ f # e => d = f
        BY <3>1, <4>2 DEF DigestInv, ToldInOrder
      <4> QED
        BY <3>1, <4>2, <4>3, <4>4
    <3>2. ASSUME NEW n \in 1..MaxEvents PROVE Reached(n)' <=> \E d \in Cuts : Covers(d, n)'
      <4>1. n <= feed.acked <=> \E d \in Cuts : Covers(d, n)
        BY <2>4 DEF DigestInv, ToldInOrder
      <4>2. (\E d \in Cuts : Covers(d, n)') <=> (feed.acked < n /\ n <= t) \/ \E d \in Cuts : Covers(d, n)
        BY <2>1, <2>6, <2>7
      <4>3. n <= t <=> n <= feed.acked \/ (feed.acked < n /\ n <= t)
        BY <1>2, <2>3
      <4> QED
        BY <2>5, <4>1, <4>2, <4>3
    <3> QED
      BY <1>3, <3>1, <3>2 DEF ToldInOrder
  <2>9. Tells(t)
    BY <2>3, <2>4, <2>5 DEF Tells
  <2> QED
    BY <1>1, <1>5, <1>6, <1>7, <1>10, <1>11, <1>12, <2>3, <2>8, <2>9 DEF DigestInv
<1> QED
  BY <1>1, <1>13, <1>14 DEF BridgeMoves

-----------------------------------------------------------------------------
(* The invariant *)

\* Nothing was published, claimed or asked.
LEMMA DigestInit == Init => DigestInv /\ Sends!SendInv
<1> SUFFICES ASSUME Init PROVE DigestInv /\ Sends!SendInv
  OBVIOUS
<1>1. Sends!SendInv
  <2>1. Sends!Init
    BY DEF Init, Bridge!Init, Sends!Init
  <2> QED
    BY <2>1, Sends!SendInit
<1>2. requests = {} /\ chat = [d \in Digests |-> 0]
  BY DEF Init, Bridge!Init
<1>3. /\ feed.high = 0 /\ feed.acked = 0 /\ feed.cut = <<>> /\ feed.acks = {} /\ feed \in FeedTypes
  <2> PICK recuts \in BOOLEAN :
        feed = [high |-> 0, acked |-> 0, cut |-> <<>>, acks |-> {}, recuts |-> recuts]
    BY DEF Init
  <2> QED
    BY DEF FeedTypes
<1>4. Cuts = {} /\ Len(feed.cut) = 0
  BY <1>3 DEF Cuts
<1>5. FeedOK
  BY <1>3, <1>4, ClaimsAre DEF FeedOK
<1>6. BridgeOK
  BY <1>2 DEF BridgeOK
<1>7. /\ NoCursors \in [ToSet(Names) -> Values] /\ NoCursors["delivery_state"] = "none"
      /\ \A name \in Parts : NoCursors[name] \in 0..MaxDigests
  BY NamesAre, ClaimsAre DEF NoCursors, Values, States
<1>8. Delivery = "none" /\ cursors = NoCursors /\ lease = 0
  BY <1>7 DEF Init, Delivery
<1> PICK r : r = NewWorker
  OBVIOUS
<1>9. IsWorker(r) /\ r.step = "new" /\ r.todo = <<>>
  <2>1. r.step = "new" /\ r.todo = <<>> /\ r.acked = 0
    BY DEF NewWorker
  <2>2. NoCursors \in Seen
    BY <1>7 DEF Seen
  <2>3. r \in [step : Steps, todo : Writes, seen : Seen, acked : Nat, resuming : BOOLEAN]
    BY <2>2, WritesAre DEF NewWorker, Steps
  <2> QED
    BY <1>3, <2>1, <2>3 DEF IsWorker
<1>10. workers = [w \in Claims |-> r]
  BY DEF Init
<1>11. TypesOK
  BY <1>3, <1>7, <1>8, <1>9, <1>10, ClaimsAre DEF TypesOK, States
<1>12. WorkersOK
  BY <1>9, <1>10 DEF WorkersOK, WorkerOK, IdleOK
<1>13. PendingIsComplete
  BY <1>8 DEF PendingIsComplete, Delivery
<1>14. Placed /\ OpenNext
  BY <1>4 DEF Placed, OpenNext
<1>15. ToldInOrder
  <2>1. \A n \in 1..MaxEvents : ~Reached(n)
    BY <1>3, <1>4, ClaimsAre DEF Reached
  <2> QED
    BY <1>4, <2>1 DEF ToldInOrder
<1>16. OneAuthor
  BY <1>2, <1>4 DEF OneAuthor
<1> QED
  BY <1>1, <1>5, <1>6, <1>11, <1>12, <1>13, <1>14, <1>15, <1>16 DEF DigestInv

\* To the bridge the executor is one of its clients.
BridgeServes == [Bridge!Next]_(Bridge!bridgeVars)

\* A lookup is a step of a client.
LEMMA ServesLookup ==
    ASSUME DigestInv, NEW w \in Claims, LookUp(w)
    PROVE  BridgeServes
<1>1. LookupOK(w)
  BY WorkersAre DEF LookUp, At, WorkerOK
<1>2. DigestOf(w) \in Digests
  BY <1>1, CutsAre DEF LookupOK, Knows, DigestInv
<1>3. Bridge!Lookup(DigestOf(w))
  BY DEF LookUp, DigestOf
<1> QED
  BY <1>2, <1>3 DEF BridgeServes, Bridge!Next

\* A request is a step of a client.
LEMMA ServesRequest ==
    ASSUME DigestInv, NEW w \in Claims, Apply(w)
    PROVE  BridgeServes
<1>1. ApplyOK(w)
  BY WorkersAre DEF Apply, At, WorkerOK
<1>2. DigestOf(w) \in Digests
  BY <1>1, CutsAre DEF ApplyOK, Knows, DigestInv
<1>3. Bridge!Request(DigestOf(w), w)
  BY DEF Apply, DigestOf
<1> QED
  BY <1>2, <1>3 DEF BridgeServes, Bridge!Next

\* So is every step.
LEMMA Serves ==
    ASSUME DigestInv, [Next]_digestVars
    PROVE  BridgeServes
<1>1. ASSUME UNCHANGED bridgeVars PROVE BridgeServes
  BY <1>1 DEF bridgeVars, BridgeServes, Bridge!bridgeVars
<1>2. CASE UNCHANGED digestVars
  BY <1>1, <1>2 DEF digestVars, bridgeVars
<1>3. CASE Publish \/ LeaseEnds \/ Recreate \/ \E d \in feed.acks : FeedAck(d)
  BY <1>1, <1>3 DEF Publish, LeaseEnds, Recreate, FeedAck
<1>4. ASSUME NEW w \in Claims, Claim(w) \/ Execute(w) \/ Stop(w) PROVE BridgeServes
  BY <1>1, <1>4, ServesLookup, ServesRequest
  DEF Claim, Execute, Stop, WriteCursor, Register, Resume, ReadNothing, ReadAndSummarize, Announce,
      AppliedOk, AppliedStale, Readback, Acknowledge, Acknowledged
<1>5. CASE \E q \in requests : Bridge!Step(q)
  BY <1>5 DEF BridgeServes, Bridge!Next
<1> QED
  BY <1>2, <1>3, <1>4, <1>5 DEF Next

\* Both instances of the bridge are the same.
LEMMA SameBridge == BridgeServes => [Sends!Next]_(Sends!bridgeVars)
BY DEF BridgeServes, Bridge!Next, Sends!Next, Bridge!bridgeVars, Sends!bridgeVars,
   Bridge!Lookup, Sends!Lookup, Bridge!LookupVerifies, Sends!LookupVerifies,
   Bridge!ReadbackVerifies, Sends!ReadbackVerifies, Bridge!MarkVerified, Sends!MarkVerified,
   Bridge!Request, Sends!Request, Bridge!Step, Sends!Step, Bridge!Intent, Sends!Intent,
   Bridge!Stale, Sends!Stale, Bridge!Replay, Sends!Replay, Bridge!Send, Sends!Send,
   Bridge!Record, Sends!Record, Bridge!Verify, Sends!Verify, Bridge!Drop, Sends!Drop,
   Bridge!Arrive, Sends!Arrive, Bridge!Advance, Sends!Advance, Bridge!LaneFree, Sends!LaneFree,
   Bridge!InLane, Sends!InLane

\* A stuttering step.
LEMMA StutterKeeps ==
    ASSUME DigestInv, UNCHANGED digestVars
    PROVE  DigestInv' /\ Rests
<1>1. UNCHANGED <<feed, cursors, lease, workers, requests, ledger, chat>>
  BY DEF digestVars, bridgeVars
<1>2. Cuts' = Cuts /\ FeedGrows /\ ChatGrows
  BY <1>1, CutsAre DEF DigestInv, Cuts, FeedGrows, ChatGrows
<1>3. FeedOK' /\ BridgeOK' /\ PendingIsComplete'
  BY <1>1, <1>2 DEF DigestInv, FeedOK, BridgeOK, Clean, PendingIsComplete
<1>4. \A d \in Digests : Clean(d) => Clean(d)'
  BY <1>1 DEF Clean
<1>5. TypesOK' /\ WorkersOK'
  BY <1>1, <1>2, <1>3, <1>4, OthersKeep DEF DigestInv, TypesOK
<1>6. \A d \in Cuts : (Open(d)' <=> Open(d)) /\ (Done(d)' <=> Done(d)) /\ (Idle(d)' <=> Idle(d))
  BY <1>1 DEF Open, Done, Idle, Clean, At, DigestOf, Delivery, Pending
<1>7. Placed' /\ OpenNext'
  BY <1>1, <1>2, <1>6 DEF DigestInv, Placed, OpenNext
<1>8. \A n \in 1..MaxEvents : Reached(n)' <=> Reached(n)
  BY <1>1, <1>2, <1>6 DEF Reached
<1>9. \A d \in Cuts, n \in 1..MaxEvents : Covers(d, n)' <=> Covers(d, n)
  BY <1>1 DEF Covers
<1>10. ToldInOrder'
  BY <1>2, <1>8, <1>9 DEF DigestInv, ToldInOrder
<1>11. OneAuthor'
  BY <1>1, <1>2 DEF DigestInv, OneAuthor, Author, DigestOf
<1>12. Rests
  BY <1>1, <1>8 DEF Rests, SameReach
<1> QED
  BY <1>3, <1>5, <1>7, <1>10, <1>11, <1>12 DEF DigestInv

\* Every step keeps the invariant, and moves the feed as DigestFeed may.
LEMMA DigestStep ==
    ASSUME DigestInv, Sends!SendInv, [Next]_digestVars
    PROVE  DigestInv' /\ Sends!SendInv' /\ FeedMoves
<1>1. Sends!SendInv'
  BY Serves, SameBridge, Sends!SendStep
<1>2. BridgeKnown
  BY SendsKnown
<1>3. BridgeKnown'
  <2>1. Sends!SendInv' => BridgeKnown'
    BY SendsKnown, PTL
  <2> QED
    BY <1>1, <2>1
<1>4. CASE Publish
  BY <1>1, <1>4, PublishKeeps DEF FeedMoves
<1>5. CASE LeaseEnds
  BY <1>1, <1>2, <1>5, LeaseEndsKeeps DEF FeedMoves
<1>6. CASE Recreate
  BY <1>1, <1>2, <1>6, RecreateKeeps DEF FeedMoves
<1>7. ASSUME NEW d \in feed.acks, FeedAck(d) PROVE DigestInv' /\ FeedMoves
  BY <1>7, FeedAckKeeps DEF FeedMoves
<1>8. ASSUME NEW w \in Claims, Claim(w) PROVE DigestInv' /\ FeedMoves
  BY <1>2, <1>8, ClaimKeeps DEF FeedMoves
<1>9. ASSUME NEW w \in Claims, Stop(w) PROVE DigestInv' /\ FeedMoves
  BY <1>2, <1>9, StopKeeps DEF FeedMoves, Stop
<1>10. ASSUME NEW w \in Claims, Execute(w) PROVE DigestInv' /\ FeedMoves
  BY <1>2, <1>10, WriteCursorKeeps, RegisterKeeps, ResumeKeeps, LookUpKeeps, ReadNothingKeeps,
     ReadAndSummarizeKeeps, AnnounceKeeps, ApplyKeeps, AppliedOkKeeps, AppliedStaleKeeps,
     ReadbackKeeps, AcknowledgeKeeps, AcknowledgedKeeps DEF FeedMoves, Execute
<1>11. ASSUME NEW q \in requests, Bridge!Step(q), UNCHANGED <<feed, cursors, lease, workers>>
       PROVE  DigestInv' /\ FeedMoves
  BY <1>2, <1>3, <1>11, BridgeKeeps DEF FeedMoves
<1>12. CASE UNCHANGED digestVars
  BY <1>1, <1>12, StutterKeeps DEF FeedMoves
<1> QED
  BY <1>1, <1>4, <1>5, <1>6, <1>7, <1>8, <1>9, <1>10, <1>11, <1>12 DEF Next

-----------------------------------------------------------------------------
(* Theorems *)

\* The invariant of the executor together with that of the bridge, and what every
\* step does to the feed.
LEMMA DigestInvariant == Spec => [](DigestInv /\ Sends!SendInv)
<1>1. DigestInv /\ Sends!SendInv /\ [Next]_digestVars => (DigestInv /\ Sends!SendInv)'
  BY DigestStep
<1> QED
  BY <1>1, DigestInit, PTL DEF Spec

\* A run that finds a pending delivery finds all parts of one digest with it, and
\* its message when the state says it was sent: the order in which the executor writes
\* its cursors, and _clear_pending clears them, survives every crash and late worker.
THEOREM PendingComplete == Spec => []PendingIsComplete
<1>1. DigestInv => PendingIsComplete
  BY DEF DigestInv
<1> QED
  BY <1>1, DigestInvariant, PTL

\* Over a feed that cuts anew, nothing of an unacknowledged stretch has left, or can
\* leave by a request under way, unless the cursors say so.
THEOREM NothingIsOutstanding == Spec => []NothingOutstanding
<1>1. DigestInv => NothingOutstanding
  <2> SUFFICES ASSUME DigestInv, feed.recuts, Delivery \in {"none", "prepared"},
                      NEW d \in Cuts, feed.cut[d].through > feed.acked
               PROVE  chat[d] = 0 /\ ~Bridge!MayStillArrive(d)
    BY DEF NothingOutstanding, Delivery, Cuts
  <2>1. ~Open(d)
    BY DEF Open, Announced
  <2>2. ~Done(d)
    <3>1. feed.acked \in Nat /\ feed.cut[d].through \in Nat
      BY CutsAre DEF DigestInv
    <3> QED
      BY <3>1 DEF Done
  <2>3. Clean(d)
    BY <2>1, <2>2 DEF DigestInv, Placed, Idle
  <2>4. chat[d] = 0
    BY <2>3, CutsAre DEF DigestInv, BridgeOK
  <2> QED
    BY <2>3, <2>4 DEF Clean, Bridge!MayStillArrive
<1> QED
  BY <1>1, DigestInvariant, PTL

(* The refinement of DigestFeed. *)

\* An event was told once, if the owner has learnt of it at all.
LEMMA ToldIs ==
    ASSUME DigestInv, BridgeKnown, NEW n \in 1..MaxEvents
    PROVE  Told(n) = IF Reached(n) THEN 1 ELSE 0
<1> DEFINE Of == {d \in Cuts : feed.cut[d].from <= n /\ n <= feed.cut[d].through}
           Messages == UNION {{d} \X (1..chat[d]) : d \in Of}
<1>1. Told(n) = Cardinality(Messages)
  BY DEF Told, Cuts
<1>2. \A d \in Cuts : chat[d] \in {0, 1}
  BY CutsAre DEF DigestInv, BridgeKnown
<1>3. \A d \in Of : Covers(d, n) <=> chat[d] = 1
  BY DEF Covers
<1>4. \A d \in Cuts : Covers(d, n) => d \in Of
  BY DEF Covers
<1>5. CASE Reached(n)
  <2> PICK d \in Cuts : Covers(d, n)
    BY <1>5 DEF DigestInv, ToldInOrder
  <2>1. \A e \in Cuts : Covers(e, n) => e = d
    BY DEF DigestInv, ToldInOrder
  <2>2. d \in Of /\ chat[d] = 1
    BY <1>4 DEF Covers
  <2>3. \A e \in Of \ {d} : 1..chat[e] = {}
    BY <1>2, <1>3, <2>1
  <2>4. 1..chat[d] = {1}
    BY <2>2
  <2>5. Messages = {<<d, 1>>}
    BY <2>2, <2>3, <2>4
  <2>6. Cardinality({<<d, 1>>}) = 1
    BY FS_Singleton
  <2> QED
    BY <1>1, <1>5, <2>5, <2>6
<1>6. CASE ~Reached(n)
  <2>1. \A e \in Of : 1..chat[e] = {}
    BY <1>2, <1>3, <1>6 DEF DigestInv, ToldInOrder
  <2>2. Messages = {}
    BY <2>1
  <2>3. Cardinality({}) = 0
    BY FS_EmptySet
  <2> QED
    BY <1>1, <1>6, <2>2, <2>3
<1> QED
  BY <1>5, <1>6

\* The owner's view, as the refinement maps it.
View == [n \in 1..MaxEvents |-> IF Reached(n) THEN 1 ELSE 0]
\* The refinement counts messages; the invariant says how many there are.
LEMMA ViewIs == DigestInv /\ BridgeKnown => [n \in 1..MaxEvents |-> Told(n)] = View
BY ToldIs DEF View

\* A step that moves the feed as the invariant has it is one of DigestFeed.
LEMMA FeedStep ==
    ASSUME DigestInv, FeedMoves,
           [n \in 1..MaxEvents |-> Told(n)] = View, [n \in 1..MaxEvents |-> Told(n)]' = View'
    PROVE  [Feed!Next]_(Feed!feedVars)
<1> PICK told : told = View
  OBVIOUS
<1> PICK toldNow : toldNow = View'
  OBVIOUS
<1>1. \A n \in 1..MaxEvents : told[n] = IF Reached(n) THEN 1 ELSE 0
  BY DEF View
<1>2. \A n \in 1..MaxEvents : toldNow[n] = IF Reached(n)' THEN 1 ELSE 0
  BY DEF View
<1>3. told = [n \in 1..MaxEvents |-> told[n]] /\ toldNow = [n \in 1..MaxEvents |-> toldNow[n]]
  BY DEF View
<1>4. feed.acked \in Nat /\ feed.high \in Nat
  BY CutsAre DEF DigestInv
<1>5. ASSUME SameReach PROVE toldNow = told
  <2>1. \A n \in 1..MaxEvents : toldNow[n] = told[n]
    BY <1>1, <1>2, <1>5 DEF SameReach
  <2> QED
    BY <1>3, <2>1
<1>6. CASE Rests
  BY <1>5, <1>6 DEF Rests, Feed!feedVars
<1>7. CASE Publishes
  BY <1>5, <1>7 DEF Publishes, Feed!Next, Feed!Publish
<1>8. ASSUME NEW t \in 1..MaxEvents, Acknowledges(t) PROVE Feed!Acknowledge(t)
  <2>1. \A n \in 1..MaxEvents : told[n] = IF n <= t THEN 1 ELSE 0
    BY <1>1, <1>8 DEF Acknowledges
  <2> QED
    BY <1>5, <1>8, <2>1 DEF Acknowledges, Feed!Acknowledge
<1>9. ASSUME NEW t \in 1..MaxEvents, Tells(t) PROVE Feed!Tell(t)
  <2>1. \A n \in 1..MaxEvents : told[n] = IF n <= feed.acked THEN 1 ELSE 0
    BY <1>1, <1>9 DEF Tells
  <2>2. \A n \in 1..MaxEvents : toldNow[n] = IF n <= t THEN 1 ELSE 0
    BY <1>2, <1>9 DEF Tells
  <2>3. \A n \in 1..MaxEvents : toldNow[n] = IF feed.acked < n /\ n <= t THEN 1 ELSE told[n]
    BY <1>4, <1>9, <2>1, <2>2 DEF Tells
  <2>4. toldNow = [n \in 1..MaxEvents |-> IF feed.acked < n /\ n <= t THEN 1 ELSE told[n]]
    BY <1>3, <2>3
  <2>5. \A n \in 1..MaxEvents : n > feed.acked => told[n] = 0
    BY <1>4, <2>1
  <2> QED
    BY <1>9, <2>4, <2>5 DEF Tells, Feed!Tell
<1> QED
  BY <1>6, <1>7, <1>8, <1>9 DEF FeedMoves, Feed!Next

\* The digest keeps what it promises the owner: events are told in order, without
\* gaps, each once, acknowledged only after they were told, and the next stretch is
\* told only after that; whatever workers crash, come late or are superseded.
THEOREM PromiseHolds == Spec => PromiseKept
<1>1. Init => Feed!Init
  <2> SUFFICES ASSUME Init PROVE Feed!Init
    OBVIOUS
  <2>1. feed.high = 0 /\ feed.acked = 0 /\ feed.cut = <<>>
    BY DEF Init
  <2>2. DOMAIN feed.cut = {}
    BY <2>1
  <2>3. \A n \in 1..MaxEvents : Told(n) = 0
    BY <2>2, FS_EmptySet DEF Told
  <2> QED
    BY <2>1, <2>3 DEF Feed!Init
<1> DEFINE Mapped == [n \in 1..MaxEvents |-> Told(n)] = View
<1>2. DigestInv /\ Sends!SendInv => Mapped
  BY ViewIs, SendsKnown
<1>3. DigestInv /\ Sends!SendInv /\ Mapped /\ Mapped' /\ [Next]_digestVars
        => [Feed!Next]_(Feed!feedVars)
  BY DigestStep, FeedStep
<1> QED
  BY <1>1, <1>2, <1>3, DigestInvariant, PTL DEF Spec, PromiseKept, Feed!Spec

\* The executor is a client of the bridge, as AutomationOutbox is.
THEOREM ClientOfTheBridge == Spec => Bridge!Spec
<1>1. Init => Bridge!Init
  BY DEF Init
<1>2. DigestInv /\ [Next]_digestVars => [Bridge!Next]_(Bridge!bridgeVars)
  BY Serves DEF BridgeServes
<1> QED
  BY <1>1, <1>2, DigestInvariant, PTL DEF Spec, Bridge!Spec
=============================================================================
