----------------------------- MODULE DigestFeed -----------------------------
(***************************************************************************)
(* What the CRM digest promises the owner: the events of the feed are told *)
(* in order, without gaps, each once; a stretch of events is acknowledged  *)
(* to the CRM only after it was told, and the next one is told only after  *)
(* that.  How runs, crashes and leases get there is CrmDigest's business.  *)
(***************************************************************************)
EXTENDS Naturals

CONSTANT MaxEvents

VARIABLES
    high,   \* events the CRM has published so far
    told,   \* how often the owner was told of each event
    acked   \* events acknowledged to the CRM

feedVars == <<high, told, acked>>

Init == high = 0 /\ told = [n \in 1..MaxEvents |-> 0] /\ acked = 0

Publish == high < MaxEvents /\ high' = high + 1 /\ UNCHANGED <<told, acked>>

\* One message tells everything from the last acknowledged event to t.
Tell(t) ==
    /\ acked < t /\ t <= high
    /\ \A n \in 1..MaxEvents : n > acked => told[n] = 0
    /\ told' = [n \in 1..MaxEvents |-> IF acked < n /\ n <= t THEN 1 ELSE told[n]]
    /\ UNCHANGED <<high, acked>>

\* Exactly what was told is acknowledged.
Acknowledge(t) ==
    /\ acked < t /\ t <= high
    /\ \A n \in 1..MaxEvents : told[n] = IF n <= t THEN 1 ELSE 0
    /\ acked' = t
    /\ UNCHANGED <<high, told>>

Next == Publish \/ \E t \in 1..MaxEvents : Tell(t) \/ Acknowledge(t)

Spec == Init /\ [][Next]_feedVars
=============================================================================
