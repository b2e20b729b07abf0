------------------------- MODULE MCAutomationOutbox -------------------------
(* Small instances of AutomationOutbox for TLC. *)
EXTENDS AutomationOutbox, TLC

CONSTANTS j1, j2, o1, o2, p1

EverySecond == [every |-> 1, window |-> "24/7"]
OneSchedule == {EverySecond}
Always(t, s) == TRUE
Same(t, s) == t
DigestAndRole(j) == IF j = j1 THEN "crm_digest_v1" ELSE "m1_duty_v1"
Incarnations == Permutations(Owners)
=============================================================================
