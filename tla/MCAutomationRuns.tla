-------------------------- MODULE MCAutomationRuns --------------------------
(* Small instances of AutomationRuns for TLC. *)
EXTENDS AutomationRuns, TLC

CONSTANTS j1, j2, o1, o2, p1, p2

AlwaysOn == [every |-> 1, window |-> "24/7"]
EvenSeconds == [every |-> 1, window |-> "even"]

MCInWindow(t, s) == s.window = "24/7" \/ t % 2 = 0
MCNextActive(t, s) == IF MCInWindow(t, s) THEN t ELSE t + 1

OneSchedule == {AlwaysOn}
TwoSchedules == {AlwaysOn, EvenSeconds}
AllSingletons(j) == "crm_digest_v1"
DigestAndRole(j) == IF j = j1 THEN "crm_digest_v1" ELSE "m1_duty_v1"
=============================================================================
