------------------------- MODULE MCAutomationDaemon -------------------------
(* Small instances of AutomationDaemon for TLC: numbers only. *)
EXTENDS AutomationDaemon
=============================================================================
