------------------------------ MODULE MCRoleDuty ------------------------------
(* Small instances of RoleDuty for TLC. *)
EXTENDS RoleDuty

CONSTANTS o1, n1
=============================================================================
