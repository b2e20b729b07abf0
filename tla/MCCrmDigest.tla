----------------------------- MODULE MCCrmDigest -----------------------------
(* Small instances of CrmDigest for TLC: numbers only. *)
EXTENDS CrmDigest
=============================================================================
