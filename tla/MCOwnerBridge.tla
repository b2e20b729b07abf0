--------------------------- MODULE MCOwnerBridge ---------------------------
(* Small instances of OwnerBridge for TLC. *)
EXTENDS OwnerBridge, TLC

CONSTANTS k1, k2, t1, t2, t3

Sym == Permutations(Keys) \cup Permutations(Tokens)
=============================================================================
