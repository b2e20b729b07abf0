----------------------------- MODULE MCVinQueue -----------------------------
(* VinQueue for TLC: the units of work are alike, and so are the calls.    *)
EXTENDS VinQueue, TLC

Alike == Permutations(Units) \cup Permutations(Callers)
=============================================================================
