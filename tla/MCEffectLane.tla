---------------------------- MODULE MCEffectLane ----------------------------
(* Small instances of EffectLane for TLC. *)
EXTENDS EffectLane

CONSTANTS i1, i2, i3, i4, j1, j2

Shared == [i \in Items |-> CASE i \in {i1, i3} -> j1 [] i = i2 -> j2 [] OTHER -> NoJob]
=============================================================================
