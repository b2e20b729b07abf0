-------------------------- MODULE MCTelegramTurns --------------------------
(* TelegramTurns for TLC: clients, messages, jobs and effects are alike.   *)
EXTENDS TelegramTurns, TLC

Alike == Permutations(Peers) \cup Permutations(Events)
         \cup Permutations(Jobs) \cup Permutations(Effects)
=============================================================================
