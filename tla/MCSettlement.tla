---------------------------- MODULE MCSettlement ----------------------------
(* Settlement for TLC. *)
EXTENDS Settlement, TLC

SignalSymmetry == Permutations(RequestSignals)
=============================================================================
