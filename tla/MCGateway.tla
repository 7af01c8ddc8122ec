----------------------------- MODULE MCGateway -----------------------------
(***************************************************************************)
(* Instances of Gateway for TLC.                                           *)
(***************************************************************************)
EXTENDS Gateway, TLC

(* Calls are interchangeable, and so are request signals.                  *)
CallSymmetry == Permutations(Calls) \cup Permutations(RequestSignals)
=============================================================================
