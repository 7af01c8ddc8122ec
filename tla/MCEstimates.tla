---------------------------- MODULE MCEstimates ----------------------------
(***************************************************************************)
(* Instances of Estimates for TLC.                                         *)
(***************************************************************************)
EXTENDS Estimates

(* Callers are interchangeable, and so are the values of estimatedUnits.   *)
CallerSymmetry == Permutations(Callers) \cup Permutations(Units)
=============================================================================
