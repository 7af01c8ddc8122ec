------------------------- MODULE MCLongjingCredits -------------------------
(***************************************************************************)
(* Instances of LongjingCredits for TLC.                                   *)
(***************************************************************************)
EXTENDS LongjingCredits, TLC

(* Notes and refund keys are interchangeable in the safety runs.           *)
NoteSymmetry == Permutations(Commitments)
=============================================================================
