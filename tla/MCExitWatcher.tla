--------------------------- MODULE MCExitWatcher ---------------------------
(***************************************************************************)
(* Instances of ExitWatcher for TLC.                                       *)
(***************************************************************************)
EXTENDS ExitWatcher
=============================================================================
