---------------------------- MODULE MCFastPhase ----------------------------
(***************************************************************************)
(* Instances of FastPhase for TLC.                                         *)
(***************************************************************************)
EXTENDS FastPhaseProperties
=============================================================================
