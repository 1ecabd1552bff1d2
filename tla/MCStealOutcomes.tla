-------------------------- MODULE MCStealOutcomes --------------------------
(***************************************************************************)
(* Instances of StealOutcomes for TLC, with the constants and bounds of    *)
(* MCWorkStealingDeque.                                                    *)
(***************************************************************************)
EXTENDS StealOutcomes, MCWorkStealingDeque
=============================================================================
