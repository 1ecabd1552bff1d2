---------------------------- MODULE MCMutexDeque ----------------------------
(***************************************************************************)
(* One owner and two thieves for TLC.                                      *)
(***************************************************************************)
EXTENDS MutexDeque, TLC

CONSTANTS p1, p2  \* model values

ThiefSymmetry == Permutations(Thief)
=============================================================================
