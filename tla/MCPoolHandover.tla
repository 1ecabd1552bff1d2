--------------------------- MODULE MCPoolHandover ---------------------------
(***************************************************************************)
(* Three owners and two thieves for TLC.                                   *)
(***************************************************************************)
EXTENDS PoolHandover, TLC

CONSTANTS o1, o2, o3, p1, p2  \* model values

ThreadSymmetry == Permutations(Owner) \cup Permutations(Thief)
=============================================================================
