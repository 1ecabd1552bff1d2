------------------------ MODULE MCWorkStealingDeque ------------------------
(***************************************************************************)
(* Instances of the work-stealing deques for TLC.                          *)
(***************************************************************************)
EXTENDS DequeRefinement, StealProgress, TLC

CONSTANTS
  d1, d2, p1, p2,  \* model values: two deques, two thieves
  Fill             \* bound: d1 pops only when Fill items were pushed into it

MCValue == Item \cup {Zero}

\* Pools: one record of each of two or three consecutive size classes.
Two == <<4, 8>>
Three == <<4, 8, 16>>

\* d2 starts in the size class into which d1 grows.
SmallInit == [d \in Deque |-> IF d = d2 THEN 8 ELSE 4]

Items(n) == [d \in Deque |-> IF d = d2 THEN 1 ELSE n]
Items4 == Items(4)
Items6 == Items(6)
Items8 == Items(8)

ThiefSymmetry == Permutations(Thief)

\* Larger instances first fill d1: as an action constraint of their runs, this
\* skips the behaviours of a short deque, which the smaller ones cover.
FilledFirst == owner[d1].pc = "idle" /\ owner'[d1].pc = "popTop" => pushed[d1] >= Fill
=============================================================================
