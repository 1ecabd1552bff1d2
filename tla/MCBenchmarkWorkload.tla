------------------------ MODULE MCBenchmarkWorkload ------------------------
(***************************************************************************)
(* One deque for TLC, with up to two workers.  The benchmark's pool has    *)
(* one record of each class up to the number of items; with fewer, a push  *)
(* may fail.                                                               *)
(***************************************************************************)
EXTENDS BenchmarkWorkload

CONSTANTS d1, p1, p2  \* model values

SmallPool == <<2, 4>>
BenchmarkValue == Item \cup {Zero}
SmallFirst == [d \in Deque |-> 2]
FiveItems == [d \in Deque |-> 5]
=============================================================================
