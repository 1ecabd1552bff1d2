--------------------------- MODULE MCStealBackoff ---------------------------
(***************************************************************************)
(* One worker, two colleagues and two addresses for TLC, with all small    *)
(* configurations, most of which the constructor rejects, and the seeds of *)
(* the benchmark, 0x9e3779b9 * (t + 1) modulo 2 ^ 32.                      *)
(***************************************************************************)
EXTENDS JitteredWorker, TLC

CONSTANTS a1, a2  \* model values

SmallConfigs == [max_attempts: {0, 1, 3, 65}, initial_window: 0..5, max_window: {0, 1, 4, 6, 8, 16}]

AddressSymmetry == Permutations(Address)

Worker3 == 1..3

\* The bits of 0x9e3779b9, 0x3c6ef372 and 0xdaa66d2b.
BenchmarkSeed ==
  << {0, 3, 4, 5, 7, 8, 11, 12, 13, 14, 16, 17, 18, 20, 21, 25, 26, 27, 28, 31},
     {1, 4, 5, 6, 8, 9, 12, 13, 14, 15, 17, 18, 19, 21, 22, 26, 27, 28, 29},
     {0, 1, 3, 5, 8, 10, 11, 13, 14, 17, 18, 21, 23, 25, 27, 28, 30, 31} >>
=============================================================================
