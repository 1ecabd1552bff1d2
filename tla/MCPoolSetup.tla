---------------------------- MODULE MCPoolSetup ----------------------------
(***************************************************************************)
(* Requests of up to three size classes for TLC, with a size_t of 5 digits *)
(* in which two of them can add up to more than it holds.                  *)
(***************************************************************************)
EXTENDS PoolSetup, SequencesExt

SmallRequests ==
  BoundedSeq([log_size: 0 .. MaxLogSize + 1, count: {0, 1, 2, 30}], 3)
=============================================================================
