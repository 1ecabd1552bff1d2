--------------------------- MODULE StealProgress ---------------------------
(***************************************************************************)
(* The progress that src/README.md promises: a suspended thread cannot     *)
(* prevent another operation from returning, nor a suspended owner the     *)
(* thieves from getting the items that wait.                               *)
(***************************************************************************)
EXTENDS DequeInvariants

\* The thieves are running threads that call steal() in a loop, as the
\* workers of the benchmark do.
Tireless == \A p \in Thief : WF_vars(ThiefStep(p))

\* Wherever the owner stops, in a push, a pop or in the middle of a shrink,
\* tireless thieves empty the deque, nothing being assumed of the owner; and
\* its finitely many pushes, pops and resizes cannot make them fail for ever.
AlwaysDrained == Tireless => \A d \in Deque : []<>(Window(d) = {})

\* What is said of an owner's call: it neither rests between calls nor is the
\* deque gone.
InCall(d) == owner[d].pc \notin {"none", "idle"}

\* An owner that keeps running returns from each of its calls, whatever the
\* thieves do or leave undone: no scan of the pool, copy, walk along the chain
\* or switch of the indices waits for a thief, or is started over because of
\* what thieves do meanwhile.  (A steal has no loop.)
WaitFree ==
  \A d \in Deque :
    WF_vars(InCall(d) /\ OwnerStep(d)) => [](InCall(d) => <>~InCall(d))
=============================================================================
