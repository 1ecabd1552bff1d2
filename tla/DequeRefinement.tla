-------------------------- MODULE DequeRefinement --------------------------
(***************************************************************************)
(* WorkStealingDeque implements AbstractDeque.                             *)
(***************************************************************************)
EXTENDS DequeInvariants

\* The waiting items, oldest first.
Waiting(d) ==
  IF Live(d)
  THEN [k \in 1..LogicalBottom(d) - top[d] |-> ItemAt(d, top[d] + k - 1)]
  ELSE <<>>

\* The owner has seen that no thief can get the item of its pop.
Committed(d) == Held(d) # {} /\ owner[d].pc \notin {"popTop", "popCas"}

Abstract == INSTANCE AbstractDeque WITH
  open <- [d \in Deque |-> Live(d)],
  queue <- [d \in Deque |-> Waiting(d)],
  reserved <- [d \in Deque |-> Held(d)],
  committed <- [d \in Deque |-> Committed(d)],
  accepted <- pushed,
  taken <- returned

\* Every step of the lock-free deques is a step of the abstract deques or
\* changes nothing there: a steal returns the oldest waiting item or the one
\* a pop was about to lose, a pop the newest, and growing, shrinking, moving
\* the indices and aborting are invisible.
ImplementsAbstract == Abstract!Spec
=============================================================================
