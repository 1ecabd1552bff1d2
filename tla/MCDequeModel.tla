---------------------------- MODULE MCDequeModel ----------------------------
(***************************************************************************)
(* The bounds of model/deque_model.c for TLC, but for one more item and    *)
(* pop: with four items no thief exhausts two batches of attempts.         *)
(***************************************************************************)
EXTENDS DequeModel, TLC

CONSTANTS d1, d2, p1, p2  \* model values

SmallAndLarge == <<4, 8>>
ModelValue == Item \cup {Zero}
ModelCapacity == [d \in Deque |-> IF d = d2 THEN 8 ELSE 4]
ModelItems == [d \in Deque |-> IF d = d2 THEN 1 ELSE 5]
ModelConfig == [max_attempts |-> 2, initial_window |-> 4, max_window |-> 16]

ThiefSymmetry == Permutations(Thief)
=============================================================================
