----------------------------- MODULE MutexDeque -----------------------------
(***************************************************************************)
(* The baseline of src/mutex/work_stealing_deque.h: a circular buffer      *)
(* under one mutex.  Taking the mutex, the body of an operation, and       *)
(* leaving it are a step each; the body, with any resize, is invisible to  *)
(* other threads until the mutex is released.                              *)
(***************************************************************************)
EXTENDS Integers, FiniteSets

CONSTANTS
  Owner, Thief,   \* the thread at the bottom, the threads at the top
  Nobody,         \* the mutex is free
  MinCapacity,    \* min_capacity_
  MaxSize,        \* buffer_.max_size()
  MaxPushes,      \* bound: items ever pushed
  Name,           \* of this deque
  Zero            \* T{}

ASSUME MutexAssumption ==
  /\ MinCapacity \in Nat \ {0} /\ MaxSize \in Nat /\ MaxPushes \in Nat
  /\ Owner \notin Thief /\ Nobody \notin Thief \cup {Owner}

Item == {<<Name, k>> : k \in 1..MaxPushes}
Value == Item \cup {Zero}
Thread == Thief \cup {Owner}

ASSUME ZeroIsNoItem == Zero \notin Item

VARIABLES
  buffer, top, size,  \* buffer_, top_, size_
  mutex,              \* the holder of mutex_
  pc, popped,         \* pc[p] of each thread; the owner's value in pop_bottom
  pushed, returned    \* history

deque == <<buffer, top, size>>
vars == <<deque, mutex, pc, popped, pushed, returned>>

Capacity == Cardinality(DOMAIN buffer)

\* Faulty variant: without the mask.
IndexUnmasked(offset) == top + offset

Index(offset) == (top + offset) % Capacity

\* Before construction: no buffer.
Init ==
  /\ buffer = [k \in {} |-> Zero] /\ top = 0 /\ size = 0
  /\ mutex = Nobody
  /\ pc = [p \in Thread |-> "idle"] /\ popped = Zero
  /\ pushed = 0 /\ returned = [v \in Value |-> 0]

Constructed == Capacity > 0

Construct ==
  /\ ~Constructed
  /\ buffer' = [k \in 0..MinCapacity - 1 |-> Zero]
  /\ UNCHANGED <<top, size, mutex, pc, popped, pushed, returned>>

Lock(p, op) ==
  /\ Constructed
  /\ pc[p] = "idle" /\ mutex = Nobody
  /\ mutex' = p
  /\ pc' = [pc EXCEPT ![p] = op]
  /\ UNCHANGED <<deque, popped, pushed, returned>>

In(p, op) == pc[p] = op
Done(p) == pc' = [pc EXCEPT ![p] = "unlock"] /\ UNCHANGED mutex

\* Faulty variant: the items keep their places.
ResizedInPlace(capacity, n) ==
  [k \in 0..capacity - 1 |-> IF k < n THEN buffer[k] ELSE Zero]

\* resize(): the n waiting items at the front of a value-initialised buffer.
Resized(capacity, n) ==
  [k \in 0..capacity - 1 |-> IF k < n THEN buffer[Index(k)] ELSE Zero]

Full == size = Capacity - 1

\* The caller's item is the next one.
NewItem == <<Name, pushed + 1>>

PushInPlace ==
  /\ In(Owner, "push")
  /\ ~Full
  /\ buffer' = [buffer EXCEPT ![Index(size)] = NewItem]
  /\ size' = size + 1 /\ pushed' = pushed + 1
  /\ Done(Owner)
  /\ UNCHANGED <<top, popped, returned>>

PushGrows ==
  /\ In(Owner, "push")
  /\ Full /\ Capacity <= MaxSize \div 2
  /\ buffer' = [Resized(2 * Capacity, size) EXCEPT ![size] = NewItem]
  /\ top' = 0
  /\ size' = size + 1 /\ pushed' = pushed + 1
  /\ Done(Owner)
  /\ UNCHANGED <<popped, returned>>

\* std::length_error, thrown before anything is changed.
PushThrows ==
  /\ In(Owner, "push")
  /\ Full /\ Capacity > MaxSize \div 2
  /\ Done(Owner)
  /\ UNCHANGED <<deque, popped, pushed, returned>>

\* The capacity after a pop that leaves n items: halved while a quarter is
\* more than n, down to the minimum.
Target(capacity, n) ==
  LET halved[c \in Nat] == IF c > MinCapacity /\ n < c \div 4 THEN halved[c \div 2] ELSE c
  IN halved[capacity]

PopTakes ==
  /\ In(Owner, "pop")
  /\ size > 0
  /\ popped' = buffer[Index(size - 1)]
  /\ size' = size - 1
  /\ LET target == Target(Capacity, size - 1) IN
       \/ target = Capacity /\ UNCHANGED <<buffer, top>>
       \/ target # Capacity /\ buffer' = Resized(target, size - 1) /\ top' = 0
  /\ Done(Owner)
  /\ UNCHANGED <<pushed, returned>>

\* A steal takes the item at top_ and does not shrink.
StealTakes(p) ==
  /\ In(p, "steal")
  /\ size > 0
  /\ returned' = [returned EXCEPT ![buffer[top]] = @ + 1]
  /\ top' = Index(1)
  /\ size' = size - 1
  /\ Done(p)
  /\ UNCHANGED <<buffer, popped, pushed>>

Empty(p) ==
  /\ In(p, "pop") \/ In(p, "steal")
  /\ size = 0
  /\ Done(p)
  /\ UNCHANGED <<deque, popped, pushed, returned>>

\* The lock guard's end of scope; the owner's pop now has its value.
Unlock(p) ==
  /\ In(p, "unlock")
  /\ mutex' = Nobody
  /\ pc' = [pc EXCEPT ![p] = "idle"]
  /\ returned' = IF p = Owner /\ popped # Zero THEN [returned EXCEPT ![popped] = @ + 1] ELSE returned
  /\ popped' = IF p = Owner THEN Zero ELSE popped
  /\ UNCHANGED <<deque, pushed>>

Next ==
  \/ Construct
  \/ Lock(Owner, "push") /\ pushed < MaxPushes
  \/ Lock(Owner, "pop")
  \/ PushInPlace \/ PushGrows \/ PushThrows \/ PopTakes
  \/ \E p \in Thief : Lock(p, "steal") \/ StealTakes(p)
  \/ \E p \in Thread : Empty(p) \/ Unlock(p)

Spec == Init /\ [][Next]_vars
-----------------------------------------------------------------------------
\* Every variable has its type; top_ is a slot of the buffer.
TypeOK ==
  /\ buffer \in [DOMAIN buffer -> Value]
  /\ Constructed => top \in DOMAIN buffer
  /\ size \in Nat /\ pushed \in Nat
  /\ mutex \in Thread \cup {Nobody}
  /\ pc \in [Thread -> {"idle", "push", "pop", "steal", "unlock"}]
  /\ popped \in Value /\ returned \in [Value -> Nat]

Waiting == [k \in 1..size |-> buffer[Index(k - 1)]]

Abstract == INSTANCE AbstractDeque WITH
  Deque <- {Name},
  open <- [d \in {Name} |-> Constructed],
  queue <- [d \in {Name} |-> Waiting],
  reserved <- [d \in {Name} |-> {popped} \ {Zero}],
  committed <- [d \in {Name} |-> FALSE],
  accepted <- [d \in {Name} |-> pushed],
  taken <- [d \in {Name} |-> returned]

\* The baseline keeps the promises of the lock-free deque: growing, shrinking
\* and wrapping around change nothing of the sequence of items, a steal takes
\* the oldest item and a pop the newest, each once.
ImplementsAbstract == Abstract!Spec
=============================================================================
