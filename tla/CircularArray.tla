--------------------------- MODULE CircularArray ---------------------------
(***************************************************************************)
(* The ring buffers of src/circular_array.h: CircularArray<T>.             *)
(*                                                                         *)
(* A buffer is named by a record number r; its capacity never changes.     *)
(* The code stores log2 of the capacity and shifts it back into a size     *)
(* (line 22); the model keeps the size itself, so "the class of            *)
(* log_size + 1" is the class of twice the capacity.                       *)
(*                                                                         *)
(* segment_ is an array of atomics that any thread may read at any time.   *)
(* low_water_mark_ and prev_ are plain fields, touched only by the thread  *)
(* that owns the buffer.                                                   *)
(***************************************************************************)
EXTENDS Integers, Sequences

CONSTANTS
  Capacity,   \* Capacity[r]: number of slots of record r
  Value,      \* what a slot can hold
  Zero        \* T{}: what a slot holds before its first store

Record == DOMAIN Capacity
NoRecord == 0        \* nullptr
NoMark == -1         \* numeric_limits<uint64_t>::max(): no store since reset

ASSUME CapacityAssumption ==
  Capacity \in Seq(Nat \ {0})

ASSUME ZeroAssumption == Zero \in Value

VARIABLE buf  \* buf[r] = [slots, low, prev]: segment_, low_water_mark_, prev_

Buffer(c) ==
  [slots: [0..c - 1 -> Value], low: Nat \cup {NoMark}, prev: Record \cup {NoRecord}]

\* A freshly allocated buffer: value-initialised slots, no mark, no link.
FreshBuffer(c) ==
  [slots |-> [k \in 0..c - 1 |-> Zero], low |-> NoMark, prev |-> NoRecord]

\* The mask i & (size - 1) of a power-of-two size.
Index(r, i) == i % Capacity[r]

Load(r, i) == buf[r].slots[Index(r, i)]

\* Faulty variant: the highest mark instead of the lowest.
MaxMark(m, n) ==
  IF m = NoMark \/ (n # NoMark /\ n > m) THEN n ELSE m

\* std::min on marks, NoMark being the largest uint64_t.
MinMark(m, n) ==
  IF m = NoMark \/ (n # NoMark /\ n < m) THEN n ELSE m

StoreNoMark(r, i, v) ==
  buf' = [buf EXCEPT ![r].slots[Index(r, i)] = v]

Store(r, i, v) ==
  buf' = [buf EXCEPT ![r].slots[Index(r, i)] = v,
                     ![r].low = MinMark(@, i)]

\* The owner's reset of a claimed record, then its link into a chain.
ResetAndLink(r, previous) ==
  buf' = [buf EXCEPT ![r].low = NoMark, ![r].prev = previous]

\* shrink(): the destination inherits the lowest mark of the arrays walked.
LowerMark(r, mark) ==
  buf' = [buf EXCEPT ![r].low = MinMark(@, mark)]

\* Faulty variant: the oldest item is not copied.
CopyStartPastTop(t, b, mark) ==
  CASE mark = NoMark -> b
    [] mark # NoMark -> IF t > mark THEN t + 1 ELSE mark

\* shrink(): first index to copy, for the live range t .. b - 1.
CopyStart(t, b, mark) ==
  CASE mark = NoMark -> b
    [] mark # NoMark -> IF t > mark THEN t ELSE mark

BufferTypeOK ==
  /\ DOMAIN buf = Record
  /\ \A r \in Record : buf[r] \in Buffer(Capacity[r])
=============================================================================
