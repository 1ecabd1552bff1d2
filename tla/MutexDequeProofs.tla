-------------------------- MODULE MutexDequeProofs --------------------------
(***************************************************************************)
(* Theorems about MutexDeque, the baseline, for any number of thieves, any *)
(* capacities and any number of pushes: it has its types, and implements   *)
(* AbstractDeque step by step.                                             *)
(***************************************************************************)
EXTENDS MutexDeque, FiniteSetTheorems, SequenceTheorems, WellFoundedInduction, TLAPS

-----------------------------------------------------------------------------
(* Induction over the naturals, for sets in place of predicates.           *)

\* A set of naturals has a least element.
LEMMA LeastNumber ==
  ASSUME NEW T, T \subseteq Nat, T # {}
  PROVE  \E m \in T : \A k \in T : m <= k
<1> DEFINE R == OpToRel(<, Nat)
<1>1. IsWellFoundedOn(R, Nat)
  BY NatLessThanWellFounded
<1>2. \A x, y \in Nat : x < y => <<x, y>> \in R
  BY DEF OpToRel
<1> HIDE DEF R
<1>3. PICK m \in T : \A k \in T : ~(<<k, m>> \in R)
  BY <1>1, WFMin
<1>4. \A k \in T : ~(k < m)
  BY <1>2, <1>3
<1>5. \A k \in T : m <= k
  BY <1>4
<1> QED BY <1>5

\* A set that holds each number below which it holds all numbers holds all.
LEMMA CourseOfValues ==
  ASSUME NEW S, \A n \in Nat : (\A k \in Nat : k < n => k \in S) => n \in S
  PROVE  Nat \subseteq S
<1> SUFFICES ASSUME Nat \ S # {} PROVE FALSE
  OBVIOUS
<1>1. PICK m \in Nat \ S : \A k \in Nat \ S : m <= k
  BY LeastNumber
<1>2. \A k \in Nat : k < m => k \in S
  BY <1>1
<1> QED BY <1>1, <1>2

-----------------------------------------------------------------------------
(* The loop of pop_bottom() that halves the capacity.                      *)

Halves(n, c) == c > MinCapacity /\ n < c \div 4

\* g has the equation of the loop up to the capacity m.
HalvesUpTo(g, n, m) ==
  \A c \in 0..m : g[c] = IF Halves(n, c) THEN g[c \div 2] ELSE c

\* The loop goes on at a smaller capacity, which still holds n items.
LEMMA HalfIsSmaller ==
  ASSUME NEW n \in Nat, NEW c \in Nat, Halves(n, c)
  PROVE  c \div 2 \in Nat /\ c \div 2 < c /\ n < c \div 2
BY MutexAssumption DEF Halves

\* What the equation says of a capacity does not depend on where it ends.
LEMMA HalvesAgree ==
  ASSUME NEW n \in Nat, NEW g, NEW h, NEW m \in Nat, NEW k \in Nat,
         HalvesUpTo(g, n, m), HalvesUpTo(h, n, k)
  PROVE  \A c \in Nat : c <= m /\ c <= k => g[c] = h[c]
<1> DEFINE S == {c \in Nat : c <= m /\ c <= k => g[c] = h[c]}
<1>1. ASSUME NEW c \in Nat, \A b \in Nat : b < c => b \in S, c <= m, c <= k
      PROVE  g[c] = h[c]
  <2>1. g[c] = (IF Halves(n, c) THEN g[c \div 2] ELSE c)
        /\ h[c] = (IF Halves(n, c) THEN h[c \div 2] ELSE c)
    BY <1>1 DEF HalvesUpTo
  <2>2. CASE Halves(n, c)
    <3>1. c \div 2 \in Nat /\ c \div 2 < c
      BY <2>2, HalfIsSmaller
    <3>2. g[c \div 2] = h[c \div 2]
      BY <1>1, <3>1
    <3> QED BY <2>1, <2>2, <3>2
  <2>3. CASE ~Halves(n, c)
    BY <2>1, <2>3
  <2> QED BY <2>2, <2>3
<1>2. \A c \in Nat : (\A b \in Nat : b < c => b \in S) => c \in S
  BY <1>1
<1> HIDE DEF S
<1>3. Nat \subseteq S
  BY <1>2, CourseOfValues
<1> QED BY <1>3 DEF S

\* The equation has solutions up to every capacity.
LEMMA HalvesExists ==
  ASSUME NEW n \in Nat
  PROVE  \A m \in Nat : \E g : HalvesUpTo(g, n, m)
<1> DEFINE S == {m \in Nat : \E g : HalvesUpTo(g, n, m)}
<1>1. ASSUME NEW m \in Nat, \A k \in Nat : k < m => k \in S
      PROVE  \E g : HalvesUpTo(g, n, m)
  <2>1. CASE m = 0
    <3>1. ~Halves(n, 0)
      BY MutexAssumption DEF Halves
    <3>2. HalvesUpTo([c \in {0} |-> 0], n, 0)
      BY <3>1 DEF HalvesUpTo
    <3> QED BY <2>1, <3>2
  <2>2. CASE m # 0
    <3>1. PICK g : HalvesUpTo(g, n, m - 1)
      BY <1>1, <2>2
    <3> DEFINE f == [c \in 0..m |-> IF c < m THEN g[c] ELSE IF Halves(n, m) THEN g[m \div 2] ELSE m]
    <3>2. ASSUME NEW c \in 0..m PROVE f[c] = IF Halves(n, c) THEN f[c \div 2] ELSE c
      <4>1. Halves(n, c) => c \div 2 \in 0..m /\ c \div 2 < c
        BY HalfIsSmaller
      <4>2. CASE c < m
        <5>1. c \in 0..m-1 /\ f[c] = g[c] /\ (Halves(n, c) => f[c \div 2] = g[c \div 2])
          BY <4>1, <4>2
        <5>2. g[c] = IF Halves(n, c) THEN g[c \div 2] ELSE c
          BY <3>1, <5>1 DEF HalvesUpTo
        <5> HIDE DEF f
        <5> QED BY <5>1, <5>2
      <4>3. CASE ~(c < m)
        <5>1. c = m
          BY <4>3
        <5>2. f[c] = (IF Halves(n, m) THEN g[m \div 2] ELSE m)
              /\ (Halves(n, m) => f[m \div 2] = g[m \div 2])
          BY <4>1, <5>1
        <5> HIDE DEF f
        <5> QED BY <5>1, <5>2
      <4> QED BY <4>2, <4>3
    <3> HIDE DEF f
    <3>3. HalvesUpTo(f, n, m)
      BY <3>2 DEF HalvesUpTo
    <3> QED BY <3>3
  <2> QED BY <2>1, <2>2
<1>2. \A m \in Nat : (\A k \in Nat : k < m => k \in S) => m \in S
  BY <1>1
<1> HIDE DEF S
<1>3. Nat \subseteq S
  BY <1>2, CourseOfValues
<1> QED BY <1>3 DEF S

\* The loop ends, at a capacity that it does not halve any more.
LEMMA TargetEquation ==
  ASSUME NEW n \in Nat
  PROVE  \A c \in Nat : Target(c, n) = IF Halves(n, c) THEN Target(c \div 2, n) ELSE c
<1> DEFINE Eq(h) == h = [c \in Nat |-> IF c > MinCapacity /\ n < c \div 4 THEN h[c \div 2] ELSE c]
           up(m) == CHOOSE g : HalvesUpTo(g, n, m)
           all == [c \in Nat |-> up(c)[c]]
           H == CHOOSE h : Eq(h)
<1>1. \A m \in Nat : HalvesUpTo(up(m), n, m)
  BY HalvesExists
<1>2. ASSUME NEW c \in Nat
      PROVE  all[c] = IF Halves(n, c) THEN all[c \div 2] ELSE c
  <2>1. up(c)[c] = IF Halves(n, c) THEN up(c)[c \div 2] ELSE c
    <3> HIDE DEF up
    <3> QED BY <1>1 DEF HalvesUpTo
  <2>2. ASSUME Halves(n, c) PROVE up(c)[c \div 2] = up(c \div 2)[c \div 2]
    <3>1. c \div 2 \in Nat /\ c \div 2 < c
      BY <2>2, HalfIsSmaller
    <3>2. HalvesUpTo(up(c), n, c) /\ HalvesUpTo(up(c \div 2), n, c \div 2)
      BY <1>1, <3>1
    <3> HIDE DEF up
    <3> QED BY <3>1, <3>2, HalvesAgree
  <2>3. Halves(n, c) => c \div 2 \in Nat
    BY HalfIsSmaller
  <2> HIDE DEF up
  <2> QED BY <2>1, <2>2, <2>3
<1>3. Eq(all)
  <2>1. all = [c \in Nat |-> all[c]]
    OBVIOUS
  <2> HIDE DEF all
  <2> QED BY <1>2, <2>1 DEF Halves
<1> HIDE DEF all, up
<1>4. Eq(H)
  <2> HIDE DEF Eq
  <2> QED BY <1>3
<1>5. \A c : Target(c, n) = H[c]
  BY DEF Target
<1> HIDE DEF H
<1>6. \A c \in Nat : H[c] = IF Halves(n, c) THEN H[c \div 2] ELSE c
  BY <1>4 DEF Halves
<1> QED BY <1>5, <1>6

\* The smaller buffer holds the items that are left, and one slot more.
LEMMA TargetHolds ==
  ASSUME NEW n \in Nat
  PROVE  \A c \in Nat : n < c => Target(c, n) \in Nat /\ n < Target(c, n)
<1> DEFINE S == {c \in Nat : n < c => Target(c, n) \in Nat /\ n < Target(c, n)}
<1>1. ASSUME NEW c \in Nat, \A b \in Nat : b < c => b \in S, n < c
      PROVE  Target(c, n) \in Nat /\ n < Target(c, n)
  <2>1. Target(c, n) = IF Halves(n, c) THEN Target(c \div 2, n) ELSE c
    BY TargetEquation
  <2>2. CASE Halves(n, c)
    <3>1. c \div 2 \in Nat /\ c \div 2 < c /\ n < c \div 2
      BY <2>2, HalfIsSmaller
    <3> QED BY <1>1, <2>1, <2>2, <3>1
  <2>3. CASE ~Halves(n, c)
    BY <1>1, <2>1, <2>3
  <2> QED BY <2>2, <2>3
<1>2. \A c \in Nat : (\A b \in Nat : b < c => b \in S) => c \in S
  BY <1>1
<1> HIDE DEF S
<1>3. Nat \subseteq S
  BY <1>2, CourseOfValues
<1> QED BY <1>3 DEF S

-----------------------------------------------------------------------------
(* The inductive invariant.                                                *)

\* The buffer is an array that is never full, and what waits are items.
BufferInv ==
  /\ Capacity \in Nat /\ DOMAIN buffer = 0..Capacity - 1
  /\ Constructed => size < Capacity
  /\ ~Constructed => top = 0 /\ size = 0 /\ \A p \in Thread : pc[p] = "idle"
  /\ \A k \in 0..size - 1 : buffer[Index(k)] \in Item

\* Only the holder of the mutex is inside an operation, and each thread is
\* inside one of its own; a popped value is that of the owner's call.
LockInv ==
  /\ \A p \in Thread : pc[p] # "idle" => mutex = p
  /\ pc[Owner] # "steal" /\ \A p \in Thief : pc[p] \notin {"push", "pop"}
  /\ pushed <= MaxPushes /\ (pc[Owner] = "push" => pushed < MaxPushes)
  /\ popped # Zero => pc[Owner] = "unlock"

MutexInv == TypeOK /\ BufferInv /\ LockInv

\* The k-th of the waiting items, from 0 on.
At(k) == buffer[Index(k)]

-----------------------------------------------------------------------------
(* Buffers and indices.                                                    *)

\* The size of an array.
LEMMA ArraySize ==
  ASSUME NEW f, NEW n \in Nat, DOMAIN f = 0..n - 1
  PROVE  Cardinality(DOMAIN f) = n
BY FS_Interval

\* A masked index runs around the buffer once.
LEMMA IndexValue ==
  ASSUME NEW c \in Nat, NEW t \in 0..c - 1, NEW k \in 0..c - 1
  PROVE  (t + k) % c = IF t + k < c THEN t + k ELSE t + k - c
<1>1. CASE t + k < c
  BY <1>1
<1>2. CASE ~(t + k < c)
  <2>1. t + k - c \in 0..c - 1
    BY <1>2
  <2>2. (t + k - c) % c = t + k - c
    BY <2>1
  <2>3. (t + k) % c = (t + k - c) % c
    BY <1>2
  <2> QED BY <1>2, <2>2, <2>3
<1> QED BY <1>1, <1>2

\* Before construction nobody is inside an operation.
LEMMA InsideConstructed ==
  ASSUME MutexInv, NEW p \in Thread, pc[p] # "idle"
  PROVE  /\ Capacity \in Nat \ {0} /\ DOMAIN buffer = 0..Capacity - 1
         /\ top \in 0..Capacity - 1 /\ size \in 0..Capacity - 1
         /\ buffer \in [0..Capacity - 1 -> Value]
BY DEF MutexInv, BufferInv, TypeOK, Constructed

\* Indices of the buffer, and that two of them differ.
LEMMA IndexFacts ==
  ASSUME MutexInv, NEW p \in Thread, pc[p] # "idle"
  PROVE  /\ \A k \in 0..Capacity - 1 : Index(k) \in 0..Capacity - 1 /\ At(k) \in Value
         /\ \A k, j \in 0..Capacity - 1 : Index(k) = Index(j) => k = j
<1>1. /\ Capacity \in Nat \ {0} /\ top \in 0..Capacity - 1
      /\ buffer \in [0..Capacity - 1 -> Value]
  BY InsideConstructed
<1>2. \A k \in 0..Capacity - 1 :
        Index(k) = IF top + k < Capacity THEN top + k ELSE top + k - Capacity
  BY <1>1, IndexValue DEF Index
<1> HIDE DEF Capacity
<1>3. \A k \in 0..Capacity - 1 : Index(k) \in 0..Capacity - 1
  BY <1>1, <1>2
<1>4. \A k, j \in 0..Capacity - 1 : Index(k) = Index(j) => k = j
  BY <1>1, <1>2
<1>5. \A k \in 0..Capacity - 1 : At(k) \in Value
  BY <1>1, <1>3 DEF At
<1> QED BY <1>3, <1>4, <1>5

-----------------------------------------------------------------------------
(* What each body does to the items that wait.                             *)

\* A push behind the others.
LEMMA InPlaceItems ==
  ASSUME MutexInv, PushInPlace
  PROVE  /\ Capacity' = Capacity /\ size' < Capacity
         /\ \A k \in 0..size : At(k)' = IF k < size THEN At(k) ELSE NewItem
<1>1. Owner \in Thread /\ pc[Owner] # "idle"
  BY DEF PushInPlace, In, Thread
<1>2. /\ Capacity \in Nat \ {0} /\ DOMAIN buffer = 0..Capacity - 1 /\ size \in 0..Capacity - 1
  BY <1>1, InsideConstructed
<1>3. DOMAIN buffer' = DOMAIN buffer
  BY DEF PushInPlace
<1>4. Capacity' = Capacity
  BY <1>3 DEF Capacity
<1>5. \A k : Index(k)' = Index(k)
  BY <1>4 DEF Index, PushInPlace
<1>6. Index(size) \in 0..Capacity - 1 /\ \A k \in 0..size - 1 : Index(k) # Index(size)
  BY <1>1, <1>2, IndexFacts
<1>7. size' = size + 1 /\ size # Capacity - 1
      /\ buffer' = [buffer EXCEPT ![Index(size)] = NewItem]
  BY DEF PushInPlace, Full
<1>8. size' < Capacity
  BY <1>2, <1>7
<1>9. \A k : At(k)' = buffer'[Index(k)]
  BY <1>5 DEF At
<1>10. buffer'[Index(size)] = NewItem
       /\ \A k \in 0..size - 1 : buffer'[Index(k)] = buffer[Index(k)]
  <2> HIDE DEF Capacity
  <2> QED BY <1>2, <1>6, <1>7
<1> HIDE DEF Capacity
<1>11. \A k \in 0..size : At(k)' = IF k < size THEN At(k) ELSE NewItem
  BY <1>2, <1>9, <1>10 DEF At
<1> QED BY <1>4, <1>8, <1>11

\* A resize moves what waits to the front of the new buffer.
LEMMA ResizedItems ==
  ASSUME MutexInv, NEW p \in Thread, pc[p] # "idle", NEW c \in Nat, NEW n \in 0..c - 1, n <= size
  PROVE  /\ DOMAIN Resized(c, n) = 0..c - 1 /\ Resized(c, n) \in [0..c - 1 -> Value]
         /\ \A k \in 0..n - 1 : Resized(c, n)[k] = At(k)
<1>1. Capacity \in Nat /\ size \in 0..Capacity - 1
  BY InsideConstructed
<1>2. \A k \in 0..n - 1 : At(k) \in Value
  <2> HIDE DEF Capacity
  <2> QED BY <1>1, IndexFacts
<1>3. Resized(c, n) = [k \in 0..c - 1 |-> IF k < n THEN At(k) ELSE Zero]
  BY DEF Resized, At
<1>4. \A k \in 0..c - 1 : (IF k < n THEN At(k) ELSE Zero) \in Value
  BY <1>2 DEF Value
<1> HIDE DEF At
<1> QED BY <1>3, <1>4

\* A buffer with n items at its front.
LEMMA FrontItems ==
  ASSUME NEW c \in Nat \ {0}, DOMAIN buffer' = 0..c - 1, top' = 0
  PROVE  Capacity' = c /\ \A k \in 0..c - 1 : At(k)' = buffer'[k]
<1>1. Capacity' = c
  BY ArraySize DEF Capacity
<1>2. \A k \in 0..c - 1 : (0 + k) % c = k
  OBVIOUS
<1> QED BY <1>1, <1>2 DEF At, Index

\* A push that doubles the buffer.
LEMMA GrowItems ==
  ASSUME MutexInv, PushGrows
  PROVE  /\ Capacity' = 2 * Capacity /\ size' < 2 * Capacity
         /\ DOMAIN buffer' = 0..2 * Capacity - 1
         /\ \A k \in 0..2 * Capacity - 1 : buffer'[k] \in Value \cup {NewItem}
         /\ \A k \in 0..size : At(k)' = IF k < size THEN At(k) ELSE NewItem
<1>1. Owner \in Thread /\ pc[Owner] # "idle"
  BY DEF PushGrows, In, Thread
<1>2. /\ Capacity \in Nat \ {0} /\ size \in 0..Capacity - 1
  BY <1>1, InsideConstructed
<1> DEFINE c == 2 * Capacity
           r == Resized(c, size)
<1>3. c \in Nat \ {0} /\ size \in 0..c - 1 /\ size + 1 < c
  <2>1. size = Capacity - 1 => size + 1 < c \/ Capacity = 1 \/ Capacity >= 2
    BY <1>2
  <2> HIDE DEF Capacity
  <2> QED BY <1>2
<1> HIDE DEF c
<1>4. /\ DOMAIN r = 0..c - 1 /\ r \in [0..c - 1 -> Value]
      /\ \A k \in 0..size - 1 : r[k] = At(k)
  BY <1>1, <1>2, <1>3, ResizedItems
<1>5. buffer' = [r EXCEPT ![size] = NewItem] /\ top' = 0 /\ size' = size + 1
  BY DEF PushGrows, c
<1> HIDE DEF r
<1>6. DOMAIN buffer' = 0..c - 1
  BY <1>4, <1>5
<1>7. Capacity' = c /\ \A k \in 0..c - 1 : At(k)' = buffer'[k]
  BY <1>3, <1>5, <1>6, FrontItems
<1>8. buffer'[size] = NewItem /\ \A k \in 0..size - 1 : buffer'[k] = r[k]
  BY <1>2, <1>3, <1>4, <1>5
<1>9. \A k \in 0..c - 1 : buffer'[k] \in Value \cup {NewItem}
  BY <1>4, <1>5
<1>10. size' < c
  BY <1>3, <1>5
<1>11. \A k \in 0..size : At(k)' = IF k < size THEN At(k) ELSE NewItem
  BY <1>2, <1>3, <1>4, <1>7, <1>8
<1> HIDE DEF Capacity
<1> QED BY <1>6, <1>7, <1>9, <1>10, <1>11 DEF c

\* A pop takes the last item, and moves the others if it shrinks the buffer.
LEMMA PopItems ==
  ASSUME MutexInv, PopTakes
  PROVE  /\ size \in Nat \ {0} /\ size' = size - 1
         /\ Capacity' \in Nat /\ size' < Capacity' /\ DOMAIN buffer' = 0..Capacity' - 1
         /\ top' \in 0..Capacity' - 1
         /\ buffer' \in [0..Capacity' - 1 -> Value]
         /\ \A k \in 0..size - 2 : At(k)' = At(k)
         /\ popped' = At(size - 1)
<1>1. Owner \in Thread /\ pc[Owner] # "idle"
  BY DEF PopTakes, In, Thread
<1>2. /\ Capacity \in Nat \ {0} /\ size \in 0..Capacity - 1 /\ DOMAIN buffer = 0..Capacity - 1
      /\ top \in 0..Capacity - 1 /\ buffer \in [0..Capacity - 1 -> Value]
  BY <1>1, InsideConstructed
<1>3. size > 0 /\ size' = size - 1 /\ popped' = At(size - 1)
  BY DEF PopTakes, At
<1> DEFINE target == Target(Capacity, size - 1)
<1>4. CASE target = Capacity /\ UNCHANGED <<buffer, top>>
  <2>1. Capacity' = Capacity
    BY <1>4 DEF Capacity
  <2>2. \A k : At(k)' = At(k)
    BY <1>4, <2>1 DEF At, Index
  <2> HIDE DEF Capacity, target
  <2> QED BY <1>2, <1>3, <1>4, <2>1, <2>2
<1>5. CASE target # Capacity /\ buffer' = Resized(target, size - 1) /\ top' = 0
  <2>1. target \in Nat /\ size - 1 \in 0..target - 1
    <3>1. size - 1 \in Nat /\ size - 1 < Capacity
      <4> HIDE DEF Capacity
      <4> QED BY <1>2, <1>3
    <3>2. Target(Capacity, size - 1) \in Nat /\ size - 1 < Target(Capacity, size - 1)
      <4> HIDE DEF Capacity
      <4> QED BY <1>2, <3>1, TargetHolds
    <3> HIDE DEF Capacity
    <3> QED BY <3>1, <3>2
  <2> HIDE DEF Capacity, target
  <2>2. target \in Nat \ {0}
    BY <2>1
  <2>3. /\ DOMAIN buffer' = 0..target - 1 /\ buffer' \in [0..target - 1 -> Value]
        /\ \A k \in 0..size - 2 : buffer'[k] = At(k)
    BY <1>1, <1>2, <1>5, <2>1, ResizedItems
  <2>4. Capacity' = target /\ \A k \in 0..target - 1 : At(k)' = buffer'[k]
    BY <1>5, <2>2, <2>3, FrontItems
  <2>5. \A k \in 0..size - 2 : At(k)' = At(k)
    BY <1>2, <2>1, <2>3, <2>4
  <2>6. 0 \in 0..target - 1
    BY <2>2
  <2> QED BY <1>2, <1>3, <1>5, <2>1, <2>3, <2>4, <2>5, <2>6
<1> QED BY <1>4, <1>5 DEF PopTakes

\* A steal takes the first item, and the others move up.
LEMMA StealItems ==
  ASSUME MutexInv, NEW p \in Thief, StealTakes(p)
  PROVE  /\ size \in Nat \ {0} /\ size' = size - 1
         /\ Capacity' = Capacity /\ top' \in 0..Capacity - 1
         /\ \A k \in 0..size - 2 : At(k)' = At(k + 1)
         /\ buffer[top] = At(0)
<1>1. p \in Thread /\ pc[p] # "idle"
  BY DEF StealTakes, In, Thread
<1>2. /\ Capacity \in Nat \ {0} /\ size \in 0..Capacity - 1 /\ top \in 0..Capacity - 1
  BY <1>1, InsideConstructed
<1>3. size > 0 /\ size' = size - 1 /\ top' = Index(1) /\ buffer' = buffer
  BY DEF StealTakes
<1>4. Capacity' = Capacity
  BY <1>3 DEF Capacity
<1> HIDE DEF Capacity
<1>5. 1 \in 0..Capacity - 1 /\ 0 \in 0..Capacity - 1
  BY <1>2, <1>3
<1>6. top' \in 0..Capacity - 1
  BY <1>1, <1>3, <1>5, IndexFacts
<1>7. top' = IF top + 1 < Capacity THEN top + 1 ELSE top + 1 - Capacity
  BY <1>2, <1>3, <1>5, IndexValue DEF Index
<1>8. ASSUME NEW k \in 0..size - 2 PROVE At(k)' = At(k + 1)
  <2>1. k \in 0..Capacity - 1 /\ k + 1 \in 0..Capacity - 1
    BY <1>2
  <2>2. (top' + k) % Capacity = IF top' + k < Capacity THEN top' + k ELSE top' + k - Capacity
    BY <1>2, <1>6, <2>1, IndexValue
  <2>3. (top + (k + 1)) % Capacity
          = IF top + (k + 1) < Capacity THEN top + (k + 1) ELSE top + (k + 1) - Capacity
    BY <1>2, <2>1, IndexValue
  <2>4. (top' + k) % Capacity = (top + (k + 1)) % Capacity
    BY <1>2, <1>7, <2>1, <2>2, <2>3
  <2> QED BY <1>3, <1>4, <2>4 DEF At, Index
<1>9. buffer[top] = At(0)
  <2>1. (top + 0) % Capacity = IF top + 0 < Capacity THEN top + 0 ELSE top + 0 - Capacity
    BY <1>2, <1>5, IndexValue
  <2>2. (top + 0) % Capacity = top
    BY <1>2, <2>1
  <2> QED BY <2>2 DEF At, Index
<1> QED BY <1>2, <1>3, <1>4, <1>6, <1>8, <1>9

\* What is left of n items has its indices in a buffer that holds it.
LEMMA OneLess ==
  ASSUME NEW n \in Nat \ {0}, NEW c \in Nat, n - 1 < c
  PROVE  c \in Nat \ {0} /\ n - 1 \in 0..c - 1
OBVIOUS

\* Positions of a sequence count from 1, items of a buffer from 0.
LEMMA Positions ==
  ASSUME NEW n \in Nat
  PROVE  \A k \in 1..n : k - 1 \in 0..n - 1
OBVIOUS

\* A count goes up by one.
LEMMA CountUp ==
  ASSUME NEW S, NEW f \in [S -> Nat], NEW v
  PROVE  [f EXCEPT ![v] = @ + 1] \in [S -> Nat]
<1>1. CASE v \in S
  <2>1. f[v] + 1 \in Nat
    BY <1>1
  <2> QED BY <2>1
<1>2. CASE v \notin S
  <2>1. [f EXCEPT ![v] = @ + 1] = f
    BY <1>2
  <2> QED BY <2>1
<1> QED BY <1>1, <1>2

-----------------------------------------------------------------------------
(* The invariant is inductive.                                             *)

\* Before construction there is no buffer.
LEMMA InitMutex == Init => MutexInv
<1> SUFFICES ASSUME Init PROVE MutexInv
  OBVIOUS
<1>1. DOMAIN buffer = {} /\ top = 0 /\ size = 0
  BY DEF Init
<1>2. Capacity = 0
  BY <1>1, FS_EmptySet DEF Capacity
<1>3. TypeOK
  BY <1>1, <1>2 DEF Init, TypeOK, Constructed, Value
<1>4. BufferInv
  BY <1>1, <1>2 DEF Init, BufferInv, Constructed
<1>5. LockInv
  BY MutexAssumption DEF Init, LockInv, Thread
<1> QED BY <1>3, <1>4, <1>5 DEF MutexInv

\* The threads of an operation that has the mutex go on to release it.
LEMMA BodyEnds ==
  ASSUME MutexInv, NEW p \in Thread, pc[p] # "idle", Done(p), UNCHANGED pushed,
         popped' = popped \/ p = Owner
  PROVE  /\ mutex' = mutex /\ pc' \in [Thread -> {"idle", "push", "pop", "steal", "unlock"}]
         /\ LockInv' /\ mutex = p
<1>1. Owner \in Thread /\ Thief \subseteq Thread
  BY DEF Thread
<1>2. pc' = [pc EXCEPT ![p] = "unlock"] /\ mutex' = mutex
  BY DEF Done
<1>3. pc \in [Thread -> {"idle", "push", "pop", "steal", "unlock"}] /\ LockInv
  BY DEF MutexInv, TypeOK
<1> QED BY <1>1, <1>2, <1>3 DEF LockInv

\* The same of a push, which makes an item.
LEMMA PushEnds ==
  ASSUME MutexInv, In(Owner, "push"), Done(Owner), pushed' = pushed + 1, UNCHANGED popped
  PROVE  /\ mutex' = mutex /\ pc' \in [Thread -> {"idle", "push", "pop", "steal", "unlock"}]
         /\ LockInv' /\ NewItem \in Item /\ pushed' \in Nat
<1>1. Owner \in Thread /\ Thief \subseteq Thread
  BY DEF Thread
<1>2. pc' = [pc EXCEPT ![Owner] = "unlock"] /\ mutex' = mutex /\ pc[Owner] = "push"
  BY DEF Done, In
<1>3. pc \in [Thread -> {"idle", "push", "pop", "steal", "unlock"}] /\ LockInv /\ pushed \in Nat
  BY DEF MutexInv, TypeOK
<1>4. pushed + 1 \in 1..MaxPushes
  BY <1>2, <1>3, MutexAssumption DEF LockInv
<1>5. NewItem \in Item
  BY <1>4 DEF NewItem, Item
<1> QED BY <1>1, <1>2, <1>3, <1>4, <1>5 DEF LockInv

\* The waiting items after a step.
LEMMA ItemsNext ==
  ASSUME Capacity' \in Nat \ {0}, DOMAIN buffer' = 0..Capacity' - 1,
         top' \in 0..Capacity' - 1, size' \in 0..Capacity' - 1,
         \A k \in DOMAIN buffer' : buffer'[k] \in Value,
         buffer' = [k \in DOMAIN buffer' |-> buffer'[k]],
         \A k \in 0..size' - 1 : At(k)' \in Item,
         pushed' \in Nat, mutex' = mutex, mutex \in Thread \cup {Nobody},
         pc' \in [Thread -> {"idle", "push", "pop", "steal", "unlock"}],
         popped' \in Value, returned' \in [Value -> Nat]
  PROVE  TypeOK' /\ BufferInv'
<1>1. Constructed'
  BY DEF Constructed
<1>2. TypeOK'
  <2> HIDE DEF Capacity
  <2> QED BY <1>1 DEF TypeOK
<1>3. \A k \in 0..size' - 1 : (buffer[Index(k)])' \in Item
  BY DEF At
<1>4. BufferInv'
  <2> HIDE DEF Capacity, Index
  <2> QED BY <1>1, <1>3 DEF BufferInv
<1> QED BY <1>2, <1>4

\* What the invariant says of the items that wait.
LEMMA ItemsNow ==
  ASSUME MutexInv
  PROVE  /\ \A k \in 0..size - 1 : At(k) \in Item
         /\ mutex \in Thread \cup {Nobody} /\ popped \in Value /\ returned \in [Value -> Nat]
         /\ pushed \in Nat /\ Item \subseteq Value /\ size \in Nat
BY DEF MutexInv, BufferInv, TypeOK, At, Value

\* A push stores behind the last item, or first copies all of them to the front
\* of an array twice as large.
LEMMA PushMutex ==
  ASSUME MutexInv, PushInPlace \/ PushGrows
  PROVE  MutexInv'
<1>1. Owner \in Thread /\ pc[Owner] # "idle" /\ In(Owner, "push") /\ Done(Owner)
      /\ pushed' = pushed + 1 /\ UNCHANGED <<popped, returned>> /\ size' = size + 1
  BY DEF PushInPlace, PushGrows, In, Thread
<1>2. /\ mutex' = mutex /\ pc' \in [Thread -> {"idle", "push", "pop", "steal", "unlock"}]
      /\ LockInv' /\ NewItem \in Item /\ pushed' \in Nat
  BY <1>1, PushEnds
<1>3. /\ Capacity \in Nat \ {0} /\ DOMAIN buffer = 0..Capacity - 1
      /\ top \in 0..Capacity - 1 /\ size \in 0..Capacity - 1
      /\ buffer \in [0..Capacity - 1 -> Value]
  BY <1>1, InsideConstructed
<1>4. /\ \A k \in 0..size - 1 : At(k) \in Item
      /\ mutex \in Thread \cup {Nobody} /\ popped \in Value /\ returned \in [Value -> Nat]
      /\ Item \subseteq Value
  BY ItemsNow
<1>5. /\ Capacity' \in Nat \ {0} /\ DOMAIN buffer' = 0..Capacity' - 1
      /\ top' \in 0..Capacity' - 1 /\ size' < Capacity'
      /\ \A k \in DOMAIN buffer' : buffer'[k] \in Value
      /\ buffer' = [k \in DOMAIN buffer' |-> buffer'[k]]
      /\ \A k \in 0..size : At(k)' = IF k < size THEN At(k) ELSE NewItem
  <2>1. CASE PushInPlace
    <3>1. /\ Capacity' = Capacity /\ size' < Capacity
          /\ \A k \in 0..size : At(k)' = IF k < size THEN At(k) ELSE NewItem
      BY <2>1, InPlaceItems
    <3>2. buffer' = [buffer EXCEPT ![Index(size)] = NewItem] /\ top' = top
      BY <2>1 DEF PushInPlace
    <3> HIDE DEF Capacity
    <3>3. /\ DOMAIN buffer' = DOMAIN buffer /\ \A k \in DOMAIN buffer' : buffer'[k] \in Value
          /\ buffer' = [k \in DOMAIN buffer' |-> buffer'[k]]
      BY <1>2, <1>3, <1>4, <3>2
    <3> QED BY <1>3, <3>1, <3>2, <3>3
  <2>2. CASE PushGrows
    <3>1. /\ Capacity' = 2 * Capacity /\ size' < 2 * Capacity
          /\ DOMAIN buffer' = 0..2 * Capacity - 1
          /\ \A k \in 0..2 * Capacity - 1 : buffer'[k] \in Value \cup {NewItem}
          /\ \A k \in 0..size : At(k)' = IF k < size THEN At(k) ELSE NewItem
      BY <2>2, GrowItems
    <3>2. top' = 0 /\ buffer' = [Resized(2 * Capacity, size) EXCEPT ![size] = NewItem]
      BY <2>2 DEF PushGrows
    <3>3. buffer' = [k \in DOMAIN buffer' |-> buffer'[k]]
      BY <3>2
    <3> HIDE DEF Capacity
    <3> QED BY <1>2, <1>3, <1>4, <3>1, <3>2, <3>3
  <2> QED BY <2>1, <2>2
<1>6. \A k \in 0..size' - 1 : At(k)' \in Item
  BY <1>1, <1>2, <1>3, <1>4, <1>5
<1>7. size' \in 0..Capacity' - 1
  <2> HIDE DEF Capacity
  <2> QED BY <1>1, <1>3, <1>5
<1>8. TypeOK' /\ BufferInv'
  BY <1>1, <1>2, <1>4, <1>5, <1>6, <1>7, ItemsNext
<1> QED BY <1>2, <1>8 DEF MutexInv

\* A pop takes the last item, and may move the others to a smaller array that
\* still holds them.
LEMMA PopMutex ==
  ASSUME MutexInv, PopTakes
  PROVE  MutexInv'
<1>1. Owner \in Thread /\ pc[Owner] # "idle" /\ Done(Owner) /\ UNCHANGED <<pushed, returned>>
  BY DEF PopTakes, In, Thread
<1>2. /\ mutex' = mutex /\ pc' \in [Thread -> {"idle", "push", "pop", "steal", "unlock"}] /\ LockInv'
  BY <1>1, BodyEnds
<1>3. /\ size \in Nat \ {0} /\ size' = size - 1
      /\ Capacity' \in Nat /\ size' < Capacity' /\ DOMAIN buffer' = 0..Capacity' - 1
      /\ top' \in 0..Capacity' - 1
      /\ buffer' \in [0..Capacity' - 1 -> Value]
      /\ \A k \in 0..size - 2 : At(k)' = At(k)
      /\ popped' = At(size - 1)
  BY PopItems
<1>4. /\ \A k \in 0..size - 1 : At(k) \in Item
      /\ mutex \in Thread \cup {Nobody} /\ returned \in [Value -> Nat]
      /\ pushed \in Nat /\ Item \subseteq Value
  BY ItemsNow
<1> HIDE DEF Capacity
<1>5. popped' \in Value /\ \A k \in 0..size' - 1 : At(k)' \in Item
  BY <1>3, <1>4
<1>6. Capacity' \in Nat \ {0} /\ size' \in 0..Capacity' - 1
  <2>1. size \in Nat \ {0} /\ size' = size - 1 /\ Capacity' \in Nat /\ size' < Capacity'
    BY <1>3
  <2> QED BY <2>1, OneLess
<1>7. /\ buffer' = [k \in DOMAIN buffer' |-> buffer'[k]]
      /\ \A k \in DOMAIN buffer' : buffer'[k] \in Value
  BY <1>3
<1>8. TypeOK' /\ BufferInv'
  BY <1>1, <1>2, <1>3, <1>4, <1>5, <1>6, <1>7, ItemsNext
<1> QED BY <1>2, <1>8 DEF MutexInv

\* A steal takes the first item and moves the first index on.
LEMMA StealMutex ==
  ASSUME MutexInv, NEW p \in Thief, StealTakes(p)
  PROVE  MutexInv'
<1>1. p \in Thread /\ pc[p] # "idle" /\ Done(p) /\ UNCHANGED <<pushed, popped, buffer>>
      /\ returned' = [returned EXCEPT ![buffer[top]] = @ + 1]
  BY DEF StealTakes, In, Thread
<1>2. /\ mutex' = mutex /\ pc' \in [Thread -> {"idle", "push", "pop", "steal", "unlock"}] /\ LockInv'
  BY <1>1, BodyEnds
<1>3. /\ size \in Nat \ {0} /\ size' = size - 1
      /\ Capacity' = Capacity /\ top' \in 0..Capacity - 1
      /\ \A k \in 0..size - 2 : At(k)' = At(k + 1)
  BY StealItems
<1>4. /\ \A k \in 0..size - 1 : At(k) \in Item
      /\ mutex \in Thread \cup {Nobody} /\ returned \in [Value -> Nat] /\ popped \in Value
      /\ pushed \in Nat
  BY ItemsNow
<1>5. /\ Capacity \in Nat \ {0} /\ DOMAIN buffer = 0..Capacity - 1 /\ size \in 0..Capacity - 1
      /\ buffer \in [0..Capacity - 1 -> Value]
  BY <1>1, InsideConstructed
<1> HIDE DEF Capacity
<1>6. \A k \in 0..size' - 1 : At(k)' \in Item
  BY <1>3, <1>4
<1>7. returned' \in [Value -> Nat]
  BY <1>1, <1>4, CountUp
<1>8. TypeOK' /\ BufferInv'
  BY <1>1, <1>2, <1>3, <1>4, <1>5, <1>6, <1>7, ItemsNext
<1> QED BY <1>2, <1>8 DEF MutexInv

\* An operation that finds nothing, or no room, leaves the deque as it is.
LEMMA NothingMutex ==
  ASSUME MutexInv, NEW p \in Thread, pc[p] # "idle", Done(p),
         UNCHANGED <<deque, popped, pushed, returned>>
  PROVE  MutexInv'
<1>1. /\ mutex' = mutex /\ pc' \in [Thread -> {"idle", "push", "pop", "steal", "unlock"}] /\ LockInv'
  BY BodyEnds
<1>2. Constructed
  BY DEF MutexInv, BufferInv
<1>3. TypeOK' /\ BufferInv'
  BY <1>1, <1>2 DEF MutexInv, TypeOK, BufferInv, deque, Constructed, Capacity, Index
<1> QED BY <1>1, <1>3 DEF MutexInv

\* The constructor begins with an empty array of the least capacity.
LEMMA ConstructMutex ==
  ASSUME MutexInv, Construct
  PROVE  MutexInv'
<1> DEFINE f == [k \in 0..MinCapacity - 1 |-> Zero]
<1>1. buffer' = f /\ UNCHANGED <<top, size, mutex, pc, popped, pushed, returned>>
  BY DEF Construct
<1>2. DOMAIN buffer' = 0..MinCapacity - 1 /\ MinCapacity \in Nat \ {0}
  BY <1>1, MutexAssumption
<1>3. Capacity' = MinCapacity
  BY <1>2, ArraySize DEF Capacity
<1>4. top = 0 /\ size = 0
  BY DEF MutexInv, BufferInv, Construct
<1>5. TypeOK'
  BY <1>1, <1>2, <1>4 DEF MutexInv, TypeOK, Value
<1>6. BufferInv'
  BY <1>1, <1>2, <1>3, <1>4 DEF BufferInv, Constructed
<1>7. LockInv'
  BY <1>1 DEF MutexInv, LockInv
<1> QED BY <1>5, <1>6, <1>7 DEF MutexInv

\* A call begins when its thread gets the mutex.
LEMMA LockMutex ==
  ASSUME MutexInv, NEW p \in Thread, NEW op \in {"push", "pop", "steal"}, Lock(p, op),
         (p = Owner) <=> (op # "steal"), op = "push" => pushed < MaxPushes
  PROVE  MutexInv'
<1>1. Owner \in Thread /\ Thief \subseteq Thread /\ Owner \notin Thief /\ Nobody \notin Thread
  BY MutexAssumption DEF Thread
<1>2. /\ Constructed /\ pc[p] = "idle" /\ mutex = Nobody /\ mutex' = p
      /\ pc' = [pc EXCEPT ![p] = op] /\ UNCHANGED <<deque, popped, pushed, returned>>
  BY DEF Lock
<1>3. \A q \in Thread : pc[q] = "idle"
  BY <1>1, <1>2 DEF MutexInv, LockInv
<1>4. TypeOK'
  BY <1>2 DEF MutexInv, TypeOK, deque, Constructed, Capacity
<1>5. BufferInv'
  BY <1>2 DEF MutexInv, BufferInv, deque, Constructed, Capacity, Index
<1>6. LockInv'
  BY <1>1, <1>2, <1>3 DEF MutexInv, LockInv, TypeOK
<1> QED BY <1>4, <1>5, <1>6 DEF MutexInv

\* A call ends when its thread gives the mutex back.
LEMMA UnlockMutex ==
  ASSUME MutexInv, NEW p \in Thread, Unlock(p)
  PROVE  MutexInv'
<1>1. Owner \in Thread /\ Thief \subseteq Thread /\ Zero \in Value
  BY DEF Thread, Value
<1>2. /\ pc[p] = "unlock" /\ mutex' = Nobody /\ pc' = [pc EXCEPT ![p] = "idle"]
      /\ UNCHANGED <<deque, pushed>>
      /\ popped' = IF p = Owner THEN Zero ELSE popped
      /\ returned' = IF p = Owner /\ popped # Zero THEN [returned EXCEPT ![popped] = @ + 1] ELSE returned
  BY DEF Unlock, In
<1>3. returned' \in [Value -> Nat] /\ popped' \in Value
  BY <1>1, <1>2, ItemsNow, CountUp
<1>4. \A q \in Thread : q # p => pc[q] = "idle"
  BY <1>2 DEF MutexInv, LockInv
<1>5. Constructed
  BY <1>2 DEF MutexInv, BufferInv
<1>6. TypeOK'
  BY <1>2, <1>3, <1>5 DEF MutexInv, TypeOK, deque, Constructed, Capacity
<1>7. BufferInv'
  BY <1>2, <1>5 DEF MutexInv, BufferInv, deque, Constructed, Capacity, Index
<1>8. LockInv'
  BY <1>1, <1>2, <1>4 DEF MutexInv, LockInv, TypeOK
<1> QED BY <1>6, <1>7, <1>8 DEF MutexInv

\* Every step keeps the invariant.
LEMMA StepMutex ==
  ASSUME MutexInv, [Next]_vars
  PROVE  MutexInv'
<1>1. Owner \in Thread /\ Thief \subseteq Thread /\ Owner \notin Thief
  BY MutexAssumption DEF Thread
<1>2. CASE Construct
  BY <1>2, ConstructMutex
<1>3. CASE Lock(Owner, "push") /\ pushed < MaxPushes
  BY <1>1, <1>3, LockMutex
<1>4. CASE Lock(Owner, "pop")
  BY <1>1, <1>4, LockMutex
<1>5. CASE PushInPlace \/ PushGrows
  BY <1>5, PushMutex
<1>6. CASE PushThrows
  BY <1>1, <1>6, NothingMutex DEF PushThrows, In
<1>7. CASE PopTakes
  BY <1>7, PopMutex
<1>8. CASE \E p \in Thief : Lock(p, "steal") \/ StealTakes(p)
  BY <1>1, <1>8, LockMutex, StealMutex
<1>9. CASE \E p \in Thread : Empty(p) \/ Unlock(p)
  <2>1. ASSUME NEW p \in Thread, Empty(p) PROVE MutexInv'
    BY <2>1, NothingMutex DEF Empty, In
  <2> QED BY <1>9, <2>1, UnlockMutex
<1>10. CASE UNCHANGED vars
  BY <1>10 DEF vars, deque, MutexInv, TypeOK, BufferInv, LockInv, Constructed, Capacity, Index
<1> QED BY <1>2, <1>3, <1>4, <1>5, <1>6, <1>7, <1>8, <1>9, <1>10 DEF Next

\* MutexInv holds in every reachable state.
LEMMA MutexKept == Spec => []MutexInv
<1>1. MutexInv /\ [Next]_vars => MutexInv'
  BY StepMutex
<1> QED BY InitMutex, <1>1, PTL DEF Spec

\* Every variable of the baseline keeps its type: top_ is a slot of the buffer
\* after every growth and shrink, and what is returned is a value.
THEOREM BaselineTyped == Spec => []TypeOK
<1>1. MutexInv => TypeOK
  BY DEF MutexInv
<1> QED BY MutexKept, <1>1, PTL

-----------------------------------------------------------------------------
(* The waiting items as a sequence.                                        *)

\* The sequence of the waiting items,
LEMMA WaitingNow ==
  ASSUME MutexInv
  PROVE  /\ Waiting \in Seq(Value) /\ Len(Waiting) = size
         /\ \A k \in 1..size : Waiting[k] = At(k - 1)
<1>1. size \in Nat /\ \A k \in 0..size - 1 : At(k) \in Value
  BY ItemsNow
<1>2. \A k \in 1..size : At(k - 1) \in Value
  BY <1>1
<1>3. Waiting = [k \in 1..size |-> At(k - 1)]
  BY DEF Waiting, At
<1> HIDE DEF At
<1> QED BY <1>1, <1>2, <1>3

\* and that after a step.
LEMMA WaitingNext ==
  ASSUME MutexInv'
  PROVE  /\ Waiting' \in Seq(Value) /\ Len(Waiting') = size'
         /\ \A k \in 1..size' : \A j : j = k - 1 => Waiting'[k] = At(j)'
<1>1. size' \in Nat /\ \A k \in 0..size' - 1 : At(k)' \in Value
  BY DEF MutexInv, BufferInv, TypeOK, At, Value
<1>2. \A k \in 1..size' : \A j : j = k - 1 => At(j)' \in Value
  <2>1. \A k \in 1..size' : k - 1 \in 0..size' - 1
    BY <1>1, Positions
  <2> QED BY <1>1, <2>1
<1>3. Waiting' = [k \in 1..size' |-> buffer'[(top' + (k - 1)) % Capacity']]
  BY DEF Waiting, Index
<1>4. \A j : At(j)' = buffer'[(top' + j) % Capacity']
  BY DEF At, Index
<1>5. \A k \in 1..size' : buffer'[(top' + (k - 1)) % Capacity'] \in Value
  <2> HIDE DEF Capacity
  <2> QED BY <1>2, <1>4
<1> HIDE DEF Capacity
<1>6. Waiting' \in Seq(Value) /\ Len(Waiting') = size'
  BY <1>1, <1>3, <1>5
<1> QED BY <1>3, <1>4, <1>6

\* A sequence that is one longer,
LEMMA OneLonger ==
  ASSUME NEW S, NEW s \in Seq(S), NEW x \in S, NEW w \in Seq(S), Len(w) = Len(s) + 1,
         \A k \in 1..Len(s) : w[k] = s[k], w[Len(s) + 1] = x
  PROVE  w = Append(s, x)
<1>1. Len(s) \in Nat
  BY LenProperties
<1>2. /\ Append(s, x) \in Seq(S) /\ Len(Append(s, x)) = Len(s) + 1
      /\ \A k \in 1..Len(s) : Append(s, x)[k] = s[k] /\ Append(s, x)[Len(s) + 1] = x
  BY AppendProperties
<1>3. Append(s, x)[Len(s) + 1] = x
  BY AppendProperties
<1>4. \A k \in 1..Len(w) : w[k] = Append(s, x)[k]
  BY <1>1, <1>2, <1>3
<1> QED BY <1>2, <1>4, SeqEqual

\* or lacks the last item,
LEMMA LastGone ==
  ASSUME NEW S, NEW s \in Seq(S), NEW w \in Seq(S), Len(s) = Len(w) + 1,
         \A k \in 1..Len(w) : w[k] = s[k]
  PROVE  w = SubSeq(s, 1, Len(s) - 1)
<1>1. Len(s) \in Nat /\ Len(w) \in Nat
  BY LenProperties
<1>2. \A k \in 1..Len(s) - 1 : s[k] \in S
  BY <1>1, ElementOfSeq
<1>3. /\ SubSeq(s, 1, Len(s) - 1) \in Seq(S) /\ Len(SubSeq(s, 1, Len(s) - 1)) = Len(w)
      /\ \A k \in 1..Len(w) : SubSeq(s, 1, Len(s) - 1)[k] = s[1 + k - 1]
  BY <1>1, <1>2, SubSeqProperties
<1>4. \A k \in 1..Len(w) : w[k] = SubSeq(s, 1, Len(s) - 1)[k]
  BY <1>1, <1>3
<1> QED BY <1>3, <1>4, SeqEqual

\* or the first.
LEMMA HeadGone ==
  ASSUME NEW S, NEW s \in Seq(S), NEW w \in Seq(S), Len(s) = Len(w) + 1,
         \A k \in 1..Len(w) : w[k] = s[k + 1]
  PROVE  s # <<>> /\ w = Tail(s) /\ Head(s) = s[1]
<1>1. Len(s) \in Nat /\ Len(w) \in Nat /\ s # <<>>
  BY LenProperties
<1>2. /\ Tail(s) \in Seq(S) /\ Len(Tail(s)) = Len(w) /\ Head(s) = s[1]
      /\ \A i \in 1..Len(w) : Tail(s)[i] = s[i + 1]
  BY <1>1, HeadTailProperties
<1> QED BY <1>1, <1>2, SeqEqual

-----------------------------------------------------------------------------
(* The refinement, step by step.                                           *)

\* Before construction nothing waits.
LEMMA InitAbstract == Init => Abstract!Init
<1> SUFFICES ASSUME Init PROVE Abstract!Init
  OBVIOUS
<1>1. ~Constructed
  <2>1. DOMAIN buffer = {}
    BY DEF Init
  <2> QED BY <2>1, FS_EmptySet DEF Constructed, Capacity
<1>2. Waiting = <<>>
  <2>1. MutexInv /\ size = 0
    BY InitMutex DEF Init
  <2> QED BY <2>1, WaitingNow, EmptySeq
<1>3. popped = Zero /\ pushed = 0 /\ returned = [v \in Value |-> 0]
  BY DEF Init
<1> HIDE DEF Constructed, Waiting
<1>4. /\ [d \in {Name} |-> Constructed] = [d \in {Name} |-> FALSE]
      /\ [d \in {Name} |-> Waiting] = [d \in {Name} |-> <<>>]
      /\ [d \in {Name} |-> {popped} \ {Zero}] = [d \in {Name} |-> {}]
  <2>1. {popped} \ {Zero} = {}
    BY <1>3
  <2>2. Constructed = FALSE
    BY <1>1
  <2> QED BY <1>2, <2>1, <2>2, Zenon
<1>5. /\ [d \in {Name} |-> pushed] = [d \in {Name} |-> 0]
      /\ [d \in {Name} |-> returned] = [d \in {Name} |-> [v \in Value |-> 0]]
  BY <1>3
<1> QED BY <1>4, <1>5 DEF Abstract!Init

\* A step that leaves what waits, and is no return of a value, is invisible.
LEMMA Invisible ==
  ASSUME MutexInv, MutexInv', UNCHANGED <<size, popped, pushed, returned>>, Constructed' = Constructed,
         \A k \in 0..size - 1 : At(k)' = At(k)
  PROVE  UNCHANGED Abstract!vars
<1>1. Waiting' = Waiting
  <2>1. /\ Waiting \in Seq(Value) /\ Len(Waiting) = size
        /\ \A k \in 1..size : Waiting[k] = At(k - 1)
    BY WaitingNow
  <2>2. /\ Waiting' \in Seq(Value) /\ Len(Waiting') = size
        /\ \A k \in 1..size : \A j : j = k - 1 => Waiting'[k] = At(j)'
    BY WaitingNext
  <2>3. \A k \in 1..size : k - 1 \in 0..size - 1
    BY ItemsNow
  <2>4. \A k \in 1..size : Waiting'[k] = Waiting[k]
    BY <2>1, <2>2, <2>3
  <2> QED BY <2>1, <2>2, <2>4, SeqEqual
<1> QED BY <1>1 DEF Abstract!vars

\* A push appends its item.
LEMMA PushAbstract ==
  ASSUME MutexInv, MutexInv', PushInPlace \/ PushGrows
  PROVE  Abstract!Next
<1>1. /\ pc[Owner] = "push" /\ Owner \in Thread /\ pushed' = pushed + 1 /\ size' = size + 1
      /\ UNCHANGED <<popped, returned>>
  BY DEF PushInPlace, PushGrows, In, Thread
<1>2. \A k \in 0..size : At(k)' = IF k < size THEN At(k) ELSE NewItem
  BY InPlaceItems, GrowItems
<1>3. Constructed /\ Constructed' /\ popped = Zero
  <2>1. pc'[Owner] = "unlock"
    BY <1>1 DEF PushInPlace, PushGrows, Done, MutexInv, TypeOK
  <2> QED BY <1>1, <2>1 DEF MutexInv, BufferInv, LockInv
<1>4. Waiting' = Append(Waiting, NewItem)
  <2>1. /\ Waiting \in Seq(Value) /\ Len(Waiting) = size /\ size \in Nat
        /\ \A k \in 1..size : Waiting[k] = At(k - 1)
    BY WaitingNow, ItemsNow
  <2>2. /\ Waiting' \in Seq(Value) /\ Len(Waiting') = size + 1
        /\ \A k \in 1..size + 1 : \A j : j = k - 1 => Waiting'[k] = At(j)'
    BY <1>1, WaitingNext
  <2>3. \A k \in 1..size : Waiting'[k] = Waiting[k]
    <3>1. \A k \in 1..size : k - 1 \in 0..size /\ k - 1 < size
      BY <2>1
    <3> QED BY <1>2, <2>1, <2>2, <3>1
  <2>4. Waiting'[size + 1] = NewItem
    <3>1. size \in 0..size /\ size + 1 \in 1..size + 1 /\ size = (size + 1) - 1
      BY <2>1
    <3> QED BY <1>2, <2>2, <3>1
  <2>5. Waiting'[size + 1] \in Value
    BY <2>1, <2>2, ElementOfSeq
  <2> QED BY <2>1, <2>2, <2>3, <2>4, <2>5, OneLonger
<1> HIDE DEF Constructed, Waiting
<1>5. Abstract!Push(Name)
  BY <1>1, <1>3, <1>4 DEF Abstract!Push, NewItem
<1> QED BY <1>5 DEF Abstract!Next

\* A pop reserves the last item, which its caller gets as the mutex is free.
LEMMA PopAbstract ==
  ASSUME MutexInv, MutexInv', PopTakes
  PROVE  Abstract!Next
<1>1. /\ pc[Owner] = "pop" /\ Owner \in Thread /\ UNCHANGED <<pushed, returned>>
  BY DEF PopTakes, In, Thread
<1>2. /\ size \in Nat \ {0} /\ size' = size - 1
      /\ \A k \in 0..size - 2 : At(k)' = At(k)
      /\ popped' = At(size - 1)
  BY PopItems
<1>3. Constructed /\ Constructed' /\ popped = Zero
  <2>1. pc'[Owner] = "unlock"
    BY <1>1 DEF PopTakes, Done, MutexInv, TypeOK
  <2> QED BY <1>1, <2>1 DEF MutexInv, BufferInv, LockInv
<1>4. /\ Waiting \in Seq(Value) /\ Len(Waiting) = size
      /\ \A k \in 1..size : Waiting[k] = At(k - 1)
  BY WaitingNow
<1>5. Waiting' = SubSeq(Waiting, 1, Len(Waiting) - 1)
  <2>1. /\ Waiting' \in Seq(Value) /\ Len(Waiting') = size - 1
        /\ \A k \in 1..size - 1 : \A j : j = k - 1 => Waiting'[k] = At(j)'
    BY <1>2, WaitingNext
  <2>2. \A k \in 1..size - 1 : k - 1 \in 0..size - 2 /\ k \in 1..size
    BY <1>2
  <2>3. \A k \in 1..size - 1 : Waiting'[k] = Waiting[k]
    BY <1>2, <1>4, <2>1, <2>2
  <2> QED BY <1>2, <1>4, <2>1, <2>3, LastGone
<1>6. popped' = Waiting[Len(Waiting)] /\ popped' # Zero /\ Waiting # <<>>
  <2>1. size \in 1..size /\ size - 1 \in 0..size - 1
    BY <1>2
  <2>2. At(size - 1) \in Item
    BY <2>1, ItemsNow
  <2> QED BY <1>2, <1>4, <2>1, <2>2, ZeroIsNoItem, EmptySeq
<1> HIDE DEF Constructed, Waiting
<1>7. {popped} \ {Zero} = {} /\ {popped'} \ {Zero} = {Waiting[Len(Waiting)]}
  BY <1>3, <1>6
<1>8. Abstract!Reserve(Name)
  BY <1>1, <1>3, <1>5, <1>6, <1>7 DEF Abstract!Reserve
<1> QED BY <1>8 DEF Abstract!Next

\* A steal takes the oldest item.
LEMMA StealAbstract ==
  ASSUME MutexInv, MutexInv', NEW p \in Thief, StealTakes(p)
  PROVE  Abstract!Next
<1>1. /\ pc[p] = "steal" /\ p \in Thread /\ UNCHANGED <<pushed, popped>>
      /\ returned' = [returned EXCEPT ![buffer[top]] = @ + 1]
  BY DEF StealTakes, In, Thread
<1>2. /\ size \in Nat \ {0} /\ size' = size - 1
      /\ \A k \in 0..size - 2 : At(k)' = At(k + 1)
      /\ buffer[top] = At(0)
  BY StealItems
<1>3. Constructed /\ Constructed'
  <2>1. pc'[p] = "unlock"
    BY <1>1 DEF StealTakes, Done, MutexInv, TypeOK
  <2> QED BY <1>1, <2>1 DEF MutexInv, BufferInv
<1>4. /\ Waiting \in Seq(Value) /\ Len(Waiting) = size
      /\ \A k \in 1..size : Waiting[k] = At(k - 1)
  BY WaitingNow
<1>5. Waiting # <<>> /\ Waiting' = Tail(Waiting) /\ Head(Waiting) = Waiting[1]
  <2>1. /\ Waiting' \in Seq(Value) /\ Len(Waiting') = size - 1
        /\ \A k \in 1..size - 1 : \A j : j = k - 1 => Waiting'[k] = At(j)'
    BY <1>2, WaitingNext
  <2>2. \A k \in 1..size - 1 : /\ k - 1 \in 0..size - 2 /\ k + 1 \in 1..size
                               /\ (k - 1) + 1 = (k + 1) - 1
    BY <1>2
  <2>3. \A k \in 1..size - 1 : Waiting'[k] = Waiting[k + 1]
    <3>1. ASSUME NEW k \in 1..size - 1 PROVE Waiting'[k] = Waiting[k + 1]
      <4>1. Waiting'[k] = At((k - 1) + 1)
        BY <1>2, <2>1, <2>2
      <4>2. Waiting[k + 1] = At((k + 1) - 1)
        BY <1>4, <2>2
      <4> QED BY <2>2, <4>1, <4>2
    <3> QED BY <3>1
  <2> QED BY <1>2, <1>4, <2>1, <2>3, HeadGone
<1>6. Head(Waiting) = buffer[top]
  <2>1. 1 \in 1..size /\ 1 - 1 = 0
    BY <1>2
  <2> QED BY <1>2, <1>4, <1>5, <2>1
<1> HIDE DEF Constructed, Waiting
<1>7. Abstract!StealFirst(Name)
  BY <1>1, <1>3, <1>5, <1>6 DEF Abstract!StealFirst
<1> QED BY <1>7 DEF Abstract!Next

\* The construction opens the deque, empty.
LEMMA ConstructAbstract ==
  ASSUME MutexInv, MutexInv', Construct
  PROVE  Abstract!Next
<1>1. ~Constructed /\ UNCHANGED <<size, popped, pushed, returned>>
  BY DEF Construct
<1>2. Constructed'
  <2>1. DOMAIN buffer' = 0..MinCapacity - 1 /\ MinCapacity \in Nat \ {0}
    BY MutexAssumption DEF Construct
  <2> QED BY <2>1, ArraySize DEF Constructed, Capacity
<1>3. size = 0
  BY <1>1 DEF MutexInv, BufferInv
<1>4. Waiting = <<>> /\ Waiting' = <<>>
  BY <1>1, <1>3, WaitingNow, WaitingNext, EmptySeq
<1> HIDE DEF Constructed, Waiting
<1>5. Abstract!Open(Name)
  BY <1>1, <1>2, <1>4 DEF Abstract!Open
<1> QED BY <1>5 DEF Abstract!Next

\* The end of an operation; for a pop, the return of its value.
LEMMA UnlockAbstract ==
  ASSUME MutexInv, MutexInv', NEW p \in Thread, Unlock(p)
  PROVE  Abstract!Next \/ UNCHANGED Abstract!vars
<1>1. /\ UNCHANGED <<deque, pushed>>
      /\ popped' = IF p = Owner THEN Zero ELSE popped
      /\ returned' = IF p = Owner /\ popped # Zero THEN [returned EXCEPT ![popped] = @ + 1] ELSE returned
  BY DEF Unlock
<1>2. Constructed' = Constructed /\ Waiting' = Waiting /\ UNCHANGED size /\ \A k : At(k)' = At(k)
  BY <1>1 DEF deque, Constructed, Waiting, Capacity, Index, At
<1>3. CASE p = Owner /\ popped # Zero
  <2> HIDE DEF Constructed, Waiting
  <2>1. {popped} \ {Zero} = {popped} /\ {popped'} \ {Zero} = {}
    BY <1>1, <1>3
  <2>2. Abstract!TakeReserved(Name)
    BY <1>1, <1>2, <1>3, <2>1 DEF Abstract!TakeReserved
  <2> QED BY <2>2 DEF Abstract!Next
<1>4. CASE ~(p = Owner /\ popped # Zero)
  BY <1>1, <1>2, <1>4, Invisible
<1> QED BY <1>3, <1>4

\* The baseline keeps the promises of the lock-free deque: with all resizes
\* and any number of thieves, a push appends an item, a steal takes the oldest
\* and a pop the newest, and nothing else changes the sequence.
THEOREM BaselineIsAbstract == Spec => ImplementsAbstract
<1>1. Init => Abstract!Init
  BY InitAbstract
<1>2. MutexInv /\ MutexInv' /\ [Next]_vars => [Abstract!Next]_(Abstract!vars)
  <2> SUFFICES ASSUME MutexInv, MutexInv', [Next]_vars
               PROVE  Abstract!Next \/ UNCHANGED Abstract!vars
    OBVIOUS
  <2>1. ASSUME UNCHANGED <<deque, popped, pushed, returned>>
        PROVE  UNCHANGED Abstract!vars
    <3>1. Constructed' = Constructed /\ UNCHANGED size /\ \A k : At(k)' = At(k)
      BY <2>1 DEF deque, Constructed, Capacity, At, Index
    <3> QED BY <2>1, <3>1, Invisible
  <2>2. \A p \in Thread, op \in {"push", "pop", "steal"} :
          Lock(p, op) => UNCHANGED <<deque, popped, pushed, returned>>
    BY DEF Lock
  <2>3. PushThrows \/ (\E p \in Thread : Empty(p)) \/ UNCHANGED vars
          => UNCHANGED <<deque, popped, pushed, returned>>
    BY DEF PushThrows, Empty, vars
  <2>4. Owner \in Thread /\ Thief \subseteq Thread
    BY DEF Thread
  <2> QED BY <2>1, <2>2, <2>3, <2>4, ConstructAbstract, PushAbstract, PopAbstract, StealAbstract,
             UnlockAbstract DEF Next
<1>3. Spec => [][Abstract!Next]_(Abstract!vars)
  BY MutexKept, <1>2, PTL DEF Spec
<1> QED BY <1>1, <1>3, PTL DEF Spec, ImplementsAbstract, Abstract!Spec
=============================================================================
