--------------------------- MODULE DequeTheorems ----------------------------
(***************************************************************************)
(* Theorems about WorkStealingDeque, for any number of deques and thieves, *)
(* any pool and any shrink factor of at least three.  The properties       *)
(* follow from StructureInv and ItemInv, and so does the refinement of     *)
(* AbstractDeque, step by step.  OutcomeInv of StealOutcomes is inductive  *)
(* once StructureInv is known: what EMPTY and ABORT tell the caller of     *)
(* steal().                                                                *)
(***************************************************************************)
EXTENDS DequeInvariantProofs, DequeRefinement, StealOutcomes, SequenceTheorems

\* The structure of the deques survives every interleaving of any number of
\* owners and thieves over one pool: every statement of work_stealing_deque.h
\* finds the chains, indices and snapshots as StructureInv describes them.
THEOREM StructureKept == Spec => []StructureInv
<1>1. StructureInv /\ [Next]_vars => StructureInv'
  BY OwnerStepInv, ThiefStepInv, StutterInv DEF Next
<1> QED BY InitInv, <1>1, PTL DEF Spec

\* Every load, store and pointer step of the code is typed: an array that is
\* dereferenced is a record of the pool, an index is masked into its slots.
THEOREM TypeCorrect == Spec => []TypeOK
<1>1. StructureInv => TypeOK
  BY DEF StructureInv
<1> QED BY StructureKept, <1>1, PTL

\* No buffer ever has two owners, is returned twice or leaks, however claims,
\* growths, shrinks and destructions of the deques interleave.
THEOREM PoolAccounted == Spec => []RecordsAccounted
<1>1. StructureInv => RecordsAccounted
  BY DEF StructureInv
<1> QED BY StructureKept, <1>1, PTL

\* cached_top_ stays a lower bound of top_, and the waiting items never fill
\* the array, although thieves move top_ and shrinks move both indices.
THEOREM RangeKept == Spec => []IndicesInRange
<1>1. StructureInv => IndicesInRange
  BY DEF StructureInv, OwnerIndices, IndicesInRange, PushPC
<1> QED BY StructureKept, <1>1, PTL

\* A steal whose CAS succeeds takes an index at which an item waits or for
\* which the owner still competes, whatever the thief read while the owner
\* was growing, shrinking or emptying the deque.
THEOREM NoClaimPastEnd == Spec => []ClaimIsThere
<1>1. StructureInv => ClaimIsThere
  <2> SUFFICES ASSUME StructureInv, NEW p \in Thief,
                      thief[p].pc \in {"slot", "cas"}, thief[p].t = top[thief[p].d]
               PROVE  thief[p].t \in Window(thief[p].d) \/ Contended(thief[p].d)
    BY DEF ClaimIsThere
  <2> DEFINE d == thief[p].d
  <2>1. d \in Deque /\ Claimable(d)
    BY DEF StructureInv, ThiefIndices
  <2>2. top[d] \in Int /\ LogicalBottom(d) \in Int
    BY <2>1, IndexTypes DEF StructureInv, LogicalBottom
  <2> QED BY <2>1, <2>2 DEF Claimable, Window
<1> QED BY StructureKept, <1>1, PTL

\* Neither a claim, nor the race for the last item, nor a shrink that moves the
\* indices or rolls back moves top_ of a live deque back.
LEMMA TopForward ==
  ASSUME StructureInv, Next, NEW d \in Deque, Live(d)
  PROVE  top'[d] >= top[d]
<1>t. TypeOK /\ top[d] \in Int
  BY IndexTypes DEF StructureInv
<1>1. ASSUME NEW e \in Deque, OwnerStep(e)
      PROVE  top'[d] >= top[d]
  <2>1. CASE e = d
    <3>1. OwnerStep(d)
      BY <1>1, <2>1
    <3>2. CASE ~SameTop(d)
      <4>1. top'[d] > top[d]
        BY <3>1, <3>2, OwnerMovesTop
      <4>2. top'[d] \in Int
        BY <1>1, OwnerStepInv DEF StructureInv, TypeOK
      <4> QED BY <1>t, <4>1, <4>2
    <3> QED BY <1>t, <3>2 DEF SameTop
  <2>2. CASE e # d
    BY <1>t, <1>1, <2>2, OwnerStepFrame
  <2> QED BY <2>1, <2>2
<1>2. ASSUME NEW p \in Thief, ThiefStep(p)
      PROVE  top'[d] >= top[d]
  <2>1. top' = top \/ top' = [top EXCEPT ![thief[p].d] = @ + 1]
    BY <1>2, ThiefMovesTop
  <2>2. top \in [Deque -> Int]
    BY <1>t DEF TypeOK
  <2> QED BY <1>t, <2>1, <2>2
<1> QED BY <1>1, <1>2 DEF Next

\* No step ever moves top_ of a live deque back: a compare-and-swap that
\* succeeds has seen no other value of top_ since it was read.
THEOREM TopMovesForward == Spec => TopNeverFalls
<1>1. StructureInv /\ [Next]_vars => [\A d \in Deque : Live(d) => top'[d] >= top[d]]_vars
  BY TopForward
<1> QED BY StructureKept, <1>1, PTL DEF Spec, TopNeverFalls

-----------------------------------------------------------------------------
(* The items.                                                              *)

\* Where every item of every deque is, at all times.
THEOREM ItemsForever == Spec => [](StructureInv /\ ItemInv)
<1>1. Init => StructureInv /\ ItemInv
  BY InitInv, InitItems
<1>2. StructureInv /\ ItemInv /\ [Next]_vars => (StructureInv /\ ItemInv)'
  <2> SUFFICES ASSUME StructureInv, ItemInv, [Next]_vars
               PROVE  StructureInv' /\ ItemInv'
    OBVIOUS
  <2>1. ASSUME NEW d \in Deque, OwnerStep(d)
        PROVE  StructureInv' /\ ItemInv'
    BY <2>1, OwnerStepInv, OwnerStepItems
  <2>2. ASSUME NEW p \in Thief, ThiefStep(p)
        PROVE  StructureInv' /\ ItemInv'
    BY <2>2, ThiefStepInv, ThiefStepItems
  <2>3. CASE UNCHANGED vars
    BY <2>3, StutterInv, StutterItems
  <2> QED BY <2>1, <2>2, <2>3 DEF Next
<1> QED BY <1>1, <1>2, PTL DEF Spec

\* No item is returned twice, to the owner or to any of the thieves, however
\* pops, steals, growths and shrinks interleave.
THEOREM ReturnedAtMostOnce == Spec => []AtMostOnce
<1>1. ItemInv => AtMostOnce
  BY DEF ItemInv, HeldInv, ReturnedOnce, AtMostOnce
<1> QED BY <1>1, ItemsForever, PTL

\* Every pushed item is waiting in the active array, in the owner's hands, or
\* returned: no growth, shrink or failed race drops it or hides it under a
\* stale slot.
THEOREM NoItemLost == Spec => []NothingLost
<1>1. ItemInv => NothingLost
  BY DEF ItemInv, HeldInv, Contents, ItemsKept, NothingLost
<1> QED BY <1>1, ItemsForever, PTL

\* The waiting items keep the order of their pushes through every copy: the
\* oldest is at top_, where steals take it, the newest at bottom_.
THEOREM OrderKept == Spec => []InPushOrder
<1>1. ItemInv => InPushOrder
  BY DEF ItemInv, HeldInv, Contents, ItemsKept, InPushOrder
<1> QED BY <1>1, ItemsForever, PTL

\* A steal whose CAS would succeed carries the item that is at top_ now, even
\* when it read the slot from an array that has since been replaced.
THEOREM StaleClaimsFail == Spec => []ClaimIsCurrent
<1>1. ItemInv => ClaimIsCurrent
  BY DEF ItemInv, HeldInv, ClaimSource, ClaimIsCurrent
<1> QED BY <1>1, ItemsForever, PTL

-----------------------------------------------------------------------------
(* The waiting items as a sequence.                                        *)

\* A sequence that is one longer, or lacks the last or the first item.
LEMMA OneLonger ==
  ASSUME NEW S, NEW s \in Seq(S), NEW w \in Seq(S), Len(w) = Len(s) + 1,
         \A k \in 1..Len(s) : w[k] = s[k],
         NEW x, w[Len(w)] = x
  PROVE  w = Append(s, x)
<1>1. Len(s) \in Nat /\ Len(w) \in Nat
  BY LenProperties
<1>2. x \in S
  BY <1>1, ElementOfSeq
<1>3. PICK v \in Seq(S) : v = Append(s, x)
  BY <1>2, AppendProperties
<1>4. Len(v) = Len(s) + 1 /\ v[Len(s) + 1] = x /\ \A k \in 1..Len(s) : v[k] = s[k]
  BY <1>2, <1>3, AppendProperties
<1>5. \A k \in 1..Len(w) : w[k] = v[k]
  BY <1>1, <1>4
<1> QED BY <1>1, <1>3, <1>4, <1>5, SeqEqual

\* A sequence without its last element,
LEMMA OneShorter ==
  ASSUME NEW S, NEW s \in Seq(S), NEW w \in Seq(S), Len(s) = Len(w) + 1,
         \A k \in 1..Len(w) : w[k] = s[k]
  PROVE  w = SubSeq(s, 1, Len(s) - 1)
<1>1. Len(s) \in Nat /\ Len(w) \in Nat
  BY LenProperties
<1>2. \A k \in 1..Len(s) - 1 : s[k] \in S
  BY <1>1, ElementOfSeq
<1>3. PICK v \in Seq(S) : v = SubSeq(s, 1, Len(s) - 1)
  BY <1>1, <1>2, SubSeqProperties
<1>4. Len(v) = Len(w)
  BY <1>1, <1>2, <1>3, SubSeqProperties
<1>5. ASSUME NEW k \in 1..Len(w) PROVE w[k] = v[k]
  <2>1. v[k] = s[1 + k - 1]
    BY <1>1, <1>2, <1>3, SubSeqProperties
  <2> QED BY <1>1, <2>1
<1> QED BY <1>3, <1>4, <1>5, SeqEqual

\* and one without its first.
LEMMA FirstGone ==
  ASSUME NEW S, NEW s \in Seq(S), NEW w \in Seq(S), Len(s) = Len(w) + 1,
         \A k \in 1..Len(w) : w[k] = s[k + 1]
  PROVE  w = Tail(s)
<1>1. Len(s) \in Nat /\ Len(w) \in Nat /\ s # <<>>
  BY LenProperties
<1>2. Tail(s) \in Seq(S) /\ Len(Tail(s)) = Len(w) /\ \A i \in 1..Len(w) : Tail(s)[i] = s[i + 1]
  BY <1>1, HeadTailProperties
<1> QED BY <1>1, <1>2, SeqEqual

\* The waiting items as a sequence: its length, and each of its items.
LEMMA WaitingItems ==
  ASSUME TypeOK, NEW d \in Deque, Live(d), active[d] \in Record,
         NEW n \in Nat, LogicalBottom(d) = top[d] + n
  PROVE  /\ Waiting(d) \in Seq(Value) /\ Len(Waiting(d)) = n
         /\ \A k \in 1..n : \A i : i = top[d] + k - 1 => Waiting(d)[k] = ItemAt(d, i)
<1>1. top[d] \in Int
  BY DEF TypeOK
<1>2. Waiting(d) = [k \in 1..n |-> ItemAt(d, top[d] + k - 1)]
  BY <1>1 DEF Waiting
<1>3. \A k \in 1..n : ItemAt(d, top[d] + k - 1) \in Value
  BY <1>1, LoadType DEF ItemAt, TypeOK, PoolTypeOK
<1> QED BY <1>2, <1>3

\* Nothing waits below top_.
LEMMA WaitingNone ==
  ASSUME NEW d, top[d] \in Int, LogicalBottom(d) \in Int, LogicalBottom(d) <= top[d]
  PROVE  Waiting(d) = <<>>
<1>1. CASE Live(d)
  <2>1. 1..LogicalBottom(d) - top[d] = {}
    OBVIOUS
  <2>2. Waiting(d) = [k \in {} |-> ItemAt(d, top[d] + k - 1)]
    BY <1>1, <2>1 DEF Waiting
  <2> QED BY <2>2
<1> QED BY <1>1 DEF Waiting

\* The same of the state after a step.
LEMMA WaitingItemsNext ==
  ASSUME TypeOK', NEW d \in Deque, Live(d)', active'[d] \in Record,
         NEW n \in Nat, LogicalBottom(d)' = top'[d] + n
  PROVE  /\ Waiting(d)' \in Seq(Value) /\ Len(Waiting(d)') = n
         /\ \A k \in 1..n : \A i : i = top'[d] + k - 1 => Waiting(d)'[k] = ItemAt(d, i)'
<1>1. top'[d] \in Int
  BY DEF TypeOK
<1>2. Waiting(d)' = [k \in 1..n |-> buf'[active'[d]].slots[(top'[d] + k - 1) % Capacity[active'[d]]]]
  BY <1>1 DEF Waiting, ItemAt, Load, Index
<1>3. ASSUME NEW k \in 1..n, NEW i, i = top'[d] + k - 1
      PROVE  Waiting(d)'[k] = ItemAt(d, i)' /\ ItemAt(d, i)' \in Value
  <2>1. ItemAt(d, i)' = buf'[active'[d]].slots[i % Capacity[active'[d]]]
    BY DEF ItemAt, Load, Index
  <2>2. PICK r \in Record : r = active'[d]
    OBVIOUS
  <2>3. i % Capacity[r] \in 0..Capacity[r] - 1
    <3>1. i \in Int
      BY <1>1, <1>3
    <3> QED BY <3>1, IndexInRange DEF Index
  <2>4. buf'[r] \in Buffer(Capacity[r])
    BY DEF TypeOK, PoolTypeOK, BufferTypeOK
  <2>5. buf'[r].slots \in [0..Capacity[r] - 1 -> Value]
    BY <2>4 DEF Buffer
  <2> QED BY <1>2, <1>3, <2>1, <2>2, <2>3, <2>5
<1> QED BY <1>1, <1>2, <1>3

\* The same after a step.
LEMMA WaitingNoneNext ==
  ASSUME NEW d, top'[d] \in Int, LogicalBottom(d)' \in Int, LogicalBottom(d)' <= top'[d]
  PROVE  Waiting(d)' = <<>>
<1>1. CASE Live(d)'
  <2>1. 1..LogicalBottom(d)' - top'[d] = {}
    OBVIOUS
  <2>2. Waiting(d)' = [k \in {} |-> buf'[active'[d]].slots[(top'[d] + k - 1) % Capacity[active'[d]]]]
    BY <1>1, <2>1 DEF Waiting, ItemAt, Load, Index
  <2> QED BY <2>2
<1> QED BY <1>1 DEF Waiting

\* Items that move together with both indices stay the same sequence.
LEMMA WaitingSame ==
  ASSUME TypeOK, TypeOK', NEW d \in Deque, Live(d), Live(d)',
         active[d] \in Record, active'[d] \in Record, NEW c \in Int,
         top'[d] = top[d] + c, LogicalBottom(d)' = LogicalBottom(d) + c,
         \A i \in Window(d) : \A j : j = i + c => ItemAt(d, j)' = ItemAt(d, i)
  PROVE  Waiting(d)' = Waiting(d)
<1>1. top[d] \in Int /\ LogicalBottom(d) \in Int
  BY DEF TypeOK, OwnerType, LogicalBottom
<1>2. CASE LogicalBottom(d) <= top[d]
  BY <1>1, <1>2, WaitingNone, WaitingNoneNext
<1>3. CASE LogicalBottom(d) > top[d]
  <2>1. PICK n \in Nat : n = LogicalBottom(d) - top[d]
    BY <1>1, <1>3
  <2>2. LogicalBottom(d) = top[d] + n /\ LogicalBottom(d)' = top'[d] + n
    BY <1>1, <2>1
  <2>3. ASSUME NEW k \in 1..n
        PROVE  Waiting(d)'[k] = Waiting(d)[k]
    <3>1. PICK i \in Window(d) : i = top[d] + k - 1
      BY <1>1, <2>1 DEF Window
    <3>2. PICK j \in Int : j = i + c
      BY <1>1, <3>1
    <3>3. j = top'[d] + k - 1
      BY <1>1, <3>1, <3>2
    <3>4. Waiting(d)[k] = ItemAt(d, i) /\ Waiting(d)'[k] = ItemAt(d, j)'
      BY <2>2, <3>1, <3>3, WaitingItems, WaitingItemsNext
    <3> QED BY <3>1, <3>2, <3>4
  <2>4. /\ Waiting(d) \in Seq(Value) /\ Len(Waiting(d)) = n
        /\ Waiting(d)' \in Seq(Value) /\ Len(Waiting(d)') = n
    BY <2>2, WaitingItems, WaitingItemsNext
  <2> QED BY <2>3, <2>4, SeqEqual
<1> QED BY <1>1, <1>2, <1>3

\* A push appends its item, a pop of a waiting item takes the last one, and a
\* claim takes the first one.
LEMMA WaitingAppended ==
  ASSUME TypeOK, TypeOK', NEW d \in Deque, Live(d), Live(d)',
         active[d] \in Record, active'[d] \in Record,
         top[d] <= LogicalBottom(d), top'[d] = top[d], LogicalBottom(d)' = LogicalBottom(d) + 1,
         \A i \in Window(d) : ItemAt(d, i)' = ItemAt(d, i),
         NEW x, \A b : b = LogicalBottom(d) => ItemAt(d, b)' = x
  PROVE  Waiting(d)' = Append(Waiting(d), x)
<1>1. top[d] \in Int /\ LogicalBottom(d) \in Int
  BY DEF TypeOK, OwnerType, LogicalBottom
<1>2. PICK n \in Nat : LogicalBottom(d) = top[d] + n
  <2>1. LogicalBottom(d) - top[d] \in Nat
    BY <1>1
  <2> QED BY <1>1, <2>1
<1>3. n + 1 \in Nat /\ LogicalBottom(d)' = top'[d] + (n + 1)
  BY <1>1, <1>2
<1>4. /\ Waiting(d) \in Seq(Value) /\ Len(Waiting(d)) = n
      /\ Waiting(d)' \in Seq(Value) /\ Len(Waiting(d)') = n + 1
  BY <1>2, <1>3, WaitingItems, WaitingItemsNext
<1>5. ASSUME NEW k \in 1..n
      PROVE  Waiting(d)'[k] = Waiting(d)[k]
  <2>1. PICK i \in Window(d) : i = top[d] + k - 1
    BY <1>1, <1>2 DEF Window
  <2>2. Waiting(d)[k] = ItemAt(d, i)
    BY <1>2, <2>1, WaitingItems
  <2>3. Waiting(d)'[k] = ItemAt(d, i)'
    <3>1. k \in 1..n + 1 /\ i = top'[d] + k - 1
      BY <2>1
    <3> QED BY <1>3, <3>1, WaitingItemsNext
  <2> QED BY <2>2, <2>3
<1>6. Waiting(d)'[n + 1] = x
  <2>1. PICK b : b = LogicalBottom(d)
    OBVIOUS
  <2>2. n + 1 \in 1..n + 1 /\ b = top'[d] + (n + 1) - 1
    BY <1>1, <1>2, <2>1
  <2>3. Waiting(d)'[n + 1] = ItemAt(d, b)'
    BY <1>3, <2>2, WaitingItemsNext
  <2> QED BY <2>1, <2>3
<1> QED BY <1>4, <1>5, <1>6, OneLonger

\* A bottom_ lowered by one takes the newest item out,
LEMMA WaitingPopped ==
  ASSUME TypeOK, TypeOK', NEW d \in Deque, Live(d), Live(d)',
         active[d] \in Record, active'[d] \in Record,
         top[d] < LogicalBottom(d), top'[d] = top[d], LogicalBottom(d)' = LogicalBottom(d) - 1,
         \A i \in Window(d) : ItemAt(d, i)' = ItemAt(d, i)
  PROVE  /\ Waiting(d) # <<>> /\ Waiting(d)' = SubSeq(Waiting(d), 1, Len(Waiting(d)) - 1)
         /\ \A b : b = LogicalBottom(d) - 1 => Waiting(d)[Len(Waiting(d))] = ItemAt(d, b)
<1>1. top[d] \in Int /\ LogicalBottom(d) \in Int
  BY DEF TypeOK, OwnerType, LogicalBottom
<1>2. PICK n \in Nat : LogicalBottom(d) = top[d] + (n + 1)
  <2>1. PICK n : n = LogicalBottom(d) - top[d] - 1
    OBVIOUS
  <2>2. n \in Nat /\ LogicalBottom(d) = top[d] + (n + 1)
    BY <1>1, <2>1
  <2> QED BY <2>2
<1>3. n + 1 \in Nat /\ LogicalBottom(d)' = top'[d] + n
  BY <1>1, <1>2
<1>4. /\ Waiting(d) \in Seq(Value) /\ Len(Waiting(d)) = n + 1
      /\ Waiting(d)' \in Seq(Value) /\ Len(Waiting(d)') = n
  BY <1>2, <1>3, WaitingItems, WaitingItemsNext
<1>5. ASSUME NEW k \in 1..n
      PROVE  Waiting(d)'[k] = Waiting(d)[k]
  <2>1. PICK i \in Window(d) : i = top[d] + k - 1 /\ i = top'[d] + k - 1
    BY <1>1, <1>2 DEF Window
  <2>2. Waiting(d)[k] = ItemAt(d, i)
    <3>1. k \in 1..n + 1
      OBVIOUS
    <3> QED BY <1>2, <1>3, <2>1, <3>1, WaitingItems
  <2>3. Waiting(d)'[k] = ItemAt(d, i)'
    BY <1>3, <2>1, WaitingItemsNext
  <2> QED BY <2>1, <2>2, <2>3
<1>6. \A b : b = LogicalBottom(d) - 1 => Waiting(d)[n + 1] = ItemAt(d, b)
  <2>1. n + 1 \in 1..n + 1
    OBVIOUS
  <2>2. \A b : b = LogicalBottom(d) - 1 => b = top[d] + (n + 1) - 1
    BY <1>1, <1>2
  <2> QED BY <1>2, <1>3, <2>1, <2>2, WaitingItems
<1>7. Waiting(d) # <<>>
  BY <1>4
<1>8. Waiting(d)' = SubSeq(Waiting(d), 1, Len(Waiting(d)) - 1)
  BY <1>4, <1>5, OneShorter
<1> QED BY <1>4, <1>6, <1>7, <1>8

\* a top_ raised by one the oldest.
LEMMA WaitingStolen ==
  ASSUME TypeOK, TypeOK', NEW d \in Deque, Live(d), Live(d)',
         active[d] \in Record, active'[d] \in Record,
         top[d] < LogicalBottom(d), top'[d] = top[d] + 1, LogicalBottom(d)' = LogicalBottom(d),
         \A i \in Window(d) : ItemAt(d, i)' = ItemAt(d, i)
  PROVE  /\ Waiting(d) # <<>> /\ Waiting(d)' = Tail(Waiting(d))
         /\ Head(Waiting(d)) = ItemAt(d, top[d])
<1>1. top[d] \in Int /\ LogicalBottom(d) \in Int
  BY DEF TypeOK, OwnerType, LogicalBottom
<1>2. PICK n \in Nat : LogicalBottom(d) = top[d] + (n + 1)
  <2>1. PICK n : n = LogicalBottom(d) - top[d] - 1
    OBVIOUS
  <2>2. n \in Nat /\ LogicalBottom(d) = top[d] + (n + 1)
    BY <1>1, <2>1
  <2> QED BY <2>2
<1>3. n + 1 \in Nat /\ LogicalBottom(d)' = top'[d] + n
  BY <1>1, <1>2
<1>4. /\ Waiting(d) \in Seq(Value) /\ Len(Waiting(d)) = n + 1
      /\ Waiting(d)' \in Seq(Value) /\ Len(Waiting(d)') = n
  BY <1>2, <1>3, WaitingItems, WaitingItemsNext
<1>5. ASSUME NEW k \in 1..n
      PROVE  Waiting(d)'[k] = Waiting(d)[k + 1]
  <2>1. PICK i \in Window(d) : i = top[d] + (k + 1) - 1 /\ i = top'[d] + k - 1
    BY <1>1, <1>2 DEF Window
  <2>2. Waiting(d)[k + 1] = ItemAt(d, i)
    <3>1. k + 1 \in 1..n + 1
      OBVIOUS
    <3> QED BY <1>2, <1>3, <2>1, <3>1, WaitingItems
  <2>3. Waiting(d)'[k] = ItemAt(d, i)'
    BY <1>3, <2>1, WaitingItemsNext
  <2> QED BY <2>1, <2>2, <2>3
<1>6. Waiting(d)[1] = ItemAt(d, top[d])
  <2>1. 1 \in 1..n + 1
    OBVIOUS
  <2>2. \A i : i = top[d] => i = top[d] + 1 - 1
    BY <1>1
  <2> QED BY <1>2, <1>3, <2>1, <2>2, WaitingItems
<1>7. Waiting(d) # <<>> /\ Head(Waiting(d)) = Waiting(d)[1]
  BY <1>4
<1>8. Waiting(d)' = Tail(Waiting(d))
  BY <1>4, <1>5, FirstGone
<1> QED BY <1>6, <1>7, <1>8

-----------------------------------------------------------------------------
(* What the abstract deques see of a step.                                 *)

\* A deque of which the abstract deques see no change in a step.
Unseen(d) ==
  /\ Live(d)' = Live(d) /\ Waiting(d)' = Waiting(d)
  /\ Held(d)' = Held(d) /\ Committed(d)' = Committed(d)
  /\ pushed'[d] = pushed[d] /\ returned'[d] = returned[d]

Elsewhere(d) == \A e \in Deque \ {d} : Unseen(e)

\* A step that shows on no deque is a stutter of the abstract deques.
LEMMA AllUnseen ==
  ASSUME TypeOK, TypeOK', \A d \in Deque : Unseen(d)
  PROVE  UNCHANGED Abstract!vars
<1>1. pushed' = pushed /\ returned' = returned
  BY DEF TypeOK, Unseen
<1> QED BY <1>1 DEF Unseen, Abstract!vars

\* A step that shows on one deque only is the action of the abstract deques
\* that makes this change.
LEMMA SeenOpen ==
  ASSUME TypeOK, TypeOK', NEW d \in Deque, Elsewhere(d),
         ~Live(d), Live(d)', Waiting(d)' = Waiting(d), Held(d)' = Held(d),
         Committed(d)' = Committed(d), pushed'[d] = pushed[d], returned'[d] = returned[d]
  PROVE  Abstract!Next
<1>1. pushed' = pushed /\ returned' = returned
  BY DEF TypeOK, Unseen, Elsewhere
<1>2. Abstract!Open(d)
  BY <1>1 DEF Unseen, Elsewhere, Abstract!Open
<1> QED BY <1>2 DEF Abstract!Next

\* A destructor closes the abstract deque,
LEMMA SeenClose ==
  ASSUME TypeOK, TypeOK', NEW d \in Deque, Elsewhere(d),
         Live(d), ~Live(d)', Waiting(d)' = <<>>, Held(d) = {}, Held(d)' = {},
         Committed(d)' = Committed(d), pushed'[d] = pushed[d], returned'[d] = returned[d]
  PROVE  Abstract!Next
<1>1. pushed' = pushed /\ returned' = returned
  BY DEF TypeOK, Unseen, Elsewhere
<1>2. [e \in Deque |-> Live(e)]' = [[e \in Deque |-> Live(e)] EXCEPT ![d] = FALSE]
  BY DEF Unseen, Elsewhere, Live
<1>3. [e \in Deque |-> Waiting(e)]' = [[e \in Deque |-> Waiting(e)] EXCEPT ![d] = <<>>]
  BY DEF Unseen, Elsewhere
<1>4. [e \in Deque |-> Held(e)]' = [e \in Deque |-> Held(e)]
  BY DEF Unseen, Elsewhere
<1>5. [e \in Deque |-> Committed(e)]' = [e \in Deque |-> Committed(e)]
  BY DEF Unseen, Elsewhere, Committed
<1>6. [e \in Deque |-> Live(e)][d] /\ [e \in Deque |-> Held(e)][d] = {}
  OBVIOUS
<1>7. Abstract!Close(d)
  BY <1>1, <1>2, <1>3, <1>4, <1>5, <1>6 DEF Abstract!Close
<1> QED BY <1>7 DEF Abstract!Next

\* the store of bottom_ at the end of a push appends the item,
LEMMA SeenPush ==
  ASSUME TypeOK, TypeOK', NEW d \in Deque, Elsewhere(d),
         Live(d), Live(d)', Held(d) = {}, Held(d)' = {},
         Committed(d)' = Committed(d), pushed'[d] = pushed[d] + 1, returned'[d] = returned[d],
         Waiting(d)' = Append(Waiting(d), <<d, pushed[d] + 1>>)
  PROVE  Abstract!Next
<1>1. pushed' = [pushed EXCEPT ![d] = @ + 1] /\ returned' = returned
  BY DEF TypeOK, Unseen, Elsewhere
<1>2. PICK after : after = Append(Waiting(d), <<d, pushed[d] + 1>>)
  OBVIOUS
<1>3. [e \in Deque |-> Waiting(e)]' = [[e \in Deque |-> Waiting(e)] EXCEPT ![d] = after]
  BY <1>2 DEF Unseen, Elsewhere
<1>4. [e \in Deque |-> Waiting(e)]' = [[e \in Deque |-> Waiting(e)] EXCEPT
        ![d] = Append([e \in Deque |-> Waiting(e)][d], <<d, pushed[d] + 1>>)]
  BY <1>2, <1>3
<1>5. UNCHANGED <<[e \in Deque |-> Live(e)], [e \in Deque |-> Held(e)],
                  [e \in Deque |-> Committed(e)]>>
  BY DEF Unseen, Elsewhere, Live, Committed
<1>6. [e \in Deque |-> Live(e)][d] /\ [e \in Deque |-> Held(e)][d] = {}
  OBVIOUS
<1>7. Abstract!Push(d)
  BY <1>1, <1>4, <1>5, <1>6 DEF Abstract!Push
<1> QED BY <1>7 DEF Abstract!Next

\* a pop that lowers bottom_ reserves the last item,
LEMMA SeenReserve ==
  ASSUME TypeOK, TypeOK', NEW d \in Deque, Elsewhere(d),
         Live(d)' = Live(d), Held(d) = {}, Waiting(d) # <<>>,
         Held(d)' = {Waiting(d)[Len(Waiting(d))]},
         Waiting(d)' = SubSeq(Waiting(d), 1, Len(Waiting(d)) - 1),
         Committed(d)' = Committed(d), pushed'[d] = pushed[d], returned'[d] = returned[d]
  PROVE  Abstract!Next
<1>1. pushed' = pushed /\ returned' = returned
  BY DEF TypeOK, Unseen, Elsewhere
<1>2. PICK after : after = SubSeq(Waiting(d), 1, Len(Waiting(d)) - 1)
  OBVIOUS
<1>3. [e \in Deque |-> Waiting(e)]' = [[e \in Deque |-> Waiting(e)] EXCEPT ![d] = after]
  BY <1>2 DEF Unseen, Elsewhere
<1>4. PICK held : held = {Waiting(d)[Len(Waiting(d))]}
  OBVIOUS
<1>5. [e \in Deque |-> Held(e)]' = [[e \in Deque |-> Held(e)] EXCEPT ![d] = held]
  BY <1>4 DEF Unseen, Elsewhere
<1>6. UNCHANGED <<[e \in Deque |-> Live(e)], [e \in Deque |-> Committed(e)]>>
  BY DEF Unseen, Elsewhere
<1>7. Abstract!Reserve(d)
  BY <1>1, <1>2, <1>3, <1>4, <1>5, <1>6 DEF Abstract!Reserve
<1> QED BY <1>7 DEF Abstract!Next

\* a pop whose item no thief can take any more commits to it,
LEMMA SeenCommit ==
  ASSUME TypeOK, TypeOK', NEW d \in Deque, Elsewhere(d),
         Live(d)' = Live(d), Waiting(d)' = Waiting(d), Held(d)' = Held(d), Held(d) # {},
         Committed(d)', pushed'[d] = pushed[d], returned'[d] = returned[d]
  PROVE  Abstract!Next
<1>1. pushed' = pushed /\ returned' = returned
  BY DEF TypeOK, Unseen, Elsewhere
<1>2. Abstract!Commit(d)
  BY <1>1 DEF Unseen, Elsewhere, Abstract!Commit
<1> QED BY <1>2 DEF Abstract!Next

\* and its return takes the item.
LEMMA SeenTakeReserved ==
  ASSUME TypeOK, TypeOK', NEW d \in Deque, Elsewhere(d),
         Live(d)' = Live(d), Waiting(d)' = Waiting(d), NEW x, Held(d) = {x}, Held(d)' = {},
         ~Committed(d)', pushed'[d] = pushed[d], Deliver(d, x)
  PROVE  Abstract!Next
<1>1. pushed' = pushed
  BY DEF TypeOK, Unseen, Elsewhere
<1>2. \E v \in [e \in Deque |-> Held(e)][d] : returned' = [returned EXCEPT ![d][v] = @ + 1]
  BY DEF Deliver
<1>3. [e \in Deque |-> Held(e)]' = [[e \in Deque |-> Held(e)] EXCEPT ![d] = {}]
  BY DEF Unseen, Elsewhere
<1>4. [e \in Deque |-> Committed(e)]' = [[e \in Deque |-> Committed(e)] EXCEPT ![d] = FALSE]
  BY DEF Unseen, Elsewhere, Committed
<1>5. UNCHANGED <<[e \in Deque |-> Live(e)], [e \in Deque |-> Waiting(e)]>>
  BY DEF Unseen, Elsewhere
<1>6. Abstract!TakeReserved(d)
  BY <1>1, <1>2, <1>3, <1>4, <1>5 DEF Abstract!TakeReserved
<1> QED BY <1>6 DEF Abstract!Next

\* A CAS of a thief takes the first item that waits,
LEMMA SeenStealFirst ==
  ASSUME TypeOK, TypeOK', NEW d \in Deque, Elsewhere(d),
         Live(d)' = Live(d), Held(d)' = Held(d), UNCHANGED pushed,
         Committed(d)' = Committed(d), 
         Waiting(d) # <<>>, Waiting(d)' = Tail(Waiting(d)), Deliver(d, Head(Waiting(d)))
  PROVE  Abstract!Next
<1>1. Abstract!StealFirst(d)
  BY DEF Unseen, Elsewhere, Abstract!StealFirst, Deliver
<1> QED BY <1>1 DEF Abstract!Next

\* or the one that a pop had reserved and not committed to.
LEMMA SeenStealReserved ==
  ASSUME TypeOK, TypeOK', NEW d \in Deque, Elsewhere(d),
         Live(d)' = Live(d), UNCHANGED pushed,
         ~Committed(d), ~Committed(d)', NEW x, Held(d) = {x}, Held(d)' = {},
         Waiting(d) = <<>>, Waiting(d)' = <<>>, Deliver(d, x)
  PROVE  Abstract!Next
<1>1. \E v \in [e \in Deque |-> Held(e)][d] : returned' = [returned EXCEPT ![d][v] = @ + 1]
  BY DEF Deliver
<1>2. [e \in Deque |-> Held(e)]' = [[e \in Deque |-> Held(e)] EXCEPT ![d] = {}]
  BY DEF Unseen, Elsewhere
<1>3. UNCHANGED <<[e \in Deque |-> Live(e)], [e \in Deque |-> Waiting(e)],
                  [e \in Deque |-> Committed(e)]>>
  BY DEF Unseen, Elsewhere, Live, Committed
<1>4. [e \in Deque |-> Waiting(e)][d] = <<>> /\ ~[e \in Deque |-> Committed(e)][d]
  OBVIOUS
<1>5. Abstract!StealReserved(d)
  BY <1>1, <1>2, <1>3, <1>4 DEF Abstract!StealReserved
<1> QED BY <1>5 DEF Abstract!Next

-----------------------------------------------------------------------------
(* What each step shows.                                                   *)

\* The waiting items depend on the indices and on the items between them.
LEMMA WaitingKept ==
  ASSUME TypeOK, TypeOK', NEW d \in Deque, Live(d)' = Live(d),
         Live(d) => active[d] \in Record /\ active'[d] \in Record,
         top'[d] = top[d], LogicalBottom(d)' = LogicalBottom(d),
         \A i \in Window(d) : ItemAt(d, i)' = ItemAt(d, i)
  PROVE  Waiting(d)' = Waiting(d)
<1>1. CASE Live(d)
  <2>1. top[d] \in Int /\ LogicalBottom(d) \in Int
    BY DEF TypeOK, OwnerType, LogicalBottom
  <2>2. PICK c \in Int : c = 0
    OBVIOUS
  <2>3. top'[d] = top[d] + c /\ LogicalBottom(d)' = LogicalBottom(d) + c
    BY <2>1, <2>2
  <2>4. \A i \in Window(d) : \A j : j = i + c => ItemAt(d, j)' = ItemAt(d, i)
    <3>1. \A i \in Window(d) : i + c = i
      BY <2>1, <2>2 DEF Window
    <3> QED BY <3>1
  <2> QED BY <1>1, <2>3, <2>4, WaitingSame
<1>2. CASE ~Live(d)
  BY <1>2 DEF Waiting
<1> QED BY <1>1, <1>2

\* The owner's pc and locals, the array and the two indices of a deque, and the
\* slots of its array, are all that the abstract deque sees of it.
LEMMA UnseenFrame ==
  ASSUME TypeOK, TypeOK', NEW d \in Deque, Live(d) => active[d] \in Record,
         owner'[d] = owner[d], active'[d] = active[d],
         top'[d] = top[d], bottom'[d] = bottom[d],
         pushed'[d] = pushed[d], returned'[d] = returned[d],
         Live(d) => SameContent(active[d])
  PROVE  Unseen(d)
<1>1. Live(d)' = Live(d)
  BY DEF Live
<1>2. ASSUME Live(d)
      PROVE  \A i : ItemAt(d, i)' = ItemAt(d, i)
  BY <1>2 DEF SameContent, ItemAt, Load, Index
<1>3. LogicalBottom(d)' = LogicalBottom(d)
  BY DEF LogicalBottom, Shifted
<1>4. Waiting(d)' = Waiting(d)
  <2>1. CASE Live(d)
    BY <1>1, <1>2, <1>3, <2>1, WaitingKept
  <2>2. CASE ~Live(d)
    BY <1>1, <2>2 DEF Waiting
  <2> QED BY <2>1, <2>2
<1>5. Held(d)' = Held(d)
  <2>1. CASE owner[d].pc = "popTop"
    <3>1. ItemAt(d, owner[d].b)' = ItemAt(d, owner[d].b)
      <4>1. PICK b : b = owner[d].b
        OBVIOUS
      <4>2. ItemAt(d, b)' = ItemAt(d, b)
        BY <1>2, <2>1 DEF Live
      <4>3. ItemAt(d, owner[d].b)' = ItemAt(d, b)'
        BY <4>1 DEF ItemAt, Load, Index
      <4> QED BY <4>1, <4>2, <4>3
    <3> QED BY <2>1, <3>1, HeldCases, HeldCasesNext
  <2>2. CASE owner[d].pc # "popTop"
    BY <2>2, HeldCases, HeldCasesNext
  <2> QED BY <2>1, <2>2
<1>6. Committed(d)' = Committed(d)
  BY <1>5 DEF Committed
<1> QED BY <1>1, <1>4, <1>5, <1>6 DEF Unseen

\* An owner's step shows on its own deque only.
LEMMA OwnerElsewhere ==
  ASSUME StructureInv, ItemInv, NEW d \in Deque, OwnerStep(d)
  PROVE  Elsewhere(d)
<1>t. TypeOK /\ TypeOK'
  BY OwnerStepInv DEF StructureInv
<1>1. PICK holder \in Holders : HeldInv(holder)
  BY DEF ItemInv
<1>2. ChainsHeld(holder) /\ \A e \in Deque : Contents(e, holder)
  BY <1>1 DEF HeldInv
<1>3. ASSUME NEW e \in Deque \ {d}
      PROVE  Unseen(e)
  <2>1. pushed'[e] = pushed[e] /\ returned'[e] = returned[e]
    BY <1>t, OwnerStepHistory
  <2>2. /\ owner'[e] = owner[e] /\ active'[e] = active[e]
        /\ top'[e] = top[e] /\ bottom'[e] = bottom[e]
    BY <1>t, OwnerStepFrame
  <2>3. ASSUME Live(e)
        PROVE  active[e] \in Record /\ SameContent(active[e])
    <3>1. active[e] \in Record /\ holder[active[e]] = e
      BY <1>2, <2>3, LiveFacts DEF Contents
    <3>2. e # NoDeque
      BY DequeAssumption
    <3> QED BY <1>2, <3>1, <3>2, OthersUntouched
  <2> QED BY <1>t, <2>1, <2>2, <2>3, UnseenFrame
<1> QED BY <1>3 DEF Elsewhere

\* What a step of the owner that neither publishes nor lowers bottom_ does to
\* the waiting items: nothing.
LEMMA OwnWaiting ==
  ASSUME StructureInv, NEW holder \in Holders, ChainsHeld(holder), NEW d \in Deque, OwnerStep(d),
         Live(d), Live(d)', Contents(d, holder), ~PushBottom(d), ~Pop(d)
  PROVE  Waiting(d)' = Waiting(d)
<1>t. TypeOK /\ TypeOK' /\ StructureInv'
  BY OwnerStepInv DEF StructureInv
<1>i. /\ top[d] \in Int /\ LogicalBottom(d) \in Int
      /\ top'[d] \in Int /\ LogicalBottom(d)' \in Int
  BY <1>t DEF TypeOK, OwnerType, LogicalBottom
<1>a. active[d] \in Record /\ active'[d] \in Record
  BY <1>t DEF StructureInv, OwnerPointers, Live
<1>s. \A i \in Window(d) : ItemAt(d, i)' = ItemAt(d, i)
  BY ItemsStay
<1>1. CASE SameTop(d) /\ LogicalBottom(d)' = LogicalBottom(d)
  BY <1>t, <1>a, <1>s, <1>1, WaitingKept DEF SameTop, Live
<1>2. CASE LogicalBottom(d) <= top[d] /\ LogicalBottom(d)' <= top'[d]
  BY <1>i, <1>2, WaitingNone, WaitingNoneNext
<1>3. CASE /\ ShrinkCas(d) /\ top'[d] = top[d] + Capacity[active[d]]
           /\ LogicalBottom(d)' = LogicalBottom(d) + Capacity[active[d]]
  <2>1. PICK c \in Nat \ {0} : c = Capacity[active[d]]
    BY LiveFacts
  <2>2. ASSUME NEW i \in Window(d), NEW j, j = i + c
        PROVE  ItemAt(d, j)' = ItemAt(d, i)
    <3>1. i \in Int
      BY LiveFacts
    <3>2. c % Capacity[active[d]] = 0
      BY <2>1, ModSelf
    <3>3. Load(active[d], j) = Load(active[d], i)
      BY <1>a, <2>2, <3>1, <3>2, WrapAround
    <3>4. ItemAt(d, j)' = ItemAt(d, j)
      <4>1. UNCHANGED <<buf, active>>
        BY <1>3 DEF ShrinkCas, poolVars
      <4> QED BY <4>1, ItemFrame
    <3> QED BY <3>3, <3>4 DEF ItemAt
  <2> QED BY <1>t, <1>a, <1>3, <2>1, <2>2, WaitingSame
<1> QED BY <1>1, <1>2, <1>3, OwnWindow

\* A push shows when it publishes bottom_.
LEMMA PushBottomSeen ==
  ASSUME StructureInv, NEW holder \in Holders, ChainsHeld(holder), NEW d \in Deque,
         Contents(d, holder), PushBottom(d), Elsewhere(d)
  PROVE  Abstract!Next
<1> DEFINE o == owner[d]
<1>s. OwnerStep(d)
  BY DEF OwnerStep, PushStep
<1>t. TypeOK /\ TypeOK'
  BY <1>s, OwnerStepInv DEF StructureInv
<1>1. /\ o.pc = "pushBottom" /\ owner'[d].pc = "idle" /\ SameArray(d) /\ SameTop(d)
      /\ Live(d) /\ Live(d)'
  BY <1>t, PushBottomEffect DEF Live
<1>2. /\ LogicalBottom(d) = o.b /\ LogicalBottom(d)' = o.b + 1
  BY <1>t, <1>1, PushBottomEffect DEF LogicalBottom, Shifted, StructureInv, OwnerIndices, PushPC
<1>3. top[d] <= o.b
  BY <1>1 DEF StructureInv, OwnerIndices, PushPC
<1>4. UNCHANGED <<buf, returned>>
  BY DEF PushBottom, poolVars
<1>5. \A i : ItemAt(d, i)' = ItemAt(d, i)
  BY <1>1, <1>4, ItemFrame DEF SameArray
<1>6. \A b : b = LogicalBottom(d) => ItemAt(d, b)' = <<d, pushed[d] + 1>>
  BY <1>1, <1>2, <1>5 DEF Contents, OwnersItem, PushPC
<1>7. active[d] \in Record /\ active'[d] \in Record
  BY <1>1, LiveFacts DEF SameArray
<1>8. Waiting(d)' = Append(Waiting(d), <<d, pushed[d] + 1>>)
  BY <1>t, <1>1, <1>2, <1>3, <1>5, <1>6, <1>7, WaitingAppended DEF SameTop
<1>9. Held(d) = {} /\ Held(d)' = {}
  BY <1>1, HeldCases, HeldCasesNext DEF HoldPC
<1>10. Committed(d)' = Committed(d)
  BY <1>9 DEF Committed
<1>11. pushed'[d] = pushed[d] + 1
  BY <1>t, <1>s, OwnHistory
<1> QED BY <1>t, <1>1, <1>4, <1>8, <1>9, <1>10, <1>11, SeenPush

\* A pop reserves its item when it lowers bottom_.
LEMMA PopSeen ==
  ASSUME StructureInv, NEW holder \in Holders, ChainsHeld(holder), NEW d \in Deque,
         Contents(d, holder), Pop(d), Elsewhere(d)
  PROVE  Abstract!Next \/ Unseen(d)
<1> DEFINE o == owner[d]
<1>s. OwnerStep(d)
  BY DEF OwnerStep, PopStep
<1>t. TypeOK /\ TypeOK'
  BY <1>s, OwnerStepInv DEF StructureInv
<1>1. /\ o.pc = "idle" /\ owner'[d].pc = "popTop" /\ owner'[d].b = bottom[d] - 1
      /\ SameArray(d) /\ SameTop(d) /\ Live(d) /\ Live(d)'
      /\ bottom'[d] = bottom[d] - 1
  BY <1>t, PopEffect DEF Live
<1>2. /\ LogicalBottom(d) = bottom[d] /\ LogicalBottom(d)' = bottom[d] - 1
  BY <1>1 DEF LogicalBottom, Shifted
<1>3. UNCHANGED <<buf, returned, pushed>>
  BY DEF Pop, poolVars, history
<1>4. \A i : ItemAt(d, i)' = ItemAt(d, i)
  BY <1>1, <1>3, ItemFrame DEF SameArray
<1>5. PICK b \in Int : b = bottom[d] - 1
  BY <1>1, LiveFacts
<1>6. /\ active[d] \in Record /\ active'[d] \in Record /\ top[d] \in Int /\ bottom[d] \in Int
  BY <1>1, LiveFacts DEF SameArray
<1>7. Held(d) = {} /\ Held(d)' = IF top[d] <= b THEN {ItemAt(d, b)} ELSE {}
  <2>1. ItemAt(d, owner[d].b)' = ItemAt(d, b)
    BY <1>1, <1>3, <1>5 DEF ItemAt, Load, Index, SameArray
  <2> QED BY <1>1, <1>5, <2>1, HeldCases, HeldCasesNext DEF HoldPC, SameTop
<1>8. Committed(d)' = Committed(d)
  BY <1>1, <1>7 DEF Committed
<1>9. Live(d)' = Live(d)
  BY <1>1 DEF Live
<1>10. CASE top[d] <= b
  <2>1. /\ Waiting(d) # <<>> /\ Waiting(d)' = SubSeq(Waiting(d), 1, Len(Waiting(d)) - 1)
        /\ \A i : i = LogicalBottom(d) - 1 => Waiting(d)[Len(Waiting(d))] = ItemAt(d, i)
    BY <1>t, <1>1, <1>2, <1>4, <1>5, <1>6, <1>10, WaitingPopped DEF SameTop
  <2>2. Held(d)' = {Waiting(d)[Len(Waiting(d))]}
    BY <1>2, <1>5, <1>7, <1>10, <2>1
  <2> QED BY <1>t, <1>3, <1>7, <1>8, <1>9, <2>1, <2>2, SeenReserve
<1>11. CASE ~(top[d] <= b)
  <2>1. Waiting(d) = <<>> /\ Waiting(d)' = <<>>
    BY <1>1, <1>2, <1>5, <1>6, <1>11, WaitingNone, WaitingNoneNext DEF SameTop
  <2> QED BY <1>3, <1>7, <1>8, <1>9, <1>11, <2>1 DEF Unseen
<1> QED BY <1>10, <1>11

\* A pop is undecided in its first two statements only.
LEMMA UndecidedSteps ==
  ASSUME TypeOK, NEW d \in Deque, OwnerStep(d)
  PROVE  /\ owner'[d].pc = "popTop" => Pop(d)
         /\ owner'[d].pc = "popCas" => PopReadTop(d)
<1>1. CASE LifeStep(d)
  BY <1>1, ConstructEffect, ConstructClaimEffect, ConstructScanEffect, ConstructFailsEffect,
     DestroyEffect, DestroyReleaseEffect DEF LifeStep
<1>2. CASE PushStep(d)
  BY <1>2, TryPushEffect, PushReadTopEffect, GrowClaimEffect, GrowScanEffect, PushFailsEffect,
     GrowCopyEffect, GrowPublishEffect, PushSlotEffect, PushBottomEffect DEF PushStep
<1>3. CASE PopStep(d)
  BY <1>3, PopEffect, PopReadTopEffect, PopRestoreEffect, PopCasEffect, PopSettleEffect DEF PopStep
<1>4. CASE ShrinkStep(d)
  BY <1>4, ShrinkWalkEffect, ShrinkStartEffect, ShrinkCopyEffect, ShrinkPublishEffect,
     ShrinkShiftEffect, ShrinkReadTopEffect, ShrinkCasEffect, ShrinkRestoreEffect,
     ShrinkReleaseEffect DEF ShrinkStep
<1> QED BY <1>1, <1>2, <1>3, <1>4 DEF OwnerStep

\* Every other step within a live deque commits to the item of its pop,
\* returns it, or does not show.
LEMMA LiveSeen ==
  ASSUME StructureInv, NEW holder \in Holders, ChainsHeld(holder), NEW d \in Deque, OwnerStep(d),
         Live(d), Live(d)', Contents(d, holder), ~PushBottom(d), ~Pop(d), Elsewhere(d)
  PROVE  Abstract!Next \/ Unseen(d)
<1>t. TypeOK /\ TypeOK'
  BY OwnerStepInv DEF StructureInv
<1>1. Waiting(d)' = Waiting(d)
  BY OwnWaiting
<1>2. pushed'[d] = pushed[d]
  BY <1>t, OwnHistory
<1>3. Live(d)' = Live(d)
  BY DEF Live
<1>4. CASE Held(d)' = Held(d) /\ UNCHANGED returned
  <2>1. CASE Committed(d)' = Committed(d)
    BY <1>1, <1>2, <1>3, <1>4, <2>1 DEF Unseen
  <2>2. CASE Committed(d)' /\ ~Committed(d)
    <3>1. Held(d) # {}
      BY <1>4, <2>2 DEF Committed
    <3> QED BY <1>t, <1>1, <1>2, <1>3, <1>4, <2>2, <3>1, SeenCommit
  <2>3. CASE Committed(d) /\ ~Committed(d)'
    <3>1. /\ Held(d)' # {} /\ owner'[d].pc \in {"popTop", "popCas"}
          /\ owner[d].pc \notin {"popTop", "popCas"}
      BY <1>4, <2>3 DEF Committed
    <3>2. PopReadTop(d)
      BY <1>t, <3>1, UndecidedSteps
    <3> QED BY <3>1, <3>2 DEF PopReadTop, OwnerAt
  <2>4. Committed(d) \in BOOLEAN /\ Committed(d)' \in BOOLEAN
    BY DEF Committed
  <2> QED BY <2>1, <2>2, <2>3, <2>4
<1>5. ASSUME NEW x, Held(d) = {x}, Held(d)' = {}, Deliver(d, x)
      PROVE  Abstract!Next
  <2>1. ~Committed(d)'
    BY <1>5 DEF Committed
  <2> QED BY <1>t, <1>1, <1>2, <1>3, <1>5, <2>1, SeenTakeReserved
<1> QED BY <1>4, <1>5, OwnHeld

\* A deque opens when its constructor returns, and closes when its destructor
\* is called.
LEMMA LifeSeen ==
  ASSUME StructureInv, NEW d \in Deque, LifeStep(d), Elsewhere(d)
  PROVE  Abstract!Next \/ Unseen(d)
<1> DEFINE o == owner[d]
<1>s. OwnerStep(d)
  BY DEF OwnerStep
<1>t. TypeOK /\ TypeOK'
  BY <1>s, OwnerStepInv DEF StructureInv
<1>1. UNCHANGED <<pushed, returned>>
  BY DEF LifeStep, Construct, ConstructClaim, ConstructScan, ConstructFails, Destroy,
     DestroyRelease, history
<1>2. /\ o.pc \in {"none", "construct", "destroy", "idle"}
      /\ owner'[d].pc \in {"none", "construct", "destroy", "idle"}
  BY <1>t, ConstructEffect, ConstructClaimEffect, ConstructScanEffect, ConstructFailsEffect,
     DestroyEffect, DestroyReleaseEffect DEF LifeStep
<1>3. Held(d) = {} /\ Held(d)' = {}
  BY <1>2, HeldCases, HeldCasesNext DEF HoldPC
<1>4. Committed(d)' = Committed(d)
  BY <1>3 DEF Committed
<1>5. CASE ~Live(d) /\ ~Live(d)'
  BY <1>1, <1>3, <1>4, <1>5 DEF Unseen, Waiting, Live
<1>6. CASE ~Live(d) /\ Live(d)'
  <2>1. top'[d] = 0 /\ bottom'[d] = 0 /\ owner'[d].pc = "idle"
    BY <1>t, <1>6, ConstructEffect, ConstructClaimEffect, ConstructScanEffect, ConstructFailsEffect,
       DestroyEffect, DestroyReleaseEffect DEF LifeStep, Live
  <2>2. Waiting(d)' = <<>>
    <3>1. LogicalBottom(d)' = 0
      BY <2>1 DEF LogicalBottom, Shifted
    <3> QED BY <2>1, <3>1, WaitingNoneNext
  <2>3. Waiting(d)' = Waiting(d)
    BY <1>6, <2>2 DEF Waiting
  <2> QED BY <1>t, <1>1, <1>3, <1>4, <1>6, <2>3, SeenOpen
<1>7. CASE Live(d) /\ ~Live(d)'
  <2>1. Waiting(d)' = <<>>
    BY <1>7 DEF Waiting
  <2> QED BY <1>t, <1>1, <1>3, <1>4, <1>7, <2>1, SeenClose
<1>8. CASE Live(d) /\ Live(d)'
  BY <1>t, <1>8, ConstructEffect, ConstructClaimEffect, ConstructScanEffect, ConstructFailsEffect,
     DestroyEffect, DestroyReleaseEffect DEF LifeStep, Live
<1> QED BY <1>5, <1>6, <1>7, <1>8

\* Every owner's step is a step of the abstract deques, or shows nowhere.
LEMMA OwnerStepSeen ==
  ASSUME StructureInv, ItemInv, NEW d \in Deque, OwnerStep(d)
  PROVE  Abstract!Next \/ UNCHANGED Abstract!vars
<1>t. TypeOK /\ TypeOK'
  BY OwnerStepInv DEF StructureInv
<1>1. Elsewhere(d)
  BY OwnerElsewhere
<1>2. PICK holder \in Holders : HeldInv(holder)
  BY DEF ItemInv
<1>3. ChainsHeld(holder) /\ Contents(d, holder)
  BY <1>2 DEF HeldInv
<1>4. Abstract!Next \/ Unseen(d)
  <2>1. CASE LifeStep(d)
    BY <1>1, <2>1, LifeSeen
  <2>2. CASE ~LifeStep(d)
    <3>1. Live(d) /\ Live(d)'
      BY <1>t, <2>2, NotLifeStep
    <3> QED BY <1>1, <1>3, <3>1, PushBottomSeen, PopSeen, LiveSeen
  <2> QED BY <2>1, <2>2
<1>5. Unseen(d) => \A e \in Deque : Unseen(e)
  BY <1>1 DEF Elsewhere
<1> QED BY <1>t, <1>4, <1>5, AllUnseen

\* A steal that succeeds takes the first waiting item, or the one that a pop
\* had reserved.
LEMMA ClaimSeen ==
  ASSUME StructureInv, TypeOK', NEW holder, NEW d \in Deque, Live(d), Claimable(d),
         Contents(d, holder), Elsewhere(d),
         UNCHANGED <<buf, owner, active, bottom, pushed>>, top'[d] = top[d] + 1,
         NEW x, x = ItemAt(d, top[d]), Deliver(d, x)
  PROVE  Abstract!Next
<1> DEFINE o == owner[d]
<1>t. TypeOK
  BY DEF StructureInv
<1>f. /\ top[d] \in Int /\ LogicalBottom(d) \in Int
      /\ active[d] \in Record /\ active'[d] \in Record
  BY LiveFacts
<1>b. LogicalBottom(d)' = LogicalBottom(d) /\ Live(d)' = Live(d) /\ Live(d)'
  BY DEF LogicalBottom, Shifted, Live
<1>i. \A i : ItemAt(d, i)' = ItemAt(d, i)
  BY ItemFrame
<1>1. CASE top[d] \in Window(d) /\ Held(d)' = Held(d)
  <2>1. top[d] < LogicalBottom(d)
    BY <1>f, <1>1 DEF Window
  <2>2. Waiting(d) # <<>> /\ Waiting(d)' = Tail(Waiting(d)) /\ Head(Waiting(d)) = x
    BY <1>t, <1>f, <1>b, <1>i, <2>1, WaitingStolen
  <2>3. Committed(d)' = Committed(d)
    BY <1>1 DEF Committed
  <2>4. Deliver(d, Head(Waiting(d)))
    BY <2>2
  <2> QED BY <1>t, <1>b, <1>1, <2>2, <2>3, <2>4, SeenStealFirst
<1>2. CASE /\ Window(d) = {} /\ Held(d)' = {}
           /\ \/ Held(d) = {ItemAt(d, top[d])}
              \/ o.pc = "popCas" /\ top[d] = o.t /\ Held(d) = {o.x}
  <2>1. Held(d) = {x}
    BY <1>2 DEF Contents, OwnersItem
  <2>2. ~(top[d] < LogicalBottom(d))
    BY <1>f, <1>2 DEF Window
  <2>3. Waiting(d) = <<>> /\ Waiting(d)' = <<>>
    <3>1. LogicalBottom(d)' <= top'[d] /\ LogicalBottom(d)' \in Int /\ top'[d] \in Int
      BY <1>f, <1>b, <2>2
    <3> QED BY <1>f, <2>2, <3>1, WaitingNone, WaitingNoneNext
  <2>4. ~Committed(d)
    BY <2>2 DEF Claimable, Contended, Committed
  <2>5. ~Committed(d)'
    BY <1>2 DEF Committed
  <2> QED BY <1>t, <1>b, <1>2, <2>1, <2>3, <2>4, <2>5, SeenStealReserved
<1> QED BY <1>1, <1>2, TakenWindow

\* Every thief's step is a steal of the abstract deques, or shows nowhere.
LEMMA ThiefStepSeen ==
  ASSUME StructureInv, ItemInv, NEW p \in Thief, ThiefStep(p)
  PROVE  Abstract!Next \/ UNCHANGED Abstract!vars
<1> DEFINE h == thief[p]
<1>t. TypeOK /\ TypeOK'
  BY ThiefStepInv DEF StructureInv
<1>1. PICK holder \in Holders : HeldInv(holder)
  BY DEF ItemInv
<1>2. (\A d \in Deque : Contents(d, holder)) /\ ClaimSource(p, holder)
  BY <1>1 DEF HeldInv
<1>3. UNCHANGED <<buf, owner, active, bottom>>
  BY <1>t, ThiefStepFrame DEF poolVars
<1>4. UNCHANGED <<pushed, base>>
  BY ThiefEffect
<1>5. ASSUME NEW d \in Deque, top'[d] = top[d], returned'[d] = returned[d]
      PROVE  Unseen(d)
  <2>1. Live(d) => active[d] \in Record
    BY LiveFacts
  <2>2. Live(d) => SameContent(active[d])
    BY <1>3 DEF SameContent
  <2> QED BY <1>t, <1>3, <1>4, <1>5, <2>1, <2>2, UnseenFrame
<1>6. CASE UNCHANGED <<top, returned>>
  BY <1>t, <1>5, <1>6, AllUnseen
<1>7. CASE ~UNCHANGED <<top, returned>>
  <2>1. /\ h.pc = "cas" /\ h.t = top[h.d] /\ top' = [top EXCEPT ![h.d] = @ + 1]
        /\ Deliver(h.d, h.x) /\ h.d \in Deque /\ Live(h.d) /\ Claimable(h.d)
    BY <1>7, ThiefEffect
  <2>2. PICK d \in Deque : d = h.d
    BY <2>1
  <2>3. ASSUME NEW e \in Deque \ {d}
        PROVE  Unseen(e)
    <3>1. top'[e] = top[e] /\ returned'[e] = returned[e]
      BY <1>t, <2>1, <2>2 DEF TypeOK, Deliver
    <3> QED BY <1>5, <3>1
  <2>4. h.x = ItemAt(d, top[d])
    BY <1>2, <2>1, <2>2 DEF ClaimSource
  <2>5. top'[d] = top[d] + 1
    BY <1>t, <2>1, <2>2 DEF TypeOK
  <2>6. Elsewhere(d)
    BY <2>3 DEF Elsewhere
  <2>7. Live(d) /\ Claimable(d) /\ Deliver(d, h.x)
    BY <2>1, <2>2
  <2> QED BY <1>t, <1>2, <1>3, <1>4, <2>4, <2>5, <2>6, <2>7, ClaimSeen
<1> QED BY <1>6, <1>7

\* Before anything is constructed no abstract deque is open.
LEMMA InitSeen == Init => Abstract!Init
<1> SUFFICES ASSUME Init PROVE Abstract!Init
  OBVIOUS
<1>1. \A d \in Deque : owner[d].pc = "none"
  BY DEF Init, IdleOwner
<1>2. \A d \in Deque : Live(d) = FALSE
  BY <1>1 DEF Live
<1>3. \A d \in Deque : Waiting(d) = <<>>
  BY <1>2 DEF Waiting
<1>4. \A d \in Deque : Held(d) = {}
  BY <1>1, HeldCases DEF HoldPC
<1>5. \A d \in Deque : Committed(d) = FALSE
  BY <1>4 DEF Committed
<1> QED BY <1>2, <1>3, <1>4, <1>5 DEF Abstract!Init, Init

\* Whatever a client can observe of the lock-free deques, it could observe of
\* plain sequences: every statement of every owner and thief is one atomic
\* push, reservation, commitment, pop or steal, a construction or a
\* destruction, or invisible; this includes all of growing, shrinking and
\* failing.
THEOREM DequeIsAbstract == Spec => ImplementsAbstract
<1>1. Init => Abstract!Init
  BY InitSeen
<1>2. StructureInv /\ ItemInv /\ [Next]_vars => [Abstract!Next]_(Abstract!vars)
  <2> SUFFICES ASSUME StructureInv, ItemInv, [Next]_vars
               PROVE  Abstract!Next \/ UNCHANGED Abstract!vars
    OBVIOUS
  <2>1. ASSUME NEW d \in Deque, OwnerStep(d)
        PROVE  Abstract!Next \/ UNCHANGED Abstract!vars
    BY <2>1, OwnerStepSeen
  <2>2. ASSUME NEW p \in Thief, ThiefStep(p)
        PROVE  Abstract!Next \/ UNCHANGED Abstract!vars
    BY <2>2, ThiefStepSeen
  <2>3. CASE UNCHANGED vars
    <3>1. TypeOK /\ TypeOK'
      BY <2>3, StutterInv DEF StructureInv
    <3>2. ASSUME NEW d \in Deque
          PROVE  Unseen(d)
      <4>1. UNCHANGED <<buf, top, bottom, active, owner, pushed, returned>>
        BY <2>3 DEF vars, poolVars, indexVars, history
      <4>2. Live(d) => active[d] \in Record
        BY LiveFacts
      <4>3. Live(d) => SameContent(active[d])
        BY <4>1 DEF SameContent
      <4> QED BY <3>1, <4>1, <4>2, <4>3, UnseenFrame
    <3> QED BY <3>1, <3>2, AllUnseen
  <2> QED BY <2>1, <2>2, <2>3 DEF Next
<1>3. QED
  BY <1>1, <1>2, ItemsForever, PTL DEF Spec, ImplementsAbstract, Abstract!Spec

-----------------------------------------------------------------------------
(* The history of a call.                                                  *)

\* The fields of a history.
LEMMA SawRecord ==
  ASSUME NEW e \in BOOLEAN, NEW m \in BOOLEAN, NEW n \in 0..2
  PROVE  [empty |-> e, moved |-> m, switches |-> n] \in SawType
BY DEF SawType, SwitchBound

\* What a call has seen only grows, and two switches of the array count.
LEMMA SeenGrows ==
  ASSUME NEW d, NEW s \in SawType, NEW after, after = Seen(d, s)
  PROVE  /\ after \in SawType
         /\ s.empty => after.empty
         /\ s.moved \/ top'[d] # top[d] => after.moved
         /\ s.switches >= 1 \/ active'[d] # active[d] => after.switches >= 1
         /\ s.switches >= 2 => after.switches >= 2
         /\ s.switches >= 1 /\ active'[d] # active[d] => after.switches >= 2
         /\ d \in EmptyDeques' => after.empty
<1> DEFINE e == d \in EmptyDeques'
           m == top'[d] # top[d]
           w == active'[d] # active[d]
<1>1. /\ s.empty \in BOOLEAN /\ s.moved \in BOOLEAN /\ s.switches \in 0..2
      /\ e \in BOOLEAN /\ m \in BOOLEAN /\ w \in BOOLEAN
  BY DEF SawType, SwitchBound
<1>2. after = [empty |-> s.empty \/ e, moved |-> s.moved \/ m,
               switches |-> IF w /\ s.switches < 2 THEN s.switches + 1 ELSE s.switches]
  BY DEF Seen, SwitchBound
<1> HIDE DEF e, m, w
<1>3. after.empty = (s.empty \/ e) /\ after.moved = (s.moved \/ m)
  BY <1>2
<1>4. after.switches = IF w /\ s.switches < 2 THEN s.switches + 1 ELSE s.switches
  BY <1>2
<1>5. after.switches \in 0..2
  BY <1>1, <1>4
<1>6. after \in SawType
  <2>1. (s.empty \/ e) \in BOOLEAN /\ (s.moved \/ m) \in BOOLEAN
    OBVIOUS
  <2>2. after = [empty |-> s.empty \/ e, moved |-> s.moved \/ m, switches |-> after.switches]
    BY <1>2, <1>4
  <2>3. [empty |-> s.empty \/ e, moved |-> s.moved \/ m, switches |-> after.switches] \in SawType
    BY <1>5, <2>1, SawRecord, Zenon
  <2> QED BY <2>2, <2>3, Zenon
<1>7. /\ s.switches >= 1 \/ w => after.switches >= 1
      /\ s.switches >= 2 => after.switches >= 2
      /\ s.switches >= 1 /\ w => after.switches >= 2
  BY <1>1, <1>4
<1>8. /\ s.empty \/ e => after.empty
      /\ s.moved \/ m => after.moved
  BY <1>3
<1> QED BY <1>6, <1>7, <1>8, Zenon DEF e, m, w

\* A call starts with an empty history.
LEMMA NothingSeenType == NothingSeen \in SawType
BY DEF NothingSeen, SawType, SwitchBound

\* A thief that was or comes to be in a call extends that call's history;
\* between its calls the history of the last one stays.
LEMMA ObserveCases ==
  ASSUME Observe, NEW p \in Thief
  PROVE  /\ thief[p].pc # "idle" => witnessed'[p] = Seen(thief[p].d, witnessed[p])
         /\ thief[p].pc = "idle" /\ thief'[p].pc # "idle" =>
              witnessed'[p] = Seen(thief'[p].d, NothingSeen)
         /\ thief[p].pc = "idle" /\ thief'[p].pc = "idle" => witnessed'[p] = witnessed[p]
BY DEF Observe

\* The records, numbers and the deque of a call in progress.
LEMMA CallFacts ==
  ASSUME StructureInv, NEW p \in Thief, thief[p].pc # "idle"
  PROVE  LET h == thief[p] IN
         /\ h \in ThiefType /\ h.d \in Deque /\ Live(h.d)
         /\ h.t \in Int /\ h.b \in Int /\ top[h.d] \in Int /\ bottom[h.d] \in Int
         /\ h.t <= top[h.d]
<1>1. thief[p] \in ThiefType
  BY DEF StructureInv, TypeOK
<1>2. thief[p].d \in Deque /\ Live(thief[p].d) /\ thief[p].t <= top[thief[p].d]
  BY DEF StructureInv, ThiefIndices
<1>3. thief[p].t \in Int /\ thief[p].b \in Int
  BY <1>1 DEF ThiefType
<1>4. top[thief[p].d] \in Int /\ bottom[thief[p].d] \in Int
  BY <1>2, IndexTypes DEF StructureInv
<1> QED BY <1>1, <1>2, <1>3, <1>4

-----------------------------------------------------------------------------
(* Steps of others during a call.                                          *)

\* What the snapshots of a call say of its history, they say after any step of
\* another thread: top_ does not come back to an older snapshot, and an array
\* comes back only through two switches.
LEMMA CallSawKept ==
  ASSUME StructureInv, StructureInv', Next, NEW p \in Thief, thief[p].pc # "idle",
         thief'[p] = thief[p], witnessed[p] \in SawType, witnessed'[p] = Seen(thief[p].d, witnessed[p]),
         CallSaw(thief[p], witnessed[p])
  PROVE  CallSaw(thief[p], witnessed[p])'
<1> DEFINE h == thief[p]
           d == h.d
           s == witnessed[p]
<1>1. d \in Deque /\ Live(d) /\ h.t \in Int /\ top[d] \in Int /\ h.t <= top[d]
  BY CallFacts
<1>2. top'[d] >= top[d] /\ top'[d] \in Int
  BY <1>1, TopForward, IndexTypes DEF StructureInv, TypeOK
<1>3. /\ s.empty => s'.empty
      /\ s.moved \/ top'[d] # top[d] => s'.moved
      /\ s.switches >= 1 \/ active'[d] # active[d] => s'.switches >= 1
      /\ s.switches >= 2 => s'.switches >= 2
      /\ s.switches >= 1 /\ active'[d] # active[d] => s'.switches >= 2
  BY SeenGrows
<1>4. h' = h
  OBVIOUS
<1>5. /\ h.t = top[d] \/ s.moved
      /\ h.pc # "old" => h.old = active[d] \/ s.switches >= 1
      /\ h.pc \in {"recheck", "slot", "cas"} => h.a = active[d] \/ s.switches >= 1
      /\ h.pc = "array" /\ LooksEmpty(h) => s.empty \/ s.switches >= 2
      /\ h.pc = "recheck" /\ SnapshotsAgree(h) => s.empty \/ s.switches >= 2
  BY DEF CallSaw
<1>6. h.t = top'[d] => h.t = top[d]
  BY <1>1, <1>2
<1>7. ASSUME h.pc = "array", LooksEmpty(h)'
      PROVE  s'.empty \/ s'.switches >= 2
  <2>1. CASE h.b <= h.t
    BY <1>3, <1>5, <1>7, <2>1 DEF LooksEmpty
  <2>2. CASE h.old = active'[d] /\ h.t = top'[d] /\ Ambiguous(h.b - h.t, h.old)
    <3>1. CASE h.old = active[d]
      BY <1>3, <1>5, <1>6, <1>7, <2>2, <3>1 DEF LooksEmpty
    <3>2. CASE h.old # active[d]
      BY <1>3, <1>5, <1>7, <2>2, <3>2
    <3> QED BY <3>1, <3>2
  <2> QED BY <1>4, <1>7, <2>1, <2>2 DEF LooksEmpty, Ambiguous
<1>8. ASSUME h.pc = "recheck", SnapshotsAgree(h)'
      PROVE  s'.empty \/ s'.switches >= 2
  BY <1>3, <1>4, <1>5, <1>6, <1>8 DEF SnapshotsAgree
<1>9. h.t = top'[d] \/ s'.moved
  BY <1>3, <1>5
<1>10. h.pc # "old" => h.old = active'[d] \/ s'.switches >= 1
  BY <1>3, <1>5
<1>11. h.pc \in {"recheck", "slot", "cas"} => h.a = active'[d] \/ s'.switches >= 1
  BY <1>3, <1>5
<1> QED BY <1>4, <1>7, <1>8, <1>9, <1>10, <1>11 DEF CallSaw

-----------------------------------------------------------------------------
(* The steps of the call itself.                                           *)

\* bottom_ is not past top_, or by a multiple of the capacity, only while the
\* deque is empty: the live range is shorter than the array, and a shrink that
\* has put bottom_ ahead has put it ahead by one capacity.
LEMMA LooksEmptyIsEmpty ==
  ASSUME StructureInv, NEW d \in Deque, Live(d),
         bottom[d] <= top[d] \/ Ambiguous(bottom[d] - top[d], active[d])
  PROVE  Window(d) = {}
<1> DEFINE c == Capacity[active[d]]
           n == bottom[d] - top[d]
<1>1. /\ c \in Nat \ {0} /\ top[d] \in Int /\ bottom[d] \in Int
      /\ LogicalBottom(d) \in Int /\ owner[d].b \in Int
  BY LiveFacts
<1>2. LogicalBottom(d) - top[d] < c
  BY DEF StructureInv, OwnerIndices
<1>3. CASE ~Shifted(d)
  <2>1. bottom[d] - top[d] < c
    BY <1>2, <1>3 DEF LogicalBottom
  <2>2. bottom[d] <= top[d]
    <3> SUFFICES ASSUME n > 0, n % c = 0  PROVE FALSE
      BY <1>1 DEF Ambiguous
    <3>1. n % c = c % c
      BY <1>1, ModSelf
    <3>2. n \in Int /\ n - c < c /\ c - n < c
      BY <1>1, <2>1
    <3>3. n = c
      BY <1>1, <3>1, <3>2, ModApart
    <3> QED BY <1>1, <2>1, <3>3
  <2> QED BY <1>1, <1>3, <2>2 DEF Window, LogicalBottom
<1>4. CASE Shifted(d)
  <2>1. bottom[d] = owner[d].b + c /\ top[d] <= owner[d].b /\ LogicalBottom(d) = owner[d].b
    BY <1>4 DEF Shifted, LogicalBottom, StructureInv, OwnerIndices, ShrinkPC
  <2>2. n % c = 0 /\ n \in Int /\ n >= c /\ n < 2 * c
    BY <1>1, <1>2, <2>1 DEF Ambiguous
  <2>3. n % c = c % c
    BY <1>1, <2>2, ModSelf
  <2>4. n - c < c /\ c - n < c
    BY <1>1, <2>2
  <2>5. n = c
    BY <1>1, <2>2, <2>3, <2>4, ModApart
  <2>6. owner[d].b = top[d]
    BY <1>1, <2>1, <2>5
  <2> QED BY <1>1, <2>1, <2>6 DEF Window
<1> QED BY <1>3, <1>4

\* A step that leaves the deques alone finds an empty deque empty afterwards.
LEMMA EmptyStays ==
  ASSUME NEW d \in Deque, Window(d) = {}, UNCHANGED <<top, bottom, owner>>
  PROVE  d \in EmptyDeques'
BY DEF EmptyDeques, Window, LogicalBottom, Shifted

\* The first step of a call: the snapshot of top_ is fresh.
LEMMA CallStarts ==
  ASSUME StructureInv, NEW p \in Thief, NEW d \in Deque, StealReadTop(p, d),
         witnessed'[p] = Seen(thief'[p].d, NothingSeen)
  PROVE  CallSaw(thief[p], witnessed[p])'
<1>1. /\ thief'[p].pc = "old" /\ thief'[p].d = d /\ thief'[p].t = top[d]
      /\ UNCHANGED <<top, active>>
  BY CallLocals DEF StealReadTop, StructureInv, indexVars
<1> QED BY <1>1 DEF CallSaw

\* Each further step of a call adds one snapshot; what it adds to CallSaw is
\* fresh, except that the reading of bottom_ may find the deque empty.
LEMMA CallGoesOn ==
  ASSUME StructureInv, NEW p \in Thief, thief[p].pc # "idle", thief'[p].pc # "idle",
         StealReadOld(p) \/ StealReadBottom(p) \/ StealReadArray(p) \/ StealReadSlot(p),
         witnessed[p] \in SawType, witnessed'[p] = Seen(thief[p].d, witnessed[p]), CallSaw(thief[p], witnessed[p])
  PROVE  CallSaw(thief[p], witnessed[p])'
<1> DEFINE h == thief[p]
           d == h.d
           s == witnessed[p]
<1>t. TypeOK
  BY DEF StructureInv
<1>1. h \in ThiefType /\ d \in Deque /\ Live(d) /\ h.t \in Int /\ top[d] \in Int /\ h.t <= top[d]
      /\ bottom[d] \in Int
  BY CallFacts
<1>2. UNCHANGED <<top, bottom, active, owner>>
  BY DEF StealReadOld, StealReadBottom, StealReadArray, StealReadSlot, indexVars
<1>3. /\ s.empty => s'.empty
      /\ s.moved => s'.moved
      /\ s.switches >= 1 => s'.switches >= 1
      /\ s.switches >= 2 => s'.switches >= 2
      /\ d \in EmptyDeques' => s'.empty
  BY SeenGrows
<1>5. /\ h.t = top[d] \/ s.moved
      /\ h.pc # "old" => h.old = active[d] \/ s.switches >= 1
      /\ h.pc \in {"recheck", "slot", "cas"} => h.a = active[d] \/ s.switches >= 1
      /\ h.pc = "array" /\ LooksEmpty(h) => s.empty \/ s.switches >= 2
  BY DEF CallSaw
<1>6. CASE StealReadOld(p)
  <2>1. h'.pc = "bottom" /\ h'.d = d /\ h'.t = h.t /\ h'.old = active[d]
    BY <1>t, <1>6, CallLocals
  <2> QED BY <1>2, <1>3, <1>5, <2>1 DEF CallSaw
<1>7. CASE StealReadBottom(p)
  <2>1. h.pc = "bottom" /\ h'.pc = "array" /\ h'.d = d /\ h'.t = h.t /\ h'.old = h.old /\ h'.b = bottom[d]
    BY <1>t, <1>7, CallLocals
  <2>2. ASSUME LooksEmpty(h)'
        PROVE  s'.empty
    <3>1. bottom[d] <= top[d] \/ Ambiguous(bottom[d] - top[d], active[d])
      BY <1>1, <1>2, <2>1, <2>2 DEF LooksEmpty, Ambiguous
    <3>2. d \in EmptyDeques'
      BY <1>1, <1>2, <3>1, LooksEmptyIsEmpty, EmptyStays
    <3> QED BY <1>3, <3>2
  <2> QED BY <1>2, <1>3, <1>5, <2>1, <2>2 DEF CallSaw
<1>8. CASE StealReadArray(p)
  <2>1. h.pc = "array" /\ h'.pc \in {"recheck", "slot"} /\ h'.d = d /\ h'.t = h.t /\ h'.old = h.old
        /\ h'.a = active[d]
        /\ (h'.pc = "recheck" => Ambiguous(h.b - h.t, active[d]))
    BY <1>t, <1>8, CallLocals
  <2>2. ASSUME h'.pc = "recheck", SnapshotsAgree(h)'
        PROVE  s'.empty \/ s'.switches >= 2
    <3>1. h.old = active[d] /\ h.t = top[d] /\ Ambiguous(h.b - h.t, h.old)
      BY <1>2, <2>1, <2>2 DEF SnapshotsAgree
    <3> QED BY <1>3, <1>5, <2>1, <3>1 DEF LooksEmpty
  <2> QED BY <1>2, <1>3, <1>5, <2>1, <2>2 DEF CallSaw
<1>9. CASE StealReadSlot(p)
  <2>1. h.pc = "slot" /\ h'.pc = "cas" /\ h'.d = d /\ h'.t = h.t /\ h'.old = h.old /\ h'.a = h.a
    BY <1>t, <1>9, CallLocals
  <2> QED BY <1>2, <1>3, <1>5, <2>1 DEF CallSaw
<1> QED BY <1>6, <1>7, <1>8, <1>9

\* A call returns EMPTY or ABORT only if its history bears the result out.
LEMMA CallReturns ==
  ASSUME StructureInv, NEW p \in Thief, ThiefStep(p), thief[p].pc # "idle", thief'[p].pc = "idle",
         witnessed[p] \in SawType, witnessed'[p] = Seen(thief[p].d, witnessed[p]), CallSaw(thief[p], witnessed[p])
  PROVE  /\ thief'[p].res = "EMPTY" => witnessed'[p].empty \/ witnessed'[p].switches >= 2
         /\ thief'[p].res = "ABORT" => witnessed'[p].moved \/ witnessed'[p].switches >= 1
<1> DEFINE h == thief[p]
           d == h.d
           s == witnessed[p]
<1>t. TypeOK
  BY DEF StructureInv
<1>1. /\ h.t = top[d] \/ s.moved
      /\ h.pc # "old" => h.old = active[d] \/ s.switches >= 1
      /\ h.pc = "recheck" => h.a = active[d] \/ s.switches >= 1
      /\ h.pc = "array" /\ LooksEmpty(h) => s.empty \/ s.switches >= 2
      /\ h.pc = "recheck" /\ SnapshotsAgree(h) => s.empty \/ s.switches >= 2
  BY DEF CallSaw
<1>2. /\ s.empty => s'.empty
      /\ s.moved => s'.moved
      /\ s.switches >= 1 => s'.switches >= 1
      /\ s.switches >= 2 => s'.switches >= 2
  BY SeenGrows
<1>3. h \in ThiefType
  BY <1>t DEF TypeOK
<1>4. CASE h.pc = "array" /\ h.b - h.t <= 0 /\ thief'[p].res = "EMPTY"
  <2>1. LooksEmpty(h)
    BY <1>3, <1>4 DEF LooksEmpty, ThiefType
  <2> QED BY <1>1, <1>2, <1>4, <2>1
<1>5. CASE h.pc = "recheck" /\ SnapshotsAgree(h) /\ thief'[p].res = "EMPTY"
  BY <1>1, <1>2, <1>5
<1>6. CASE h.pc = "recheck" /\ ~SnapshotsAgree(h) /\ thief'[p].res = "ABORT"
  <2>1. s.moved \/ s.switches >= 1
    BY <1>1, <1>6 DEF SnapshotsAgree
  <2> QED BY <1>2, <1>6, <2>1
<1>7. CASE h.pc = "cas" /\ h.t # top[h.d] /\ thief'[p].res = "ABORT"
  BY <1>1, <1>2, <1>7
<1> QED BY <1>t, <1>4, <1>5, <1>6, <1>7, CallResults

-----------------------------------------------------------------------------
(* The theorems.                                                           *)

\* Before its first call a thief has seen and returned nothing.
LEMMA InitOutcome == OutcomeInit => OutcomeInv
BY NothingSeenType DEF OutcomeInit, Init, IdleThief, OutcomeInv, EmptyIsGenuineUnlessSwitchedBack,
   AbortMeansProgress, Returned

\* One thread's step leaves every thief's history as its call, or its last
\* result, requires.
LEMMA OutcomeStep ==
  ASSUME StructureInv, StructureInv', OutcomeInv, OutcomeNext, NEW p \in Thief
  PROVE  /\ witnessed'[p] \in SawType
         /\ thief'[p].pc # "idle" => CallSaw(thief[p], witnessed[p])'
         /\ (Returned(p, "EMPTY") => witnessed[p].empty \/ witnessed[p].switches >= 2)'
         /\ (Returned(p, "ABORT") => witnessed[p].moved \/ witnessed[p].switches >= 1)'
<1>t. TypeOK /\ Next /\ Observe
  BY DEF StructureInv, OutcomeNext
<1>1. /\ witnessed[p] \in SawType
      /\ thief[p].pc # "idle" => CallSaw(thief[p], witnessed[p])
      /\ Returned(p, "EMPTY") => witnessed[p].empty \/ witnessed[p].switches >= 2
      /\ Returned(p, "ABORT") => witnessed[p].moved \/ witnessed[p].switches >= 1
  BY DEF OutcomeInv, EmptyIsGenuineUnlessSwitchedBack, AbortMeansProgress
<1>2. CASE ~ThiefStep(p)
  <2>1. thief'[p] = thief[p]
    <3>1. \/ \E d \in Deque : OwnerStep(d)
          \/ \E q \in Thief \ {p} : ThiefStep(q)
      BY <1>t, <1>2 DEF Next
    <3> QED BY <1>t, <3>1, OwnerStepFrame, ThiefStepFrame
  <2>2. CASE thief[p].pc = "idle"
    <3>1. witnessed'[p] = witnessed[p]
      BY <1>t, <2>1, <2>2, ObserveCases
    <3> QED BY <1>1, <2>1, <2>2, <3>1 DEF Returned
  <2>3. CASE thief[p].pc # "idle"
    <3>1. witnessed'[p] = Seen(thief[p].d, witnessed[p])
      BY <1>t, <2>3, ObserveCases
    <3>2. witnessed'[p] \in SawType
      BY <1>1, <3>1, SeenGrows
    <3>3. CallSaw(thief[p], witnessed[p])'
      BY <1>t, <1>1, <2>1, <2>3, <3>1, CallSawKept
    <3> QED BY <2>1, <2>3, <3>2, <3>3 DEF Returned
  <2> QED BY <2>2, <2>3
<1>3. CASE ThiefStep(p) /\ thief[p].pc = "idle"
  <2>1. PICK d \in Deque : StealReadTop(p, d)
    BY <1>3 DEF ThiefStep, StealReadOld, StealReadBottom, StealReadArray, StealRecheck, StealReadSlot,
       StealCas, ThiefAt
  <2>2. thief'[p].pc # "idle"
    BY <1>t, <2>1, CallLocals
  <2>3. witnessed'[p] = Seen(thief'[p].d, NothingSeen)
    BY <1>t, <1>3, <2>2, ObserveCases
  <2>4. witnessed'[p] \in SawType
    BY <2>3, NothingSeenType, SeenGrows
  <2>5. CallSaw(thief[p], witnessed[p])'
    BY <2>1, <2>3, CallStarts
  <2> QED BY <2>2, <2>4, <2>5 DEF Returned
<1>4. CASE ThiefStep(p) /\ thief[p].pc # "idle"
  <2>1. witnessed'[p] = Seen(thief[p].d, witnessed[p])
    BY <1>t, <1>4, ObserveCases
  <2>2. witnessed'[p] \in SawType
    BY <1>1, <2>1, SeenGrows
  <2>3. CASE thief'[p].pc = "idle"
    <3>1. /\ thief'[p].res = "EMPTY" => witnessed'[p].empty \/ witnessed'[p].switches >= 2
          /\ thief'[p].res = "ABORT" => witnessed'[p].moved \/ witnessed'[p].switches >= 1
      BY <1>1, <1>4, <2>1, <2>3, CallReturns
    <3> QED BY <2>2, <2>3, <3>1 DEF Returned
  <2>4. CASE thief'[p].pc # "idle"
    <3>1. \A result : ~StealReturns(p, result)
      BY <1>t, <2>4, ThiefGoesFacts DEF StealReturns, IdleThief
    <3>2. StealReadOld(p) \/ StealReadBottom(p) \/ StealReadArray(p) \/ StealReadSlot(p)
      BY <1>4, <3>1 DEF ThiefStep, StealReadTop, StealRecheck, StealCas, ThiefAt
    <3>3. CallSaw(thief[p], witnessed[p])'
      BY <1>1, <1>4, <2>1, <2>4, <3>2, CallGoesOn
    <3> QED BY <2>2, <2>4, <3>3 DEF Returned
  <2> QED BY <2>3, <2>4
<1> QED BY <1>2, <1>3, <1>4

\* Observing changes nothing in what the deques do.
LEMMA OutcomeIsSpec == OutcomeSpec => Spec
<1>1. OutcomeInit => Init
  BY DEF OutcomeInit
<1>2. [OutcomeNext]_<<vars, witnessed>> => [Next]_vars
  BY DEF OutcomeNext
<1> QED BY <1>1, <1>2, PTL DEF OutcomeSpec, Spec

\* In every interleaving the history of each call is what the snapshots it has
\* taken so far prove about the deque it steals from.
THEOREM OutcomesKept == OutcomeSpec => []OutcomeInv
<1>1. StructureInv /\ StructureInv' /\ OutcomeInv /\ [OutcomeNext]_<<vars, witnessed>> => OutcomeInv'
  <2> SUFFICES ASSUME StructureInv, StructureInv', OutcomeInv, [OutcomeNext]_<<vars, witnessed>>
               PROVE  OutcomeInv'
    OBVIOUS
  <2>1. CASE OutcomeNext
    <3>1. witnessed' \in [Thief -> SawType]
      <4>1. DOMAIN witnessed' = Thief /\ witnessed' = [p \in Thief |-> witnessed'[p]]
        BY <2>1 DEF OutcomeNext, Observe
      <4>2. \A p \in Thief : witnessed'[p] \in SawType
        BY <2>1, OutcomeStep
      <4> QED BY <4>1, <4>2
    <3>2. \A p \in Thief :
            /\ thief'[p].pc # "idle" => CallSaw(thief[p], witnessed[p])'
            /\ (Returned(p, "EMPTY") => witnessed[p].empty \/ witnessed[p].switches >= 2)'
            /\ (Returned(p, "ABORT") => witnessed[p].moved \/ witnessed[p].switches >= 1)'
      BY <2>1, OutcomeStep
    <3> QED BY <3>1, <3>2 DEF OutcomeInv, EmptyIsGenuineUnlessSwitchedBack, AbortMeansProgress
  <2>2. CASE UNCHANGED <<vars, witnessed>>
    <3>1. UNCHANGED <<thief, top, active, witnessed>>
      BY <2>2 DEF vars, indexVars
    <3> QED BY <3>1 DEF OutcomeInv, CallSaw, LooksEmpty, SnapshotsAgree, Ambiguous, Returned,
       EmptyIsGenuineUnlessSwitchedBack, AbortMeansProgress
  <2> QED BY <2>1, <2>2
<1> QED BY InitOutcome, <1>1, OutcomeIsSpec, StructureKept, PTL DEF OutcomeSpec

\* steal() reports EMPTY only if no item waited at some moment of the call,
\* unless the owner grew the deque and shrank it back meanwhile: neither the
\* early store of a shrunk bottom_ nor stale snapshots can feign it alone.
THEOREM EmptyTells == OutcomeSpec => []EmptyIsGenuineUnlessSwitchedBack
<1>1. OutcomeInv => EmptyIsGenuineUnlessSwitchedBack
  BY DEF OutcomeInv
<1> QED BY OutcomesKept, <1>1, PTL

\* steal() reports ABORT only if another thread took an item or switched the
\* array during the call: a thread that has stopped turns no steal away.
THEOREM AbortTells == OutcomeSpec => []AbortMeansProgress
<1>1. OutcomeInv => AbortMeansProgress
  BY DEF OutcomeInv
<1> QED BY OutcomesKept, <1>1, PTL

-----------------------------------------------------------------------------
(* The calls of pop_bottom(), for the programs that use the deques.        *)

PopPC == {"popTop", "popRestore", "popCas", "popWon", "popLost", "shrinkRelease"} \cup ShrinkPC

\* A step of a pop.
LEMMA PopCallStep ==
  ASSUME TypeOK, NEW d \in Deque, PopStep(d) \/ ShrinkStep(d)
  PROVE  /\ OwnerStep(d)
         /\ owner[d].pc \in {"idle"} \cup PopPC /\ owner'[d].pc \in {"idle"} \cup PopPC
         /\ owner[d].pc = "idle" <=> Pop(d)
         /\ UNCHANGED <<pushed, base, thief>>
<1>1. CASE PopStep(d)
  <2>1. owner[d].pc \in {"idle"} \cup PopPC /\ owner'[d].pc \in {"idle"} \cup PopPC
    BY <1>1, PopEffect, PopReadTopEffect, PopRestoreEffect, PopCasEffect, PopSettleEffect
       DEF PopStep, PopPC, ShrinkPC, CopyPC
  <2>2. owner[d].pc = "idle" <=> Pop(d)
    BY <1>1 DEF PopStep, Pop, PopReadTop, PopRestore, PopCas, PopSettle, OwnerAt
  <2>3. UNCHANGED <<pushed, base, thief>>
    BY <1>1 DEF PopStep, Pop, PopReadTop, PopRestore, PopCas, PopSettle, history
  <2> QED BY <1>1, <2>1, <2>2, <2>3 DEF OwnerStep
<1>2. CASE ShrinkStep(d)
  <2>1. owner[d].pc \in PopPC /\ owner'[d].pc \in {"idle"} \cup PopPC
    BY <1>2, ShrinkWalkEffect, ShrinkStartEffect, ShrinkCopyEffect, ShrinkPublishEffect,
       ShrinkShiftEffect, ShrinkReadTopEffect, ShrinkCasEffect, ShrinkRestoreEffect,
       ShrinkReleaseEffect DEF ShrinkStep, PopPC, ShrinkPC, CopyPC
  <2>2. owner[d].pc # "idle"
    BY <2>1 DEF PopPC, ShrinkPC, CopyPC
  <2>3. UNCHANGED <<pushed, base, thief>>
    BY <1>2 DEF ShrinkStep, ShrinkWalk, ShrinkStart, ShrinkCopy, ShrinkPublish, ShrinkShift,
       ShrinkReadTop, ShrinkCas, ShrinkRestore, ShrinkRelease, history
  <2> QED BY <1>2, <2>1, <2>2, <2>3 DEF OwnerStep, Pop, OwnerAt
<1> QED BY <1>1, <1>2
=============================================================================
