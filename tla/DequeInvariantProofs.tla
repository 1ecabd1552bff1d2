------------------------- MODULE DequeInvariantProofs -------------------------
(***************************************************************************)
(* StructureInv and ItemInv of DequeInvariants are inductive, for any      *)
(* number of deques and thieves, any pool and any shrink factor of at      *)
(* least three.  The proofs are in three parts: the types, the chains of   *)
(* buffers and the indices; the holders of the records and what a step     *)
(* does to the content of the arrays; the items.                           *)
(***************************************************************************)
EXTENDS DequeInvariants, TLAPS

(***************************************************************************)
(* First part: types, chains of buffers and indices.  Every step keeps the *)
(* types: what a thread loads or follows is typed because its pointers are *)
(* records at that point.  Every record is claimed, linked, passed on and  *)
(* released by one owner at a time; the owner's steps keep the indices in  *)
(* range, and keep what the thieves concluded from their snapshots true    *)
(* for as long as top_ has not moved.                                      *)
(***************************************************************************)

(* Records, their capacities and their slots.                              *)

\* Records are positive numbers, so that nullptr is none of them.
LEMMA RecordFacts ==
  /\ Record \subseteq Nat \ {0}
  /\ NoRecord \notin Record
  /\ \A r \in Record : Capacity[r] \in Nat \ {0}
BY CapacityAssumption DEF Record, NoRecord

\* Masking an index yields a slot of the array.
LEMMA IndexInRange ==
  ASSUME NEW r \in Record, NEW i \in Int
  PROVE  Index(r, i) \in 0..Capacity[r] - 1
<1>1. Capacity[r] \in Nat \ {0}
  BY RecordFacts
<1> QED BY <1>1 DEF Index

\* A load returns what a slot can hold, whoever owns the array by now.
LEMMA LoadType ==
  ASSUME BufferTypeOK, NEW r \in Record, NEW i \in Int
  PROVE  Load(r, i) \in Value
BY IndexInRange DEF BufferTypeOK, Buffer, Load

\* The lower of two low-water marks is a low-water mark.
LEMMA MinMarkType ==
  ASSUME NEW m \in Nat \cup {NoMark}, NEW n \in Nat \cup {NoMark}
  PROVE  MinMark(m, n) \in Nat \cup {NoMark}
BY DEF MinMark, NoMark

(* Every operation on a buffer keeps the type of the buffers.              *)

LEMMA SlotStored ==
  ASSUME NEW r \in Record, NEW i \in Int, NEW v \in Value, NEW b \in Buffer(Capacity[r])
  PROVE  [b EXCEPT !.slots[Index(r, i)] = v] \in Buffer(Capacity[r])
<1>1. Index(r, i) \in 0..Capacity[r] - 1
  BY IndexInRange
<1>2. [b.slots EXCEPT ![Index(r, i)] = v] \in [0..Capacity[r] - 1 -> Value]
  BY <1>1 DEF Buffer
<1> QED BY <1>2 DEF Buffer

\* A store that leaves the low-water mark alone, as the copy loops make it,
LEMMA StoreNoMarkType ==
  ASSUME BufferTypeOK, NEW r \in Record, NEW i \in Int, NEW v \in Value, StoreNoMark(r, i, v)
  PROVE  BufferTypeOK'
<1>1. DOMAIN buf' = Record
  BY DEF BufferTypeOK, StoreNoMark
<1>2. ASSUME NEW s \in Record \ {r}
      PROVE  buf'[s] \in Buffer(Capacity[s])
  BY DEF BufferTypeOK, StoreNoMark
<1>3. buf'[r] = [buf[r] EXCEPT !.slots[Index(r, i)] = v]
  BY DEF BufferTypeOK, StoreNoMark
<1>4. buf'[r] \in Buffer(Capacity[r])
  BY <1>3, SlotStored DEF BufferTypeOK
<1> QED BY <1>1, <1>2, <1>4 DEF BufferTypeOK

\* a store by a push, which lowers it,
LEMMA StoreType ==
  ASSUME BufferTypeOK, NEW r \in Record, NEW i \in Nat, NEW v \in Value, Store(r, i, v)
  PROVE  BufferTypeOK'
<1>1. [buf[r] EXCEPT !.slots[Index(r, i)] = v] \in Buffer(Capacity[r])
  BY SlotStored DEF BufferTypeOK
<1>2. MinMark(buf[r].low, i) \in Nat \cup {NoMark}
  BY MinMarkType DEF BufferTypeOK, Buffer
<1>3. DOMAIN buf' = Record
  BY DEF BufferTypeOK, Store
<1>4. ASSUME NEW s \in Record \ {r}
      PROVE  buf'[s] \in Buffer(Capacity[s])
  BY DEF BufferTypeOK, Store
<1>5. buf'[r] = [[buf[r] EXCEPT !.slots[Index(r, i)] = v] EXCEPT !.low = MinMark(buf[r].low, i)]
  BY DEF BufferTypeOK, Store, Buffer
<1>6. buf'[r] \in Buffer(Capacity[r])
  BY <1>1, <1>2, <1>5 DEF Buffer
<1> QED BY <1>3, <1>4, <1>6 DEF BufferTypeOK

\* the reset of a claimed record with its link to the chain,
LEMMA ResetAndLinkType ==
  ASSUME BufferTypeOK, NEW r \in Record, NEW q \in Record \cup {NoRecord}, ResetAndLink(r, q)
  PROVE  BufferTypeOK'
<1>1. DOMAIN buf' = Record
  BY DEF BufferTypeOK, ResetAndLink
<1>2. ASSUME NEW s \in Record \ {r}
      PROVE  buf'[s] \in Buffer(Capacity[s])
  BY DEF BufferTypeOK, ResetAndLink
<1>3. buf'[r] = [buf[r] EXCEPT !.low = NoMark, !.prev = q]
  BY DEF BufferTypeOK, ResetAndLink
<1>4. buf'[r] \in Buffer(Capacity[r])
  BY <1>3 DEF BufferTypeOK, Buffer
<1> QED BY <1>1, <1>2, <1>4 DEF BufferTypeOK

\* the mark that a shrink stores in its target,
LEMMA LowerMarkType ==
  ASSUME BufferTypeOK, NEW r \in Record, NEW m \in Nat \cup {NoMark}, LowerMark(r, m)
  PROVE  BufferTypeOK'
<1>1. MinMark(buf[r].low, m) \in Nat \cup {NoMark}
  BY MinMarkType DEF BufferTypeOK, Buffer
<1> QED BY <1>1 DEF BufferTypeOK, Buffer, LowerMark

\* a claim from the pool,
LEMMA ClaimType ==
  ASSUME PoolTypeOK, NEW r \in Record, NEW q \in Record \cup {NoRecord}, Claim(r, q)
  PROVE  PoolTypeOK'
BY ResetAndLinkType DEF PoolTypeOK, Claim, Available, Owned

\* and a return to it.
LEMMA ReleaseType ==
  ASSUME PoolTypeOK, NEW r, Release(r)
  PROVE  PoolTypeOK'
<1>1. DOMAIN buf' = Record
  BY DEF PoolTypeOK, BufferTypeOK, Release
<1>2. ASSUME NEW s \in Record
      PROVE  buf'[s] \in Buffer(Capacity[s])
  BY DEF PoolTypeOK, BufferTypeOK, Buffer, Release
<1>3. state' \in [Record -> {Available, Owned}]
  BY DEF PoolTypeOK, Release, Available, Owned
<1> QED BY <1>1, <1>2, <1>3 DEF PoolTypeOK, BufferTypeOK
-----------------------------------------------------------------------------
(* Assignments to the locals of one thread.                                *)

LEMMA OwnerGoesFacts ==
  ASSUME TypeOK, NEW d \in Deque, NEW l, OwnerGoes(d, l)
  PROVE  /\ owner'[d] = l
         /\ \A e \in Deque \ {d} : owner'[e] = owner[e]
         /\ l \in OwnerType => owner' \in [Deque -> OwnerType]
BY DEF TypeOK, OwnerGoes

\* A thief's step assigns the locals of one thief.
LEMMA ThiefGoesFacts ==
  ASSUME TypeOK, NEW p \in Thief, NEW l, ThiefGoes(p, l)
  PROVE  /\ thief'[p] = l
         /\ \A q \in Thief \ {p} : thief'[q] = thief[q]
         /\ l \in ThiefType => thief' \in [Thief -> ThiefType]
BY DEF TypeOK, ThiefGoes

\* The locals of a thread that is in no call are typed.
LEMMA IdleTypes ==
  /\ IdleOwner \in OwnerType
  /\ IdleThief \in ThiefType
BY ZeroAssumption DEF IdleOwner, IdleThief, OwnerType, ThiefType, OwnerPC, NoMark

\* Counting a returned item keeps the type of the history.
LEMMA DeliverType ==
  ASSUME TypeOK, NEW d \in Deque, NEW v \in Value, Deliver(d, v)
  PROVE  returned' \in [Deque -> [Value -> Nat]]
BY DEF TypeOK, Deliver

\* A scan of a size class is a scan of records.
LEMMA ClassType == \A c : SizeClass(c) \subseteq Record
BY DEF SizeClass

\* The item of a push that the bound allows is an item.
LEMMA NextItemType ==
  ASSUME TypeOK, NEW d \in Deque, pushed[d] < MaxItems[d]
  PROVE  <<d, pushed[d] + 1>> \in Value
<1>1. pushed[d] + 1 \in 1..MaxItems[d]
  BY DequeAssumption DEF TypeOK
<1>2. <<d, pushed[d] + 1>> \in {d} \X (1..MaxItems[d])
  BY <1>1
<1> QED BY <1>2, ValueAssumption DEF Item
-----------------------------------------------------------------------------
(* Every step keeps the types.                                             *)

LEMMA LifeStepType ==
  ASSUME StructureInv, NEW d \in Deque, LifeStep(d)
  PROVE  TypeOK'
<1>t. TypeOK
  BY DEF StructureInv
<1>p. OwnerPointers(d)
  BY DEF StructureInv
<1>0. owner[d] \in OwnerType
  BY <1>t DEF TypeOK
<1>1. CASE Construct(d)
  <2>1. [IdleOwner EXCEPT !.pc = "construct", !.left = SizeClass(InitCapacity[d])] \in OwnerType
    BY IdleTypes, ClassType DEF OwnerType, OwnerPC
  <2> QED BY <1>t, <1>1, <2>1, OwnerGoesFacts
       DEF Construct, TypeOK, poolVars, indexVars, history, PoolTypeOK, BufferTypeOK
<1>2. CASE ConstructClaim(d)
  <2>1. PICK r \in owner[d].left : Claim(r, NoRecord) /\ active' = [active EXCEPT ![d] = r]
    BY <1>2 DEF ConstructClaim
  <2>2. r \in Record
    BY <1>0, <2>1 DEF OwnerType
  <2>3. PoolTypeOK'
    BY <1>t, <2>1, <2>2, ClaimType DEF TypeOK
  <2>4. owner' \in [Deque -> OwnerType]
    BY <1>t, <1>2, OwnerGoesFacts, IdleTypes DEF ConstructClaim, OwnerReturns
  <2>5. active' \in [Deque -> Record \cup {NoRecord}]
    BY <1>t, <2>1, <2>2 DEF TypeOK
  <2>6. /\ top' \in [Deque -> Int]
        /\ bottom' \in [Deque -> Int]
        /\ cachedTop' \in [Deque -> Int]
    BY <1>t, <1>2 DEF ConstructClaim, TypeOK
  <2>7. base' \in [Deque -> Nat]
    BY <1>t, <1>2 DEF ConstructClaim, TypeOK
  <2> QED BY <1>t, <1>2, <2>3, <2>4, <2>5, <2>6, <2>7 DEF ConstructClaim, TypeOK
<1>3. CASE ConstructScan(d)
  <2>1. PICK r : ClaimFails(r) /\ OwnerGoes(d, [owner[d] EXCEPT !.left = @ \ {r}])
    BY <1>3 DEF ConstructScan
  <2>2. [owner[d] EXCEPT !.left = @ \ {r}] \in OwnerType
    BY <1>0 DEF OwnerType
  <2>3. owner' \in [Deque -> OwnerType]
    BY <1>t, <2>1, <2>2, OwnerGoesFacts
  <2> QED BY <1>t, <1>3, <2>1, <2>3
       DEF ConstructScan, ClaimFails, TypeOK, poolVars, indexVars, history, PoolTypeOK, BufferTypeOK
<1>4. CASE ConstructFails(d)
  <2>1. [IdleOwner EXCEPT !.pc = "none"] \in OwnerType
    BY IdleTypes DEF OwnerType, OwnerPC
  <2> QED BY <1>t, <1>4, <2>1, OwnerGoesFacts
       DEF ConstructFails, TypeOK, poolVars, indexVars, history, PoolTypeOK, BufferTypeOK
<1>5. CASE Destroy(d)
  <2>1. [IdleOwner EXCEPT !.pc = "destroy", !.dst = active[d]] \in OwnerType
    BY <1>t, IdleTypes DEF OwnerType, OwnerPC, TypeOK
  <2> QED BY <1>t, <1>5, <2>1, OwnerGoesFacts
       DEF Destroy, TypeOK, poolVars, indexVars, history, PoolTypeOK, BufferTypeOK
<1>6. CASE DestroyRelease(d)
  <2> DEFINE r == owner[d].dst
  <2>1. PoolTypeOK'
    BY <1>t, <1>6, ReleaseType DEF DestroyRelease, TypeOK
  <2>2. r \in Record
    BY <1>p, <1>6 DEF OwnerPointers, DestroyRelease, OwnerAt
  <2>3. buf[r].prev \in Record \cup {NoRecord}
    BY <1>t, <2>2 DEF TypeOK, PoolTypeOK, BufferTypeOK, Buffer
  <2>4. /\ [IdleOwner EXCEPT !.pc = "none"] \in OwnerType
        /\ [owner[d] EXCEPT !.dst = buf[r].prev] \in OwnerType
    BY <1>0, <2>3, IdleTypes DEF OwnerType, OwnerPC
  <2>5. owner' \in [Deque -> OwnerType]
    BY <1>t, <1>6, <2>4, OwnerGoesFacts DEF DestroyRelease
  <2> QED BY <1>t, <1>6, <2>1, <2>5 DEF DestroyRelease, TypeOK, history
<1> QED BY <1>1, <1>2, <1>3, <1>4, <1>5, <1>6 DEF LifeStep

\* The type of the pool is the type of what poolVars names.
LEMMA PoolUnchanged ==
  ASSUME PoolTypeOK, UNCHANGED poolVars
  PROVE  PoolTypeOK'
BY DEF PoolTypeOK, BufferTypeOK, poolVars

\* try_push_bottom() keeps the types,
LEMMA PushStepType ==
  ASSUME StructureInv, NEW d \in Deque, PushStep(d)
  PROVE  TypeOK'
<1> DEFINE o == owner[d]
<1>t. TypeOK
  BY DEF StructureInv
<1>p. OwnerPointers(d) /\ OwnerIndices(d)
  BY DEF StructureInv
<1>0. o \in OwnerType
  BY <1>t DEF TypeOK
<1>a. o.pc \in PushPC => o.a \in Record
  BY <1>p DEF OwnerPointers, PushPC
<1>1. CASE TryPush(d)
  <2>1. <<d, pushed[d] + 1>> \in Value
    BY <1>t, <1>1, NextItemType DEF TryPush
  <2>2. \A pc \in {"pushTop", "pushSlot"} :
          [IdleOwner EXCEPT !.pc = pc, !.a = active[d], !.b = bottom[d], !.x = <<d, pushed[d] + 1>>]
            \in OwnerType
    BY <1>t, <2>1, IdleTypes DEF OwnerType, OwnerPC, TypeOK
  <2>3. owner' \in [Deque -> OwnerType]
    BY <1>t, <1>1, <2>2, OwnerGoesFacts DEF TryPush
  <2> QED BY <1>t, <1>1, <2>3, PoolUnchanged DEF TryPush, TypeOK, indexVars, history
<1>2. CASE PushReadTop(d)
  <2> DEFINE h == [o EXCEPT !.t = top[d]]
  <2>0. /\ [h EXCEPT !.pc = "grow", !.left = SizeClass(2 * Capacity[h.a])] \in OwnerType
        /\ [h EXCEPT !.pc = "pushSlot"] \in OwnerType
    BY <1>t, <1>0, ClassType DEF OwnerType, OwnerPC, TypeOK
  <2>1. owner' \in [Deque -> OwnerType]
    BY <1>t, <1>2, <2>0, OwnerGoesFacts DEF PushReadTop
  <2> QED BY <1>t, <1>2, <2>1, PoolUnchanged DEF PushReadTop, TypeOK, history
<1>3. CASE GrowClaim(d)
  <2>1. PICK r \in o.left :
          /\ Claim(r, o.a)
          /\ OwnerGoes(d, [o EXCEPT !.pc = "growCopy", !.dst = r, !.i = o.t, !.left = {}])
    BY <1>3 DEF GrowClaim
  <2>2. r \in Record
    BY <1>0, <2>1 DEF OwnerType
  <2>3. PoolTypeOK'
    BY <1>t, <1>0, <2>1, <2>2, ClaimType DEF TypeOK, OwnerType
  <2> DEFINE l == [o EXCEPT !.pc = "growCopy", !.dst = r, !.i = o.t, !.left = {}]
  <2>5. l \in OwnerType
    BY <1>0, <2>2 DEF OwnerType, OwnerPC
  <2>4. owner' \in [Deque -> OwnerType]
    <3> HIDE DEF l
    <3> QED BY <1>t, <2>1, <2>5, OwnerGoesFacts DEF l
  <2> QED BY <1>t, <1>3, <2>3, <2>4 DEF GrowClaim, TypeOK, indexVars, history
<1>4. CASE GrowScan(d)
  <2>1. PICK r : ClaimFails(r) /\ OwnerGoes(d, [o EXCEPT !.left = @ \ {r}])
    BY <1>4 DEF GrowScan
  <2>2. owner' \in [Deque -> OwnerType]
    BY <1>t, <1>0, <2>1, OwnerGoesFacts DEF OwnerType
  <2> QED BY <1>t, <1>4, <2>1, <2>2, PoolUnchanged DEF GrowScan, ClaimFails, TypeOK, indexVars, history
<1>5. CASE PushFails(d)
  <2>1. owner' \in [Deque -> OwnerType]
    BY <1>t, <1>5, OwnerGoesFacts, IdleTypes DEF PushFails, OwnerReturns
  <2> QED BY <1>t, <1>5, <2>1, PoolUnchanged DEF PushFails, TypeOK, indexVars, history
<1>6. CASE GrowCopy(d)
  <2>1. o.a \in Record /\ o.dst \in Record /\ o.i \in Int
    BY <1>p, <1>0, <1>6, <1>a DEF GrowCopy, OwnerAt, PushPC, OwnerPointers, OwnerType
  <2>2. Load(o.a, o.i) \in Value
    BY <1>t, <2>1, LoadType DEF TypeOK, PoolTypeOK
  <2>3. PoolTypeOK'
    BY <1>t, <1>6, <2>1, <2>2, StoreNoMarkType DEF GrowCopy, TypeOK, PoolTypeOK
  <2>5. [o EXCEPT !.i = @ + 1] \in OwnerType
    BY <1>0 DEF OwnerType
  <2>4. owner' \in [Deque -> OwnerType]
    BY <1>t, <1>6, <2>5, OwnerGoesFacts DEF GrowCopy
  <2> QED BY <1>t, <1>6, <2>3, <2>4 DEF GrowCopy, TypeOK, indexVars, history
<1>7. CASE GrowPublish(d)
  <2>2. [o EXCEPT !.pc = "pushSlot", !.a = o.dst] \in OwnerType
    BY <1>0, <1>7 DEF OwnerType, OwnerPC, GrowPublish
  <2>1. owner' \in [Deque -> OwnerType]
    BY <1>t, <1>7, <2>2, OwnerGoesFacts DEF GrowPublish
  <2> QED BY <1>t, <1>0, <1>7, <2>1, PoolUnchanged DEF GrowPublish, TypeOK, OwnerType, history
<1>8. CASE PushSlot(d)
  <2>1. o.a \in Record /\ o.x \in Value
    BY <1>0, <1>8, <1>a DEF PushSlot, OwnerAt, PushPC, OwnerType
  <2>2. o.b \in Nat
    BY <1>t, <1>p, <1>8 DEF PushSlot, OwnerAt, OwnerIndices, PushPC, TypeOK
  <2>3. PoolTypeOK'
    BY <1>t, <1>8, <2>1, <2>2, StoreType DEF PushSlot, TypeOK, PoolTypeOK
  <2>4. owner' \in [Deque -> OwnerType]
    BY <1>t, <1>0, <1>8, OwnerGoesFacts DEF PushSlot, OwnerType, OwnerPC
  <2> QED BY <1>t, <1>8, <2>3, <2>4 DEF PushSlot, TypeOK, indexVars, history
<1>9. CASE PushBottom(d)
  <2>1. owner' \in [Deque -> OwnerType]
    BY <1>t, <1>9, OwnerGoesFacts, IdleTypes DEF PushBottom, OwnerReturns
  <2>2. o.b + 1 \in Int
    BY <1>0 DEF OwnerType
  <2>3. bottom' \in [Deque -> Int]
    BY <1>t, <1>9, <2>2 DEF PushBottom, TypeOK
  <2>4. pushed' \in [Deque -> Nat]
    BY <1>t, <1>9 DEF PushBottom, TypeOK
  <2> QED BY <1>t, <1>9, <2>1, <2>3, <2>4, PoolUnchanged DEF PushBottom, TypeOK
<1> QED BY <1>1, <1>2, <1>3, <1>4, <1>5, <1>6, <1>7, <1>8, <1>9 DEF PushStep

\* so does pop_bottom(),
LEMMA PopStepType ==
  ASSUME StructureInv, NEW d \in Deque, PopStep(d)
  PROVE  TypeOK'
<1> DEFINE o == owner[d]
<1>t. TypeOK
  BY DEF StructureInv
<1>p. OwnerPointers(d) /\ OwnerIndices(d)
  BY DEF StructureInv
<1>0. o \in OwnerType
  BY <1>t DEF TypeOK
<1>1. CASE Pop(d)
  <2>0. [IdleOwner EXCEPT !.pc = "popTop", !.a = active[d], !.b = bottom[d] - 1] \in OwnerType
    <3>1. active[d] \in Record \cup {NoRecord} /\ bottom[d] - 1 \in Int
      BY <1>t DEF TypeOK
    <3> QED BY <3>1, IdleTypes DEF OwnerType, OwnerPC
  <2>1. owner' \in [Deque -> OwnerType]
    BY <1>t, <1>1, <2>0, OwnerGoesFacts DEF Pop
  <2>2. bottom' \in [Deque -> Int]
    BY <1>t, <1>1 DEF Pop, TypeOK
  <2> QED BY <1>t, <1>1, <2>1, <2>2, PoolUnchanged DEF Pop, TypeOK, history
<1>2. CASE PopReadTop(d)
  <2> DEFINE prev == buf[o.a].prev
  <2>1. o.a \in Record
    BY <1>p, <1>2 DEF PopReadTop, OwnerAt, OwnerPointers
  <2>2. Load(o.a, o.b) \in Value
    BY <1>t, <1>0, <2>1, LoadType DEF TypeOK, PoolTypeOK, OwnerType
  <2>3. prev \in Record \cup {NoRecord} /\ buf[o.a].low \in Nat \cup {NoMark}
    BY <1>t, <2>1 DEF TypeOK, PoolTypeOK, BufferTypeOK, Buffer
  <2>4. CanShrink(d, o.a, o.b, top[d]) =>
          prev \in Record /\ MinMark(buf[o.a].low, buf[prev].low) \in Nat \cup {NoMark}
    BY <1>t, <2>3, MinMarkType DEF CanShrink, TypeOK, PoolTypeOK, BufferTypeOK, Buffer
  <2>5. owner' \in [Deque -> OwnerType] /\ returned' \in [Deque -> [Value -> Nat]]
    <3> DEFINE h == [o EXCEPT !.t = top[d]]
    <3>0. h \in OwnerType
      BY <1>t, <1>0 DEF OwnerType, TypeOK
    <3>1. CASE OwnerGoes(d, [h EXCEPT !.pc = "popRestore"]) /\ UNCHANGED returned
      <4>1. [h EXCEPT !.pc = "popRestore"] \in OwnerType
        BY <3>0 DEF OwnerType, OwnerPC
      <4> QED BY <1>t, <3>1, <4>1, OwnerGoesFacts DEF TypeOK
    <3>2. CASE OwnerGoes(d, [h EXCEPT !.pc = "popCas", !.x = Load(o.a, o.b)]) /\ UNCHANGED returned
      <4>1. [h EXCEPT !.pc = "popCas", !.x = Load(o.a, o.b)] \in OwnerType
        BY <2>2, <3>0 DEF OwnerType, OwnerPC
      <4> QED BY <1>t, <3>2, <4>1, OwnerGoesFacts DEF TypeOK
    <3>3. CASE Deliver(d, Load(o.a, o.b)) /\ OwnerReturns(d)
      BY <1>t, <2>2, <3>3, OwnerGoesFacts, IdleTypes, DeliverType DEF OwnerReturns
    <3>4. CASE /\ CanShrink(d, o.a, o.b, top[d])
               /\ OwnerGoes(d, [h EXCEPT !.pc = "shrinkWalk", !.x = Load(o.a, o.b), !.dst = prev,
                                         !.mark = MinMark(buf[o.a].low, buf[prev].low)])
               /\ UNCHANGED returned
      <4>1. [h EXCEPT !.pc = "shrinkWalk", !.x = Load(o.a, o.b), !.dst = prev,
                      !.mark = MinMark(buf[o.a].low, buf[prev].low)] \in OwnerType
        BY <2>2, <2>4, <3>0, <3>4 DEF OwnerType, OwnerPC
      <4> QED BY <1>t, <3>4, <4>1, OwnerGoesFacts DEF TypeOK
    <3> QED BY <1>2, <3>1, <3>2, <3>3, <3>4 DEF PopReadTop
  <2> QED BY <1>t, <1>2, <2>5, PoolUnchanged DEF PopReadTop, TypeOK
<1>3. CASE PopRestore(d)
  <2>1. owner' \in [Deque -> OwnerType]
    BY <1>t, <1>3, OwnerGoesFacts, IdleTypes DEF PopRestore, OwnerReturns
  <2> QED BY <1>t, <1>0, <1>3, <2>1, PoolUnchanged DEF PopRestore, TypeOK, OwnerType, history
<1>4. CASE PopCas(d)
  <2>1. owner' \in [Deque -> OwnerType]
    BY <1>t, <1>0, <1>4, OwnerGoesFacts DEF PopCas, OwnerType, OwnerPC
  <2> QED BY <1>t, <1>0, <1>4, <2>1, PoolUnchanged
       DEF PopCas, CasTop, CasTopFails, TypeOK, OwnerType, history
<1>5. CASE PopSettle(d)
  <2>1. owner' \in [Deque -> OwnerType]
    BY <1>t, <1>5, OwnerGoesFacts, IdleTypes DEF PopSettle, OwnerReturns
  <2>2. returned' \in [Deque -> [Value -> Nat]]
    BY <1>t, <1>0, <1>5, DeliverType DEF PopSettle, OwnerType, TypeOK
  <2>3. o.t + 1 \in Int
    BY <1>0 DEF OwnerType
  <2>4. bottom' \in [Deque -> Int]
    BY <1>t, <1>5, <2>3 DEF PopSettle, TypeOK
  <2> QED BY <1>t, <1>5, <2>1, <2>2, <2>4, PoolUnchanged DEF PopSettle, TypeOK
<1> QED BY <1>1, <1>2, <1>3, <1>4, <1>5 DEF PopStep

\* so does perhaps_shrink(),
LEMMA ShrinkStepType ==
  ASSUME StructureInv, NEW d \in Deque, ShrinkStep(d)
  PROVE  TypeOK'
<1> DEFINE o == owner[d]
<1>t. TypeOK
  BY DEF StructureInv
<1>p. OwnerPointers(d) /\ OwnerIndices(d) /\ ShrinkChain(d)
  BY DEF StructureInv
<1>0. o \in OwnerType
  BY <1>t DEF TypeOK
<1>c. o.pc \in ShrinkPC \cup {"shrinkRelease"} =>
        /\ o.a \in Record /\ o.dst \in Record
        /\ Capacity[o.dst] \in Nat /\ buf[o.dst] \in Buffer(Capacity[o.dst])
        /\ buf[o.a] \in Buffer(Capacity[o.a])
  BY <1>t, <1>p, RecordFacts
  DEF ShrinkChain, Discarded, OwnedRecords, TypeOK, PoolTypeOK, BufferTypeOK
<1>1. CASE ShrinkWalk(d)
  <2> DEFINE next == buf[o.dst].prev
  <2>1. next \in Record
    BY <1>1, <1>c DEF ShrinkWalk, CanShrink, OwnerAt, ShrinkPC, CopyPC, Buffer
  <2>2. buf[next].low \in Nat \cup {NoMark}
    BY <1>t, <2>1 DEF TypeOK, PoolTypeOK, BufferTypeOK, Buffer
  <2>3. MinMark(o.mark, buf[next].low) \in Nat \cup {NoMark}
    BY <1>0, <2>2, MinMarkType DEF OwnerType
  <2>4. [o EXCEPT !.dst = next, !.mark = MinMark(@, buf[next].low)] \in OwnerType
    BY <1>0, <2>1, <2>3 DEF OwnerType
  <2>5. owner' \in [Deque -> OwnerType]
    BY <1>t, <1>1, <2>4, OwnerGoesFacts DEF ShrinkWalk
  <2> QED BY <1>t, <1>1, <2>5, PoolUnchanged DEF ShrinkWalk, TypeOK, indexVars, history
<1>2. CASE ShrinkStart(d)
  <2>1. o.dst \in Record
    BY <1>2, <1>c DEF ShrinkStart, OwnerAt, ShrinkPC, CopyPC
  <2>2. PoolTypeOK'
    BY <1>t, <1>0, <1>2, <2>1, LowerMarkType DEF ShrinkStart, TypeOK, PoolTypeOK, OwnerType
  <2>3. CopyStart(o.t, o.b, o.mark) \in Int
    BY <1>0 DEF CopyStart, OwnerType
  <2>4. [o EXCEPT !.pc = "shrinkCopy", !.i = CopyStart(o.t, o.b, o.mark)] \in OwnerType
    BY <1>0, <2>3 DEF OwnerType, OwnerPC
  <2>5. owner' \in [Deque -> OwnerType]
    BY <1>t, <1>2, <2>4, OwnerGoesFacts DEF ShrinkStart
  <2> QED BY <1>t, <1>2, <2>2, <2>5 DEF ShrinkStart, TypeOK, indexVars, history
<1>3. CASE ShrinkCopy(d)
  <2>1. o.a \in Record /\ o.dst \in Record /\ o.i \in Int
    BY <1>0, <1>3, <1>c DEF ShrinkCopy, OwnerAt, ShrinkPC, CopyPC, OwnerType
  <2>2. Load(o.a, o.i) \in Value
    BY <1>t, <2>1, LoadType DEF TypeOK, PoolTypeOK
  <2>3. PoolTypeOK'
    BY <1>t, <1>3, <2>1, <2>2, StoreNoMarkType DEF ShrinkCopy, TypeOK, PoolTypeOK
  <2>4. [o EXCEPT !.i = @ + 1] \in OwnerType
    BY <1>0 DEF OwnerType
  <2>5. owner' \in [Deque -> OwnerType]
    BY <1>t, <1>3, <2>4, OwnerGoesFacts DEF ShrinkCopy
  <2> QED BY <1>t, <1>3, <2>3, <2>5 DEF ShrinkCopy, TypeOK, indexVars, history
<1>4. CASE ShrinkPublish(d)
  <2>1. [o EXCEPT !.pc = "shrinkShift"] \in OwnerType
    BY <1>0 DEF OwnerType, OwnerPC
  <2>2. owner' \in [Deque -> OwnerType]
    BY <1>t, <1>4, <2>1, OwnerGoesFacts DEF ShrinkPublish
  <2>3. active' \in [Deque -> Record \cup {NoRecord}]
    BY <1>t, <1>0, <1>4 DEF ShrinkPublish, TypeOK, OwnerType
  <2> QED BY <1>t, <1>4, <2>2, <2>3, PoolUnchanged DEF ShrinkPublish, TypeOK, history
<1>5. CASE ShrinkShift(d)
  <2>1. [o EXCEPT !.pc = "shrinkTop"] \in OwnerType
    BY <1>0 DEF OwnerType, OwnerPC
  <2>2. owner' \in [Deque -> OwnerType]
    BY <1>t, <1>5, <2>1, OwnerGoesFacts DEF ShrinkShift
  <2>3. o.b + Capacity[o.dst] \in Int
    BY <1>0, <1>5, <1>c DEF ShrinkShift, OwnerAt, ShrinkPC, OwnerType
  <2>4. bottom' \in [Deque -> Int]
    BY <1>t, <1>5, <2>3 DEF ShrinkShift, TypeOK
  <2> QED BY <1>t, <1>5, <2>2, <2>4, PoolUnchanged DEF ShrinkShift, TypeOK, history
<1>6. CASE ShrinkReadTop(d)
  <2>1. [o EXCEPT !.pc = "shrinkCas", !.snap = top[d]] \in OwnerType
    BY <1>t, <1>0 DEF OwnerType, OwnerPC, TypeOK
  <2>2. owner' \in [Deque -> OwnerType]
    BY <1>t, <1>6, <2>1, OwnerGoesFacts DEF ShrinkReadTop
  <2> QED BY <1>t, <1>6, <2>2, PoolUnchanged DEF ShrinkReadTop, TypeOK, indexVars, history
<1>7. CASE ShrinkCas(d)
  <2>1. \A pc \in {"shrinkRelease", "shrinkRestore"} : [o EXCEPT !.pc = pc] \in OwnerType
    BY <1>0 DEF OwnerType, OwnerPC
  <2>2. owner' \in [Deque -> OwnerType]
    BY <1>t, <1>7, <2>1, OwnerGoesFacts DEF ShrinkCas
  <2>3. o.snap + Capacity[o.dst] \in Int
    BY <1>0, <1>7, <1>c DEF ShrinkCas, OwnerAt, ShrinkPC, OwnerType
  <2>4. top' \in [Deque -> Int]
    BY <1>t, <1>7, <2>3 DEF ShrinkCas, CasTop, CasTopFails, TypeOK
  <2> QED BY <1>t, <1>7, <2>2, <2>4, PoolUnchanged DEF ShrinkCas, TypeOK, history
<1>8. CASE ShrinkRestore(d)
  <2>1. [o EXCEPT !.pc = "shrinkRelease"] \in OwnerType
    BY <1>0 DEF OwnerType, OwnerPC
  <2>2. owner' \in [Deque -> OwnerType]
    BY <1>t, <1>8, <2>1, OwnerGoesFacts DEF ShrinkRestore
  <2>3. o.b \in Int
    BY <1>0 DEF OwnerType
  <2>4. bottom' \in [Deque -> Int]
    BY <1>t, <1>8, <2>3 DEF ShrinkRestore, TypeOK
  <2> QED BY <1>t, <1>8, <2>2, <2>4, PoolUnchanged DEF ShrinkRestore, TypeOK, history
<1>9. CASE ShrinkRelease(d)
  <2>1. PoolTypeOK'
    BY <1>t, <1>9, ReleaseType DEF ShrinkRelease, TypeOK
  <2>2. buf[o.a].prev \in Record \cup {NoRecord}
    BY <1>9, <1>c DEF ShrinkRelease, OwnerAt, Buffer
  <2>3. [o EXCEPT !.a = buf[o.a].prev] \in OwnerType
    BY <1>0, <2>2 DEF OwnerType
  <2>4. owner' \in [Deque -> OwnerType]
    BY <1>t, <1>9, <2>3, IdleTypes, OwnerGoesFacts DEF ShrinkRelease, OwnerReturns
  <2>5. o.x \in Value
    BY <1>0 DEF OwnerType
  <2>6. returned' \in [Deque -> [Value -> Nat]]
    BY <1>t, <1>9, <2>5, DeliverType DEF ShrinkRelease, TypeOK
  <2> QED BY <1>t, <1>9, <2>1, <2>4, <2>6 DEF ShrinkRelease, TypeOK, indexVars
<1> QED BY <1>1, <1>2, <1>3, <1>4, <1>5, <1>6, <1>7, <1>8, <1>9 DEF ShrinkStep

\* and so does steal().
LEMMA ThiefStepType ==
  ASSUME StructureInv, NEW p \in Thief, ThiefStep(p)
  PROVE  TypeOK'
<1> DEFINE h == thief[p]
<1>t. TypeOK
  BY DEF StructureInv
<1>p. ThiefIndices(p)
  BY DEF StructureInv
<1>0. h \in ThiefType
  BY <1>t DEF TypeOK
<1>r. \A result \in {"SUCCESS", "EMPTY", "ABORT"} :
        [IdleThief EXCEPT !.res = result] \in ThiefType
  BY IdleTypes DEF ThiefType
<1>d. h.pc # "idle" => h.d \in Deque
  BY <1>p DEF ThiefIndices
<1>1. ASSUME NEW d \in Deque, StealReadTop(p, d)
      PROVE  TypeOK'
  <2>1. [IdleThief EXCEPT !.pc = "old", !.d = d, !.t = top[d]] \in ThiefType
    <3>1. top[d] \in Int
      BY <1>t DEF TypeOK
    <3> QED BY <3>1, IdleTypes DEF ThiefType
  <2>2. thief' \in [Thief -> ThiefType]
    BY <1>t, <1>1, <2>1, ThiefGoesFacts DEF StealReadTop
  <2> QED BY <1>t, <1>1, <2>2, PoolUnchanged DEF StealReadTop, TypeOK, indexVars, history
<1>2. CASE StealReadOld(p)
  <2>1. active[h.d] \in Record \cup {NoRecord}
    BY <1>t, <1>2, <1>d DEF StealReadOld, ThiefAt, TypeOK
  <2>2. [h EXCEPT !.pc = "bottom", !.old = active[h.d]] \in ThiefType
    BY <1>0, <2>1 DEF ThiefType
  <2>3. thief' \in [Thief -> ThiefType]
    BY <1>t, <1>2, <2>2, ThiefGoesFacts DEF StealReadOld
  <2> QED BY <1>t, <1>2, <2>3, PoolUnchanged DEF StealReadOld, TypeOK, indexVars, history
<1>3. CASE StealReadBottom(p)
  <2>1. bottom[h.d] \in Int
    BY <1>t, <1>3, <1>d DEF StealReadBottom, ThiefAt, TypeOK
  <2>2. [h EXCEPT !.pc = "array", !.b = bottom[h.d]] \in ThiefType
    BY <1>0, <2>1 DEF ThiefType
  <2>3. thief' \in [Thief -> ThiefType]
    BY <1>t, <1>3, <2>2, ThiefGoesFacts DEF StealReadBottom
  <2> QED BY <1>t, <1>3, <2>3, PoolUnchanged DEF StealReadBottom, TypeOK, indexVars, history
<1>4. CASE StealReadArray(p)
  <2>1. active[h.d] \in Record \cup {NoRecord}
    BY <1>t, <1>4, <1>d DEF StealReadArray, ThiefAt, TypeOK
  <2>2. \A pc \in {"recheck", "slot"} :
          [[h EXCEPT !.a = active[h.d]] EXCEPT !.pc = pc] \in ThiefType
    BY <1>0, <2>1 DEF ThiefType
  <2>3. thief' \in [Thief -> ThiefType]
    BY <1>t, <1>4, <1>r, <2>2, ThiefGoesFacts DEF StealReadArray, StealReturns
  <2> QED BY <1>t, <1>4, <2>3, PoolUnchanged DEF StealReadArray, TypeOK, indexVars, history
<1>5. CASE StealRecheck(p)
  <2>1. thief' \in [Thief -> ThiefType]
    BY <1>t, <1>5, <1>r, ThiefGoesFacts DEF StealRecheck, StealReturns
  <2> QED BY <1>t, <1>5, <2>1, PoolUnchanged DEF StealRecheck, TypeOK, indexVars, history
<1>6. CASE StealReadSlot(p)
  <2>1. h.a \in Record /\ h.t \in Int
    BY <1>0, <1>6, <1>p DEF StealReadSlot, ThiefAt, ThiefIndices, ThiefType
  <2>2. Load(h.a, h.t) \in Value
    BY <1>t, <2>1, LoadType DEF TypeOK, PoolTypeOK
  <2>3. [h EXCEPT !.pc = "cas", !.x = Load(h.a, h.t)] \in ThiefType
    BY <1>0, <2>2 DEF ThiefType
  <2>4. thief' \in [Thief -> ThiefType]
    BY <1>t, <1>6, <2>3, ThiefGoesFacts DEF StealReadSlot
  <2> QED BY <1>t, <1>6, <2>4, PoolUnchanged DEF StealReadSlot, TypeOK, indexVars, history
<1>7. CASE StealCas(p)
  <2>1. h.d \in Deque /\ h.x \in Value /\ h.t + 1 \in Int
    BY <1>0, <1>7, <1>d DEF StealCas, ThiefAt, ThiefType
  <2>2. thief' \in [Thief -> ThiefType]
    BY <1>t, <1>7, <1>r, ThiefGoesFacts DEF StealCas, StealReturns
  <2>3. top' \in [Deque -> Int]
    BY <1>t, <1>7, <2>1 DEF StealCas, CasTop, CasTopFails, TypeOK
  <2>4. returned' \in [Deque -> [Value -> Nat]]
    BY <1>t, <1>7, <2>1, DeliverType DEF StealCas, TypeOK
  <2> QED BY <1>t, <1>7, <2>2, <2>3, <2>4, PoolUnchanged DEF StealCas, TypeOK
<1> QED BY <1>1, <1>2, <1>3, <1>4, <1>5, <1>6, <1>7 DEF ThiefStep

-----------------------------------------------------------------------------
(* What each step does: every step of an owner or of a thief is described  *)
(* by the values of one deque's indices and one thread's locals before and *)
(* after it; the later parts reason about these values only.               *)

\* The indices of d that a step leaves alone.
SameTop(d) == top'[d] = top[d]
SameBottom(d) == bottom'[d] = bottom[d]
SameArray(d) == active'[d] = active[d]
SameCached(d) == cachedTop'[d] = cachedTop[d]

-----------------------------------------------------------------------------
(* A deque comes to life empty, with both indices at zero.                 *)

LEMMA ConstructEffect ==
  ASSUME TypeOK, NEW d \in Deque, Construct(d)
  PROVE  LET o == owner[d]  n == owner'[d]  IN
         /\ o.pc = "none" /\ n.pc = "construct"
         /\ SameTop(d) /\ SameBottom(d) /\ SameArray(d) /\ SameCached(d)
<1> DEFINE o == owner[d]
<1>1. o \in OwnerType
  BY DEF TypeOK
<1>2. owner'[d] = [IdleOwner EXCEPT !.pc = "construct", !.left = SizeClass(InitCapacity[d])]
  BY <1>1, OwnerGoesFacts DEF Construct, OwnerType
<1>3. UNCHANGED <<top, bottom, active, cachedTop>>
  BY DEF Construct, indexVars
<1> QED BY <1>1, <1>2, <1>3 DEF Construct, OwnerAt, TypeOK, OwnerType, IdleOwner, SameTop, SameBottom, SameArray, SameCached

\* The constructor claims its first array,
LEMMA ConstructClaimEffect ==
  ASSUME TypeOK, NEW d \in Deque, ConstructClaim(d)
  PROVE  LET o == owner[d]  n == owner'[d]  IN
         /\ o.pc = "construct" /\ n.pc = "idle"
         /\ top'[d] = 0 /\ bottom'[d] = 0 /\ cachedTop'[d] = 0
         /\ \E r \in o.left : active'[d] = r /\ Claim(r, NoRecord)
<1>1. owner[d] \in OwnerType
  BY DEF TypeOK
<1> QED BY <1>1, OwnerGoesFacts
     DEF ConstructClaim, TypeOK, OwnerType, OwnerAt, OwnerReturns, IdleOwner, indexVars,
         SameTop, SameBottom, SameArray, SameCached

\* passes over a record that is owned,
LEMMA ConstructScanEffect ==
  ASSUME TypeOK, NEW d \in Deque, ConstructScan(d)
  PROVE  LET o == owner[d]  n == owner'[d]  IN
         /\ o.pc = "construct" /\ n.pc = "construct" /\ UNCHANGED poolVars
         /\ SameTop(d) /\ SameBottom(d) /\ SameArray(d) /\ SameCached(d)
<1>1. owner[d] \in OwnerType
  BY DEF TypeOK
<1> QED BY <1>1, OwnerGoesFacts
     DEF ConstructScan, ClaimFails, TypeOK, OwnerType, OwnerAt, OwnerReturns, IdleOwner, indexVars,
         SameTop, SameBottom, SameArray, SameCached

\* or gives up at the end of the class.
LEMMA ConstructFailsEffect ==
  ASSUME TypeOK, NEW d \in Deque, ConstructFails(d)
  PROVE  LET o == owner[d]  n == owner'[d]  IN
         /\ o.pc = "construct" /\ n.pc = "none"
         /\ SameTop(d) /\ SameBottom(d) /\ SameArray(d) /\ SameCached(d)
<1>1. owner[d] \in OwnerType
  BY DEF TypeOK
<1> QED BY <1>1, OwnerGoesFacts
     DEF ConstructFails, TypeOK, OwnerType, OwnerAt, OwnerReturns, IdleOwner, indexVars,
         SameTop, SameBottom, SameArray, SameCached

\* The destructor starts at the active array
LEMMA DestroyEffect ==
  ASSUME TypeOK, NEW d \in Deque, Destroy(d)
  PROVE  LET o == owner[d]  n == owner'[d]  IN
         /\ o.pc = "idle" /\ n.pc = "destroy" /\ n.dst = active[d]
         /\ SameTop(d) /\ SameBottom(d) /\ SameArray(d) /\ SameCached(d)
<1> DEFINE o == owner[d]
<1>1. o \in OwnerType
  BY DEF TypeOK
<1>2. owner'[d] = [IdleOwner EXCEPT !.pc = "destroy", !.dst = active[d]]
  BY <1>1, OwnerGoesFacts DEF Destroy, OwnerType
<1>3. UNCHANGED <<top, bottom, active, cachedTop>>
  BY DEF Destroy, indexVars
<1> QED BY <1>1, <1>2, <1>3 DEF Destroy, OwnerAt, TypeOK, OwnerType, IdleOwner, SameTop, SameBottom, SameArray, SameCached

\* and goes down the chain, one array per step.
LEMMA DestroyReleaseEffect ==
  ASSUME TypeOK, NEW d \in Deque, DestroyRelease(d)
  PROVE  LET o == owner[d]  n == owner'[d]  IN
         /\ o.pc = "destroy" /\ Release(o.dst)
         /\ IF buf[o.dst].prev = NoRecord
            THEN n.pc = "none"
            ELSE n.pc = "destroy" /\ n.dst = buf[o.dst].prev /\ SameArray(d)
         /\ SameTop(d) /\ SameBottom(d) /\ SameCached(d)
<1>1. owner[d] \in OwnerType
  BY DEF TypeOK
<1> QED BY <1>1, OwnerGoesFacts
     DEF DestroyRelease, TypeOK, OwnerType, OwnerAt, OwnerReturns, IdleOwner, indexVars,
         SameTop, SameBottom, SameArray, SameCached

-----------------------------------------------------------------------------
(* A push reads top_ only when it has to, and publishes bottom_ last.      *)

LEMMA TryPushEffect ==
  ASSUME TypeOK, NEW d \in Deque, TryPush(d)
  PROVE  LET o == owner[d]  n == owner'[d]  IN
         /\ o.pc = "idle" /\ n.a = active[d] /\ n.b = bottom[d]
         /\ IF NeedsRoom(active[d], bottom[d], cachedTop[d]) THEN n.pc = "pushTop" ELSE n.pc = "pushSlot"
         /\ SameTop(d) /\ SameBottom(d) /\ SameArray(d) /\ SameCached(d)
<1> DEFINE o == owner[d]
<1>1. o \in OwnerType
  BY DEF TypeOK
<1>2. owner'[d] = [IdleOwner EXCEPT
               !.pc = IF NeedsRoom(active[d], bottom[d], cachedTop[d]) THEN "pushTop" ELSE "pushSlot",
               !.a = active[d], !.b = bottom[d], !.x = <<d, pushed[d] + 1>>]
  BY <1>1, OwnerGoesFacts DEF TryPush, OwnerType
<1>3. UNCHANGED <<top, bottom, active, cachedTop>>
  BY DEF TryPush, indexVars
<1> QED BY <1>1, <1>2, <1>3 DEF TryPush, OwnerAt, TypeOK, OwnerType, IdleOwner, SameTop, SameBottom, SameArray, SameCached

\* A push that saw too little room looks at top_ again and may grow.
LEMMA PushReadTopEffect ==
  ASSUME TypeOK, NEW d \in Deque, PushReadTop(d)
  PROVE  LET o == owner[d]  n == owner'[d]  IN
         /\ o.pc = "pushTop" /\ n.a = o.a /\ n.b = o.b /\ n.t = top[d] /\ cachedTop'[d] = top[d]
         /\ IF NeedsRoom(o.a, o.b, top[d])
            THEN n.pc = "grow" /\ n.left = SizeClass(2 * Capacity[o.a])
            ELSE n.pc = "pushSlot"
         /\ SameTop(d) /\ SameBottom(d) /\ SameArray(d)
<1> DEFINE o == owner[d]
<1>1. o \in OwnerType
  BY DEF TypeOK
<1>2. owner'[d] = IF NeedsRoom(o.a, o.b, top[d])
              THEN [o EXCEPT !.t = top[d], !.pc = "grow", !.left = SizeClass(2 * Capacity[o.a])]
              ELSE [o EXCEPT !.t = top[d], !.pc = "pushSlot"]
  BY <1>1, OwnerGoesFacts DEF PushReadTop, OwnerType
<1>3. UNCHANGED <<top, bottom, active>>
  BY DEF PushReadTop, indexVars
<1> QED BY <1>1, <1>2, <1>3 DEF PushReadTop, OwnerAt, TypeOK, OwnerType, IdleOwner, SameTop, SameBottom, SameArray, SameCached

\* Growing claims an array of twice the capacity,
LEMMA GrowClaimEffect ==
  ASSUME TypeOK, NEW d \in Deque, GrowClaim(d)
  PROVE  LET o == owner[d]  n == owner'[d]  IN
         /\ o.pc = "grow" /\ n.pc = "growCopy" /\ n.a = o.a /\ n.b = o.b /\ n.t = o.t
         /\ n.dst \in o.left /\ Claim(n.dst, o.a)
         /\ SameTop(d) /\ SameBottom(d) /\ SameArray(d) /\ SameCached(d)
<1> DEFINE o == owner[d]
<1>1. o \in OwnerType
  BY DEF TypeOK
<1>2. PICK r \in o.left :
        /\ Claim(r, o.a)
        /\ owner'[d] = [o EXCEPT !.pc = "growCopy", !.dst = r, !.i = o.t, !.left = {}]
  BY <1>1, OwnerGoesFacts DEF GrowClaim
<1>3. UNCHANGED <<top, bottom, active, cachedTop>>
  BY DEF GrowClaim, indexVars
<1>4. owner'[d].dst = r
  BY <1>1, <1>2 DEF OwnerType
<1>5. /\ owner'[d].pc = "growCopy" /\ owner'[d].a = o.a
      /\ owner'[d].b = o.b /\ owner'[d].t = o.t
  BY <1>1, <1>2 DEF OwnerType
<1>6. o.pc = "grow"
  BY DEF GrowClaim, OwnerAt
<1> QED BY <1>2, <1>3, <1>4, <1>5, <1>6 DEF SameTop, SameBottom, SameArray, SameCached

\* passes over one that is owned,
LEMMA GrowScanEffect ==
  ASSUME TypeOK, NEW d \in Deque, GrowScan(d)
  PROVE  LET o == owner[d]  n == owner'[d]  IN
         /\ o.pc = "grow" /\ n.pc = "grow" /\ n.a = o.a /\ n.b = o.b /\ n.t = o.t
         /\ n.left \subseteq o.left /\ UNCHANGED poolVars
         /\ SameTop(d) /\ SameBottom(d) /\ SameArray(d) /\ SameCached(d)
<1>1. owner[d] \in OwnerType
  BY DEF TypeOK
<1> QED BY <1>1, OwnerGoesFacts
     DEF GrowScan, ClaimFails, TypeOK, OwnerType, OwnerAt, OwnerReturns, IdleOwner, indexVars,
         SameTop, SameBottom, SameArray, SameCached

\* or gives up and lets the push fail.
LEMMA PushFailsEffect ==
  ASSUME TypeOK, NEW d \in Deque, PushFails(d)
  PROVE  LET o == owner[d]  n == owner'[d]  IN
         /\ o.pc = "grow" /\ n.pc = "idle"
         /\ SameTop(d) /\ SameBottom(d) /\ SameArray(d) /\ SameCached(d)
<1>1. owner[d] \in OwnerType
  BY DEF TypeOK
<1> QED BY <1>1, OwnerGoesFacts
     DEF PushFails, TypeOK, OwnerType, OwnerAt, OwnerReturns, IdleOwner, indexVars,
         SameTop, SameBottom, SameArray, SameCached

\* The copy goes on slot by slot,
LEMMA GrowCopyEffect ==
  ASSUME TypeOK, NEW d \in Deque, GrowCopy(d)
  PROVE  LET o == owner[d]  n == owner'[d]  IN
         /\ o.pc = "growCopy" /\ n.pc = "growCopy" /\ n.a = o.a /\ n.b = o.b /\ n.t = o.t
         /\ n.dst = o.dst
         /\ SameTop(d) /\ SameBottom(d) /\ SameArray(d) /\ SameCached(d)
<1>1. owner[d] \in OwnerType
  BY DEF TypeOK
<1> QED BY <1>1, OwnerGoesFacts
     DEF GrowCopy, TypeOK, OwnerType, OwnerAt, OwnerReturns, IdleOwner, indexVars,
         SameTop, SameBottom, SameArray, SameCached

\* until the new array becomes the active one.
LEMMA GrowPublishEffect ==
  ASSUME TypeOK, NEW d \in Deque, GrowPublish(d)
  PROVE  LET o == owner[d]  n == owner'[d]  IN
         /\ o.pc = "growCopy" /\ n.pc = "pushSlot" /\ n.a = o.dst /\ n.b = o.b
         /\ active'[d] = o.dst
         /\ SameTop(d) /\ SameBottom(d) /\ SameCached(d)
<1> DEFINE o == owner[d]
<1>1. o \in OwnerType
  BY DEF TypeOK
<1>2. owner'[d] = [o EXCEPT !.pc = "pushSlot", !.a = o.dst]
  BY <1>1, OwnerGoesFacts DEF GrowPublish, OwnerType
<1>3. UNCHANGED <<top, bottom, cachedTop>>
  BY DEF GrowPublish, indexVars
<1> QED BY <1>1, <1>2, <1>3 DEF GrowPublish, OwnerAt, TypeOK, OwnerType, IdleOwner, SameTop, SameBottom, SameArray, SameCached

\* The item goes into the slot at bottom_,
LEMMA PushSlotEffect ==
  ASSUME TypeOK, NEW d \in Deque, PushSlot(d)
  PROVE  LET o == owner[d]  n == owner'[d]  IN
         /\ o.pc = "pushSlot" /\ n.pc = "pushBottom" /\ n.a = o.a /\ n.b = o.b
         /\ SameTop(d) /\ SameBottom(d) /\ SameArray(d) /\ SameCached(d)
<1>1. owner[d] \in OwnerType
  BY DEF TypeOK
<1> QED BY <1>1, OwnerGoesFacts
     DEF PushSlot, TypeOK, OwnerType, OwnerAt, OwnerReturns, IdleOwner, indexVars,
         SameTop, SameBottom, SameArray, SameCached

\* and bottom_ moves past it.
LEMMA PushBottomEffect ==
  ASSUME TypeOK, NEW d \in Deque, PushBottom(d)
  PROVE  LET o == owner[d]  n == owner'[d]  IN
         /\ o.pc = "pushBottom" /\ n.pc = "idle" /\ bottom'[d] = o.b + 1
         /\ SameTop(d) /\ SameArray(d) /\ SameCached(d)
<1>1. owner[d] \in OwnerType
  BY DEF TypeOK
<1> QED BY <1>1, OwnerGoesFacts
     DEF PushBottom, TypeOK, OwnerType, OwnerAt, OwnerReturns, IdleOwner, indexVars,
         SameTop, SameBottom, SameArray, SameCached

-----------------------------------------------------------------------------
(* A pop lowers bottom_ first and then compares it with top_.              *)

LEMMA PopEffect ==
  ASSUME TypeOK, NEW d \in Deque, Pop(d)
  PROVE  LET o == owner[d]  n == owner'[d]  IN
         /\ o.pc = "idle" /\ n.pc = "popTop" /\ n.a = active[d] /\ n.b = bottom[d] - 1
         /\ bottom'[d] = bottom[d] - 1
         /\ SameTop(d) /\ SameArray(d) /\ SameCached(d)
<1> DEFINE o == owner[d]
<1>1. o \in OwnerType
  BY DEF TypeOK
<1>2. owner'[d] = [IdleOwner EXCEPT !.pc = "popTop", !.a = active[d], !.b = bottom[d] - 1]
  BY <1>1, OwnerGoesFacts DEF Pop, OwnerType
<1>3. UNCHANGED <<top, active, cachedTop>>
  BY DEF Pop, indexVars
<1> QED BY <1>1, <1>2, <1>3 DEF Pop, OwnerAt, TypeOK, OwnerType, IdleOwner, SameTop, SameBottom, SameArray, SameCached

\* What top_ tells the pop: empty, the last item, or an item of its own.
LEMMA PopReadTopEffect ==
  ASSUME TypeOK, NEW d \in Deque, PopReadTop(d)
  PROVE  LET o == owner[d]  n == owner'[d]  IN
         /\ o.pc = "popTop" /\ n.t \in {0, top[d]} /\ cachedTop'[d] = top[d]
         /\ \/ n.pc = "popRestore" /\ o.b < top[d] /\ n.t = top[d]
            \/ n.pc = "popCas" /\ o.b = top[d] /\ n.t = top[d] /\ n.b = o.b
            \/ n.pc = "idle" /\ o.b > top[d]
            \/ /\ n.pc = "shrinkWalk" /\ o.b > top[d] /\ CanShrink(d, o.a, o.b, top[d])
               /\ n.a = o.a /\ n.b = o.b /\ n.t = top[d] /\ n.dst = buf[o.a].prev
         /\ SameTop(d) /\ SameBottom(d) /\ SameArray(d)
<1> DEFINE o == owner[d]
           h == [o EXCEPT !.t = top[d]]
           x == Load(o.a, o.b)
           mark == MinMark(buf[o.a].low, buf[buf[o.a].prev].low)
<1>1. o \in OwnerType /\ top[d] \in Int
  BY DEF TypeOK
<1>2. o.pc = "popTop" /\ cachedTop'[d] = top[d] /\ SameTop(d) /\ SameBottom(d) /\ SameArray(d)
  BY DEF PopReadTop, OwnerAt, TypeOK, SameTop, SameBottom, SameArray
<1>3. CASE o.b < top[d] /\ owner'[d] = [h EXCEPT !.pc = "popRestore"]
  BY <1>1, <1>2, <1>3 DEF OwnerType
<1>4. CASE o.b = top[d] /\ owner'[d] = [h EXCEPT !.pc = "popCas", !.x = x]
  BY <1>1, <1>2, <1>4 DEF OwnerType
<1>5. CASE o.b > top[d] /\ owner'[d] = IdleOwner
  BY <1>1, <1>2, <1>5 DEF IdleOwner
<1>6. CASE /\ o.b > top[d] /\ CanShrink(d, o.a, o.b, top[d])
           /\ owner'[d] = [h EXCEPT !.pc = "shrinkWalk", !.x = x, !.dst = buf[o.a].prev,
                                     !.mark = mark]
  BY <1>1, <1>2, <1>6 DEF OwnerType
<1>7. h.a = o.a /\ h.b = o.b /\ h.t = top[d]
  BY <1>1 DEF OwnerType
<1> HIDE DEF h
<1>8. \/ o.b < top[d] /\ OwnerGoes(d, [h EXCEPT !.pc = "popRestore"])
      \/ o.b = top[d] /\ OwnerGoes(d, [h EXCEPT !.pc = "popCas", !.x = x])
      \/ o.b > top[d] /\ OwnerReturns(d)
      \/ /\ o.b > top[d] /\ CanShrink(d, o.a, o.b, top[d])
         /\ OwnerGoes(d, [h EXCEPT !.pc = "shrinkWalk", !.x = x, !.dst = buf[o.a].prev,
                                   !.mark = mark])
  BY <1>7, SMTT(30) DEF PopReadTop, h
<1> QED BY <1>3, <1>4, <1>5, <1>6, <1>8, OwnerGoesFacts DEF OwnerReturns

\* After an empty pop bottom_ is back at top_.
LEMMA PopRestoreEffect ==
  ASSUME TypeOK, NEW d \in Deque, PopRestore(d)
  PROVE  LET o == owner[d]  n == owner'[d]  IN
         /\ o.pc = "popRestore" /\ n.pc = "idle" /\ bottom'[d] = o.t
         /\ SameTop(d) /\ SameArray(d) /\ SameCached(d)
<1>1. owner[d] \in OwnerType
  BY DEF TypeOK
<1> QED BY <1>1, OwnerGoesFacts
     DEF PopRestore, TypeOK, OwnerType, OwnerAt, OwnerReturns, IdleOwner, indexVars,
         SameTop, SameBottom, SameArray, SameCached

\* The race for the last item has two outcomes,
LEMMA PopCasEffect ==
  ASSUME TypeOK, NEW d \in Deque, PopCas(d)
  PROVE  LET o == owner[d]  n == owner'[d]  IN
         /\ o.pc = "popCas" /\ n.b = o.b /\ n.t = o.t
         /\ \/ n.pc = "popWon" /\ top[d] = o.t /\ top'[d] = o.t + 1
            \/ n.pc = "popLost" /\ top[d] # o.t /\ SameTop(d)
         /\ SameBottom(d) /\ SameArray(d) /\ SameCached(d)
<1>1. owner[d] \in OwnerType
  BY DEF TypeOK
<1> QED BY <1>1, OwnerGoesFacts
     DEF PopCas, CasTop, CasTopFails, TypeOK, OwnerType, OwnerAt, OwnerReturns, IdleOwner, indexVars,
         SameTop, SameBottom, SameArray, SameCached

\* after which bottom_ follows top_.
LEMMA PopSettleEffect ==
  ASSUME TypeOK, NEW d \in Deque, PopSettle(d)
  PROVE  LET o == owner[d]  n == owner'[d]  IN
         /\ o.pc \in {"popWon", "popLost"} /\ n.pc = "idle" /\ bottom'[d] = o.t + 1
         /\ SameTop(d) /\ SameArray(d) /\ SameCached(d)
<1>1. owner[d] \in OwnerType
  BY DEF TypeOK
<1> QED BY <1>1, OwnerGoesFacts
     DEF PopSettle, TypeOK, OwnerType, OwnerAt, OwnerReturns, IdleOwner, indexVars,
         SameTop, SameBottom, SameArray, SameCached

-----------------------------------------------------------------------------
(* A shrink publishes the smaller array, moves bottom_, and then top_.     *)

LEMMA ShrinkWalkEffect ==
  ASSUME TypeOK, NEW d \in Deque, ShrinkWalk(d)
  PROVE  LET o == owner[d]  n == owner'[d]  IN
         /\ o.pc = "shrinkWalk" /\ n.pc = "shrinkWalk" /\ CanShrink(d, o.dst, o.b, o.t)
         /\ n.a = o.a /\ n.b = o.b /\ n.t = o.t /\ n.dst = buf[o.dst].prev
         /\ SameTop(d) /\ SameBottom(d) /\ SameArray(d) /\ SameCached(d)
<1> DEFINE o == owner[d]
<1>1. o \in OwnerType
  BY DEF TypeOK
<1>2. owner'[d] = [o EXCEPT !.dst = buf[o.dst].prev, !.mark = MinMark(@, buf[buf[o.dst].prev].low)]
  BY <1>1, OwnerGoesFacts DEF ShrinkWalk, OwnerType
<1>3. UNCHANGED <<top, bottom, active, cachedTop>>
  BY DEF ShrinkWalk, indexVars
<1> QED BY <1>1, <1>2, <1>3 DEF ShrinkWalk, OwnerAt, TypeOK, OwnerType, IdleOwner, SameTop, SameBottom, SameArray, SameCached

\* At the target of the shrink the copy starts,
LEMMA ShrinkStartEffect ==
  ASSUME TypeOK, NEW d \in Deque, ShrinkStart(d)
  PROVE  LET o == owner[d]  n == owner'[d]  IN
         /\ o.pc = "shrinkWalk" /\ n.pc = "shrinkCopy"
         /\ n.a = o.a /\ n.b = o.b /\ n.t = o.t /\ n.dst = o.dst
         /\ SameTop(d) /\ SameBottom(d) /\ SameArray(d) /\ SameCached(d)
<1> DEFINE o == owner[d]
<1>1. o \in OwnerType
  BY DEF TypeOK
<1>2. owner'[d] = [o EXCEPT !.pc = "shrinkCopy", !.i = CopyStart(o.t, o.b, o.mark)]
  BY <1>1, OwnerGoesFacts DEF ShrinkStart, OwnerType
<1>3. UNCHANGED <<top, bottom, active, cachedTop>>
  BY DEF ShrinkStart, indexVars
<1> QED BY <1>1, <1>2, <1>3 DEF ShrinkStart, OwnerAt, TypeOK, OwnerType, IdleOwner, SameTop, SameBottom, SameArray, SameCached

\* goes on slot by slot,
LEMMA ShrinkCopyEffect ==
  ASSUME TypeOK, NEW d \in Deque, ShrinkCopy(d)
  PROVE  LET o == owner[d]  n == owner'[d]  IN
         /\ o.pc = "shrinkCopy" /\ n.pc = "shrinkCopy"
         /\ n.a = o.a /\ n.b = o.b /\ n.t = o.t /\ n.dst = o.dst
         /\ SameTop(d) /\ SameBottom(d) /\ SameArray(d) /\ SameCached(d)
<1>1. owner[d] \in OwnerType
  BY DEF TypeOK
<1> QED BY <1>1, OwnerGoesFacts
     DEF ShrinkCopy, TypeOK, OwnerType, OwnerAt, OwnerReturns, IdleOwner, indexVars,
         SameTop, SameBottom, SameArray, SameCached

\* and ends with the smaller array as the active one.
LEMMA ShrinkPublishEffect ==
  ASSUME TypeOK, NEW d \in Deque, ShrinkPublish(d)
  PROVE  LET o == owner[d]  n == owner'[d]  IN
         /\ o.pc = "shrinkCopy" /\ n.pc = "shrinkShift" /\ active'[d] = o.dst
         /\ n.a = o.a /\ n.b = o.b /\ n.t = o.t /\ n.dst = o.dst
         /\ SameTop(d) /\ SameBottom(d) /\ SameCached(d)
<1>1. owner[d] \in OwnerType
  BY DEF TypeOK
<1> QED BY <1>1, OwnerGoesFacts
     DEF ShrinkPublish, TypeOK, OwnerType, OwnerAt, OwnerReturns, IdleOwner, indexVars,
         SameTop, SameBottom, SameArray, SameCached

\* bottom_ moves ahead by its capacity,
LEMMA ShrinkShiftEffect ==
  ASSUME TypeOK, NEW d \in Deque, ShrinkShift(d)
  PROVE  LET o == owner[d]  n == owner'[d]  IN
         /\ o.pc = "shrinkShift" /\ n.pc = "shrinkTop" /\ bottom'[d] = o.b + Capacity[o.dst]
         /\ n.a = o.a /\ n.b = o.b /\ n.t = o.t /\ n.dst = o.dst
         /\ SameTop(d) /\ SameArray(d) /\ SameCached(d)
<1>1. owner[d] \in OwnerType
  BY DEF TypeOK
<1> QED BY <1>1, OwnerGoesFacts
     DEF ShrinkShift, TypeOK, OwnerType, OwnerAt, OwnerReturns, IdleOwner, indexVars,
         SameTop, SameBottom, SameArray, SameCached

\* top_ is read,
LEMMA ShrinkReadTopEffect ==
  ASSUME TypeOK, NEW d \in Deque, ShrinkReadTop(d)
  PROVE  LET o == owner[d]  n == owner'[d]  IN
         /\ o.pc = "shrinkTop" /\ n.pc = "shrinkCas" /\ n.snap = top[d]
         /\ n.a = o.a /\ n.b = o.b /\ n.t = o.t /\ n.dst = o.dst
         /\ SameTop(d) /\ SameBottom(d) /\ SameArray(d) /\ SameCached(d)
<1> DEFINE o == owner[d]
<1>1. o \in OwnerType
  BY DEF TypeOK
<1>2. owner'[d] = [o EXCEPT !.pc = "shrinkCas", !.snap = top[d]]
  BY <1>1, OwnerGoesFacts DEF ShrinkReadTop, OwnerType
<1>3. UNCHANGED <<top, bottom, active, cachedTop>>
  BY DEF ShrinkReadTop, indexVars
<1> QED BY <1>1, <1>2, <1>3 DEF ShrinkReadTop, OwnerAt, TypeOK, OwnerType, IdleOwner, SameTop, SameBottom, SameArray, SameCached

\* and moved by as much, unless a thief was faster;
LEMMA ShrinkCasEffect ==
  ASSUME TypeOK, NEW d \in Deque, ShrinkCas(d)
  PROVE  LET o == owner[d]  n == owner'[d]  IN
         /\ o.pc = "shrinkCas" /\ n.a = o.a /\ n.b = o.b /\ n.t = o.t /\ n.dst = o.dst
         /\ \/ n.pc = "shrinkRelease" /\ top[d] = o.snap /\ top'[d] = o.snap + Capacity[o.dst]
            \/ n.pc = "shrinkRestore" /\ SameTop(d)
         /\ SameBottom(d) /\ SameArray(d) /\ SameCached(d)
<1>1. owner[d] \in OwnerType
  BY DEF TypeOK
<1> QED BY <1>1, OwnerGoesFacts
     DEF ShrinkCas, CasTop, CasTopFails, TypeOK, OwnerType, OwnerAt, OwnerReturns, IdleOwner, indexVars,
         SameTop, SameBottom, SameArray, SameCached

\* then bottom_ moves back.
LEMMA ShrinkRestoreEffect ==
  ASSUME TypeOK, NEW d \in Deque, ShrinkRestore(d)
  PROVE  LET o == owner[d]  n == owner'[d]  IN
         /\ o.pc = "shrinkRestore" /\ n.pc = "shrinkRelease" /\ bottom'[d] = o.b
         /\ n.a = o.a /\ n.b = o.b /\ n.t = o.t /\ n.dst = o.dst
         /\ SameTop(d) /\ SameArray(d) /\ SameCached(d)
<1>1. owner[d] \in OwnerType
  BY DEF TypeOK
<1> QED BY <1>1, OwnerGoesFacts
     DEF ShrinkRestore, TypeOK, OwnerType, OwnerAt, OwnerReturns, IdleOwner, indexVars,
         SameTop, SameBottom, SameArray, SameCached

\* The arrays above the target are returned one by one.
LEMMA ShrinkReleaseEffect ==
  ASSUME TypeOK, NEW d \in Deque, ShrinkRelease(d)
  PROVE  LET o == owner[d]  n == owner'[d]  IN
         /\ o.pc = "shrinkRelease" /\ Release(o.a)
         /\ IF buf[o.a].prev = o.dst
            THEN n.pc = "idle"
            ELSE n.pc = "shrinkRelease" /\ n.a = buf[o.a].prev /\ n.dst = o.dst
         /\ SameTop(d) /\ SameBottom(d) /\ SameArray(d) /\ SameCached(d)
<1>1. owner[d] \in OwnerType
  BY DEF TypeOK
<1> QED BY <1>1, OwnerGoesFacts
     DEF ShrinkRelease, TypeOK, OwnerType, OwnerAt, OwnerReturns, IdleOwner, indexVars,
         SameTop, SameBottom, SameArray, SameCached

\* What the steps that do not return do to the locals of the call.
LEMMA CallLocals ==
  ASSUME TypeOK, NEW p \in Thief
  PROVE  LET h == thief[p]
             g == thief'[p]
         IN
         /\ \A d \in Deque : StealReadTop(p, d) => g.pc = "old" /\ g.d = d /\ g.t = top[d]
         /\ StealReadOld(p) =>
              g.pc = "bottom" /\ g.d = h.d /\ g.t = h.t /\ g.old = active[h.d]
         /\ StealReadBottom(p) =>
              /\ h.pc = "bottom" /\ g.pc = "array" /\ g.d = h.d /\ g.t = h.t /\ g.old = h.old
              /\ g.b = bottom[h.d]
         /\ StealReadArray(p) /\ g.pc # "idle" =>
              /\ h.pc = "array" /\ g.pc \in {"recheck", "slot"}
              /\ g.d = h.d /\ g.t = h.t /\ g.old = h.old /\ g.b = h.b /\ g.a = active[h.d]
              /\ h.b - h.t > 0
              /\ g.pc = "recheck" => Ambiguous(h.b - h.t, active[h.d])
         /\ StealReadSlot(p) =>
              /\ h.pc = "slot" /\ g.pc = "cas"
              /\ g.d = h.d /\ g.t = h.t /\ g.old = h.old /\ g.a = h.a
<1> DEFINE h == thief[p]
           g == thief'[p]
<1>h. h \in ThiefType
  BY DEF TypeOK
<1>g. \A l : ThiefGoes(p, l) => g = l
  BY ThiefGoesFacts
<1>1. ASSUME NEW d \in Deque, StealReadTop(p, d)
      PROVE  g.pc = "old" /\ g.d = d /\ g.t = top[d]
  BY <1>g, <1>1 DEF StealReadTop, IdleThief
<1>2. ASSUME StealReadOld(p)
      PROVE  g.pc = "bottom" /\ g.d = h.d /\ g.t = h.t /\ g.old = active[h.d]
  <2>1. g = [h EXCEPT !.pc = "bottom", !.old = active[h.d]]
    BY <1>g, <1>2 DEF StealReadOld
  <2> QED BY <1>h, <2>1 DEF ThiefType
<1>3. ASSUME StealReadBottom(p)
      PROVE  /\ h.pc = "bottom" /\ g.pc = "array" /\ g.d = h.d /\ g.t = h.t /\ g.old = h.old
             /\ g.b = bottom[h.d]
  <2>1. g = [h EXCEPT !.pc = "array", !.b = bottom[h.d]] /\ h.pc = "bottom"
    BY <1>g, <1>3 DEF StealReadBottom, ThiefAt
  <2> QED BY <1>h, <2>1 DEF ThiefType
<1>4. ASSUME StealReadArray(p), g.pc # "idle"
      PROVE  /\ h.pc = "array" /\ g.pc \in {"recheck", "slot"}
             /\ g.d = h.d /\ g.t = h.t /\ g.old = h.old /\ g.b = h.b /\ g.a = active[h.d]
             /\ h.b - h.t > 0
             /\ g.pc = "recheck" => Ambiguous(h.b - h.t, active[h.d])
  <2> DEFINE k == [h EXCEPT !.a = active[h.d]]
  <2>1. k.a = active[h.d] /\ k.b = h.b /\ k.d = h.d /\ k.t = h.t /\ k.old = h.old
    BY <1>h DEF ThiefType
  <2>2. \A c : LET l == [k EXCEPT !.pc = c] IN
          l.pc = c /\ l.a = k.a /\ l.d = k.d /\ l.t = k.t /\ l.old = k.old /\ l.b = k.b
    BY <1>h DEF ThiefType
  <2>3. h.pc = "array"
    BY <1>4 DEF StealReadArray, ThiefAt
  <2>4. ~StealReturns(p, "EMPTY")
    BY <1>g, <1>4 DEF StealReturns, IdleThief
  <2>5. /\ k.b - k.t > 0
        /\ \/ Ambiguous(k.b - k.t, k.a) /\ ThiefGoes(p, [k EXCEPT !.pc = "recheck"])
           \/ ThiefGoes(p, [k EXCEPT !.pc = "slot"])
    BY <1>4, <2>4 DEF StealReadArray
  <2> HIDE DEF k
  <2>6. CASE Ambiguous(k.b - k.t, k.a) /\ ThiefGoes(p, [k EXCEPT !.pc = "recheck"])
    <3>1. g = [k EXCEPT !.pc = "recheck"]
      BY <1>g, <2>6
    <3> QED BY <2>1, <2>2, <2>3, <2>5, <2>6, <3>1
  <2>7. CASE ThiefGoes(p, [k EXCEPT !.pc = "slot"])
    <3>1. g = [k EXCEPT !.pc = "slot"]
      BY <1>g, <2>7
    <3> QED BY <2>1, <2>2, <2>3, <2>5, <3>1
  <2> QED BY <2>5, <2>6, <2>7
<1>5. ASSUME StealReadSlot(p)
      PROVE  /\ h.pc = "slot" /\ g.pc = "cas"
             /\ g.d = h.d /\ g.t = h.t /\ g.old = h.old /\ g.a = h.a
  <2>1. g = [h EXCEPT !.pc = "cas", !.x = Load(h.a, h.t)] /\ h.pc = "slot"
    BY <1>g, <1>5 DEF StealReadSlot, ThiefAt
  <2> QED BY <1>h, <2>1 DEF ThiefType
<1> QED BY <1>1, <1>2, <1>3, <1>4, <1>5

\* What the steps that return say, and why.
LEMMA CallResults ==
  ASSUME TypeOK, NEW p \in Thief, ThiefStep(p), thief[p].pc # "idle", thief'[p].pc = "idle"
  PROVE  LET h == thief[p]
             result == thief'[p].res
         IN
         \/ h.pc = "array" /\ h.b - h.t <= 0 /\ result = "EMPTY"
         \/ h.pc = "recheck" /\ SnapshotsAgree(h) /\ result = "EMPTY"
         \/ h.pc = "recheck" /\ ~SnapshotsAgree(h) /\ result = "ABORT"
         \/ h.pc = "cas" /\ h.t = top[h.d] /\ result = "SUCCESS"
         \/ h.pc = "cas" /\ h.t # top[h.d] /\ result = "ABORT"
<1> DEFINE h == thief[p]
<1>h. h \in ThiefType
  BY DEF TypeOK
<1>r. \A result : StealReturns(p, result) => thief'[p].res = result
  BY ThiefGoesFacts DEF StealReturns, IdleThief
<1>1. CASE StealReadArray(p)
  <2> DEFINE k == [h EXCEPT !.a = active[h.d]]
  <2>1. k.b = h.b /\ k.t = h.t /\ h.pc = "array"
    BY <1>h, <1>1 DEF ThiefType, StealReadArray, ThiefAt
  <2>2. \A c \in {"recheck", "slot"} : ~ThiefGoes(p, [k EXCEPT !.pc = c])
    <3>1. \A c : [k EXCEPT !.pc = c].pc = c
      BY <1>h DEF ThiefType
    <3> QED BY <3>1, ThiefGoesFacts
  <2>3. k.b - k.t <= 0 /\ StealReturns(p, "EMPTY")
    BY <1>1, <2>2 DEF StealReadArray
  <2> QED BY <1>r, <2>1, <2>3
<1>2. CASE StealRecheck(p)
  BY <1>r, <1>2 DEF StealRecheck, ThiefAt
<1>3. CASE StealCas(p)
  BY <1>r, <1>3 DEF StealCas, ThiefAt, CasTop, CasTopFails
<1> QED BY <1>1, <1>2, <1>3, CallLocals DEF ThiefStep, StealReadTop, ThiefAt

-----------------------------------------------------------------------------
(* What a step leaves alone.                                               *)

\* An owner's step touches only its own deque, and no thief.
LEMMA OwnerStepFrame ==
  ASSUME TypeOK, NEW d \in Deque, OwnerStep(d)
  PROVE  /\ UNCHANGED thief
         /\ \A e \in Deque \ {d} :
              /\ owner'[e] = owner[e] /\ active'[e] = active[e]
              /\ top'[e] = top[e] /\ bottom'[e] = bottom[e] /\ cachedTop'[e] = cachedTop[e]
<1> USE OwnerGoesFacts DEF indexVars, OwnerReturns
<1>1. CASE LifeStep(d)
  BY <1>1 DEF LifeStep, Construct, ConstructClaim, ConstructScan, ConstructFails, Destroy,
     DestroyRelease, TypeOK
<1>2. CASE PushStep(d)
  BY <1>2 DEF PushStep, TryPush, PushReadTop, GrowClaim, GrowScan, PushFails, GrowCopy,
     GrowPublish, PushSlot, PushBottom, TypeOK
<1>3. CASE PopStep(d)
  BY <1>3 DEF PopStep, Pop, PopReadTop, PopRestore, PopCas, PopSettle, CasTop, CasTopFails, TypeOK
<1>4. CASE ShrinkStep(d)
  BY <1>4 DEF ShrinkStep, ShrinkWalk, ShrinkStart, ShrinkCopy, ShrinkPublish, ShrinkShift,
     ShrinkReadTop, ShrinkCas, ShrinkRestore, ShrinkRelease, CasTop, CasTopFails, TypeOK
<1> QED BY <1>1, <1>2, <1>3, <1>4 DEF OwnerStep

\* A thief's step changes its own locals and at most one top_.
LEMMA ThiefStepFrame ==
  ASSUME TypeOK, NEW p \in Thief, ThiefStep(p)
  PROVE  /\ UNCHANGED <<poolVars, owner, active, bottom, cachedTop>>
         /\ \A q \in Thief \ {p} : thief'[q] = thief[q]
BY ThiefGoesFacts
   DEF ThiefStep, StealReadTop, StealReadOld, StealReadBottom, StealReadArray, StealRecheck,
       StealReadSlot, StealCas, StealReturns, indexVars

\* The root of a chain depends on two variables only.
LEMMA RootFrame ==
  ASSUME NEW d, owner'[d] = owner[d], active'[d] = active[d]
  PROVE  Root(d)' = Root(d)
BY DEF Root
-----------------------------------------------------------------------------
(* The two ways a record changes hands.                                    *)

\* The links, the flags and the roots are what RecordsAccounted depends on.
LEMMA SameChains ==
  ASSUME RecordsAccounted, UNCHANGED state,
         \A r \in Record : buf'[r].prev = buf[r].prev,
         \A d \in Deque : Root(d)' = Root(d)
  PROVE  RecordsAccounted'
BY DEF RecordsAccounted, OwnedRecords

\* An available record becomes the root, in front of the previous one.
LEMMA ClaimAccounted ==
  ASSUME RecordsAccounted, TypeOK, NEW d \in Deque, NEW r \in Record, Claim(r, Root(d)),
         Root(d)' = r,
         \A e \in Deque \ {d} : Root(e)' = Root(e)
  PROVE  RecordsAccounted'
<1>1. r \notin OwnedRecords /\ OwnedRecords' = OwnedRecords \cup {r}
  BY DEF Claim, OwnedRecords, TypeOK, PoolTypeOK, Available, Owned
<1>2. buf'[r].prev = Root(d) /\ \A s \in Record \ {r} : buf'[s].prev = buf[s].prev
  BY DEF Claim, ResetAndLink, TypeOK, PoolTypeOK, BufferTypeOK, Buffer
<1>3. r # NoRecord /\ OwnedRecords \subseteq Record
  BY RecordFacts DEF OwnedRecords
<1> QED BY <1>1, <1>2, <1>3 DEF RecordsAccounted

\* The root is given back, and the next array becomes the root.
LEMMA ReleaseAccounted ==
  ASSUME RecordsAccounted, TypeOK, NEW d \in Deque, NEW r \in Record, r = Root(d), Release(r),
         Root(d)' = buf[r].prev,
         \A e \in Deque \ {d} : Root(e)' = Root(e)
  PROVE  RecordsAccounted'
<1>1. r \in OwnedRecords /\ OwnedRecords' = OwnedRecords \ {r}
  BY DEF RecordsAccounted, Release, OwnedRecords, TypeOK, PoolTypeOK, Available, Owned
<1>2. \A s \in Record \ {r} : buf'[s].prev = buf[s].prev
  BY DEF Release, TypeOK, PoolTypeOK, BufferTypeOK, Buffer
<1>3. r # NoRecord /\ OwnedRecords \subseteq Record
  BY RecordFacts DEF OwnedRecords
<1> QED BY <1>1, <1>2, <1>3 DEF RecordsAccounted
-----------------------------------------------------------------------------
(* The steps that claim or release a record, and the others.               *)

LinkSteps(d) == ConstructClaim(d) \/ DestroyRelease(d) \/ GrowClaim(d) \/ ShrinkRelease(d)

\* A store into a slot changes no link of a chain.
LEMMA StoreLinks ==
  ASSUME BufferTypeOK, NEW r \in Record,
         \/ \E i, v : StoreNoMark(r, i, v)
         \/ \E i, v : Store(r, i, v)
         \/ \E m : LowerMark(r, m)
  PROVE  \A s \in Record : buf'[s].prev = buf[s].prev
<1>1. CASE \E i, v : StoreNoMark(r, i, v)
  BY <1>1 DEF BufferTypeOK, Buffer, StoreNoMark
<1>2. CASE \E i, v : Store(r, i, v)
  <2>1. PICK i, v : Store(r, i, v)
    BY <1>2
  <2>2. PICK slots, low : buf' = [buf EXCEPT ![r].slots = slots, ![r].low = low]
    BY <2>1, Zenon DEF Store
  <2> QED BY <2>2 DEF BufferTypeOK, Buffer
<1>3. CASE \E m : LowerMark(r, m)
  BY <1>3 DEF BufferTypeOK, Buffer, LowerMark
<1> QED BY <1>1, <1>2, <1>3

\* Where the root is, at each program counter.
LEMMA RootCases ==
  ASSUME NEW d
  PROVE  LET pc == owner[d].pc IN
         /\ pc \in {"none", "construct"} => Root(d) = NoRecord
         /\ pc \in {"growCopy", "destroy"} => Root(d) = owner[d].dst
         /\ pc \in {"shrinkShift", "shrinkTop", "shrinkCas", "shrinkRestore", "shrinkRelease"} =>
              Root(d) = owner[d].a
         /\ pc \in {"idle", "pushTop", "grow", "pushSlot", "pushBottom", "popTop", "popRestore",
                    "popCas", "popWon", "popLost"} \cup CopyPC =>
              Root(d) = active[d]
BY DEF Root, CopyPC

\* The same for the root after a step.
LEMMA RootCasesNext ==
  ASSUME NEW d
  PROVE  LET pc == owner'[d].pc IN
         /\ pc \in {"none", "construct"} => Root(d)' = NoRecord
         /\ pc \in {"growCopy", "destroy"} => Root(d)' = owner'[d].dst
         /\ pc \in {"shrinkShift", "shrinkTop", "shrinkCas", "shrinkRestore", "shrinkRelease"} =>
              Root(d)' = owner'[d].a
         /\ pc \in {"idle", "pushTop", "grow", "pushSlot", "pushBottom", "popTop", "popRestore",
                    "popCas", "popWon", "popLost"} \cup CopyPC =>
              Root(d)' = active'[d]
BY DEF Root, CopyPC

\* Copies, stores and marks change no link and no flag.
LEMMA QuietLinks ==
  ASSUME StructureInv, NEW d \in Deque, OwnerStep(d), ~LinkSteps(d)
  PROVE  UNCHANGED state /\ \A r \in Record : buf'[r].prev = buf[r].prev
<1> DEFINE o == owner[d]
<1>t. TypeOK /\ BufferTypeOK
  BY DEF StructureInv, TypeOK, PoolTypeOK
<1>p. OwnerPointers(d) /\ ShrinkChain(d)
  BY DEF StructureInv
<1>a. o.pc \in PushPC => o.a \in Record
  BY <1>p DEF OwnerPointers, PushPC
<1>c. o.pc \in ShrinkPC => o.dst \in Record
  BY <1>p DEF ShrinkChain, Discarded, OwnedRecords
<1>1. CASE GrowCopy(d)
  <2>1. o.dst \in Record
    BY <1>1, <1>p DEF GrowCopy, OwnerPointers, OwnerAt
  <2>2. \E i, v : StoreNoMark(o.dst, i, v)
    BY <1>1 DEF GrowCopy
  <2> QED BY <1>t, <1>1, <2>1, <2>2, StoreLinks DEF GrowCopy
<1>2. CASE PushSlot(d)
  <2>1. o.a \in Record
    BY <1>2, <1>a DEF PushSlot, PushPC, OwnerAt
  <2>2. \E i, v : Store(o.a, i, v)
    BY <1>2 DEF PushSlot
  <2> QED BY <1>t, <1>2, <2>1, <2>2, StoreLinks DEF PushSlot
<1>3. CASE ShrinkStart(d)
  <2>1. o.dst \in Record
    BY <1>3, <1>c DEF ShrinkStart, ShrinkPC, CopyPC, OwnerAt
  <2>2. \E m : LowerMark(o.dst, m)
    BY <1>3 DEF ShrinkStart
  <2> QED BY <1>t, <1>3, <2>1, <2>2, StoreLinks DEF ShrinkStart
<1>4. CASE ShrinkCopy(d)
  <2>1. o.dst \in Record
    BY <1>4, <1>c DEF ShrinkCopy, ShrinkPC, CopyPC, OwnerAt
  <2>2. \E i, v : StoreNoMark(o.dst, i, v)
    BY <1>4 DEF ShrinkCopy
  <2> QED BY <1>t, <1>4, <2>1, <2>2, StoreLinks DEF ShrinkCopy
<1>5. SUFFICES ASSUME ~GrowCopy(d), ~PushSlot(d), ~ShrinkStart(d), ~ShrinkCopy(d)
               PROVE  UNCHANGED poolVars
  BY <1>1, <1>2, <1>3, <1>4 DEF poolVars
<1>6. CASE LifeStep(d)
  BY <1>6 DEF LifeStep, LinkSteps, Construct, ConstructScan, ClaimFails, ConstructFails, Destroy
<1>7. CASE PushStep(d)
  BY <1>5, <1>7 DEF PushStep, LinkSteps, TryPush, PushReadTop, GrowScan, ClaimFails, PushFails,
     GrowPublish, PushBottom
<1>8. CASE PopStep(d)
  BY <1>8 DEF PopStep, Pop, PopReadTop, PopRestore, PopCas, PopSettle
<1>9. CASE ShrinkStep(d)
  BY <1>5, <1>9 DEF ShrinkStep, LinkSteps, ShrinkWalk, ShrinkPublish, ShrinkShift, ShrinkReadTop,
     ShrinkCas, ShrinkRestore
<1> QED BY <1>6, <1>7, <1>8, <1>9 DEF OwnerStep

\* The root stays when the active array is switched: it was already the new
\* array of a growth, and is still the old one of a shrink.
LEMMA QuietRoot ==
  ASSUME StructureInv, NEW d \in Deque, OwnerStep(d), ~LinkSteps(d)
  PROVE  Root(d)' = Root(d)
<1>t. TypeOK
  BY DEF StructureInv
<1>p. OwnerPointers(d)
  BY DEF StructureInv
<1> USE <1>t, RootCases, RootCasesNext DEF SameArray, CopyPC
<1>1. CASE LifeStep(d)
  BY <1>1, ConstructEffect, ConstructScanEffect, ConstructFailsEffect, DestroyEffect
     DEF LifeStep, LinkSteps
<1>2. CASE PushStep(d)
  <2>1. CASE TryPush(d)
    BY <2>1, TryPushEffect
  <2>2. CASE PushReadTop(d)
    BY <2>2, PushReadTopEffect
  <2>3. CASE GrowScan(d)
    BY <2>3, GrowScanEffect
  <2>4. CASE PushFails(d)
    BY <2>4, PushFailsEffect
  <2>5. CASE GrowCopy(d)
    BY <2>5, GrowCopyEffect
  <2>6. CASE GrowPublish(d)
    BY <2>6, GrowPublishEffect
  <2>7. CASE PushSlot(d)
    BY <2>7, PushSlotEffect
  <2>8. CASE PushBottom(d)
    BY <2>8, PushBottomEffect
  <2> QED BY <1>2, <2>1, <2>2, <2>3, <2>4, <2>5, <2>6, <2>7, <2>8 DEF PushStep, LinkSteps
<1>3. CASE PopStep(d)
  <2>1. CASE Pop(d)
    BY <2>1, PopEffect
  <2>2. CASE PopReadTop(d)
    BY <2>2, PopReadTopEffect
  <2>3. CASE PopRestore(d)
    BY <2>3, PopRestoreEffect
  <2>4. CASE PopCas(d)
    BY <2>4, PopCasEffect
  <2>5. CASE PopSettle(d)
    BY <2>5, PopSettleEffect
  <2> QED BY <1>3, <2>1, <2>2, <2>3, <2>4, <2>5 DEF PopStep
<1>4. CASE ShrinkStep(d)
  <2>1. CASE ShrinkWalk(d)
    BY <2>1, ShrinkWalkEffect
  <2>2. CASE ShrinkStart(d)
    BY <2>2, ShrinkStartEffect
  <2>3. CASE ShrinkCopy(d)
    BY <2>3, ShrinkCopyEffect
  <2>4. CASE ShrinkPublish(d)
    BY <1>p, <2>4, ShrinkPublishEffect DEF OwnerPointers
  <2>5. CASE ShrinkShift(d)
    BY <2>5, ShrinkShiftEffect
  <2>6. CASE ShrinkReadTop(d)
    BY <2>6, ShrinkReadTopEffect
  <2>7. CASE ShrinkCas(d)
    BY <2>7, ShrinkCasEffect
  <2>8. CASE ShrinkRestore(d)
    BY <2>8, ShrinkRestoreEffect
  <2> QED BY <1>4, <2>1, <2>2, <2>3, <2>4, <2>5, <2>6, <2>7, <2>8 DEF ShrinkStep, LinkSteps
<1> QED BY <1>1, <1>2, <1>3, <1>4 DEF OwnerStep
-----------------------------------------------------------------------------
(* Every owner's step keeps the chains apart.                              *)

\* A root whose owner is past its constructor is an owned record.
LEMMA RootOwned ==
  ASSUME RecordsAccounted, NEW d \in Deque, Root(d) \in Record
  PROVE  Root(d) \in OwnedRecords
BY DEF RecordsAccounted

\* A claim links the claimed record and no other,
LEMMA ClaimLinks ==
  ASSUME PoolTypeOK, NEW r \in Record, NEW q, Claim(r, q)
  PROVE  /\ r \notin OwnedRecords /\ OwnedRecords' = OwnedRecords \cup {r}
         /\ buf'[r].prev = q /\ \A s \in Record \ {r} : buf'[s].prev = buf[s].prev
BY DEF Claim, ResetAndLink, OwnedRecords, PoolTypeOK, BufferTypeOK, Buffer, Available, Owned

\* and a return unlinks the returned one.
LEMMA ReleaseLinks ==
  ASSUME PoolTypeOK, NEW r \in Record, Release(r)
  PROVE  /\ OwnedRecords' = OwnedRecords \ {r}
         /\ buf'[r].prev = NoRecord /\ \A s \in Record \ {r} : buf'[s].prev = buf[s].prev
BY DEF Release, OwnedRecords, PoolTypeOK, BufferTypeOK, Buffer, Available, Owned

\* Each of the four steps that move a record between the pool and a chain
\* moves the root of one chain.
LEMMA LinkCases ==
  ASSUME StructureInv, NEW d \in Deque, LinkSteps(d)
  PROVE  \E r \in Record :
           \/ /\ Claim(r, Root(d)) /\ Root(d)' = r
              /\ Root(d) # NoRecord => Capacity[r] = 2 * Capacity[Root(d)]
           \/ Root(d) = r /\ Release(r) /\ Root(d)' = buf[r].prev
<1> DEFINE o == owner[d]
<1>t. TypeOK /\ PoolTypeOK
  BY DEF StructureInv, TypeOK
<1>0. o \in OwnerType
  BY <1>t DEF TypeOK
<1>p. OwnerPointers(d) /\ ShrinkChain(d)
  BY DEF StructureInv
<1>1. CASE ConstructClaim(d)
  <2>1. PICK r \in o.left : active'[d] = r /\ Claim(r, NoRecord)
    BY <1>t, <1>1, ConstructClaimEffect
  <2>2. r \in Record
    BY <1>0, <2>1 DEF OwnerType
  <2>3. Root(d) = NoRecord /\ Root(d)' = r
    BY <1>t, <1>1, <2>1, ConstructClaimEffect, RootCases, RootCasesNext
  <2> QED BY <2>1, <2>2, <2>3
<1>2. CASE GrowClaim(d)
  <2> DEFINE r == owner'[d].dst
  <2>1. /\ o.pc = "grow" /\ owner'[d].pc = "growCopy"
        /\ r \in o.left /\ Claim(r, o.a)
    BY <1>t, <1>2, GrowClaimEffect
  <2>2. o.a = active[d] /\ Root(d) = active[d] /\ Root(d)' = r
    BY <1>p, <2>1, RootCases, RootCasesNext DEF OwnerPointers, PushPC
  <2>3. r \in Record /\ Capacity[r] = 2 * Capacity[active[d]]
    BY <1>p, <2>1 DEF OwnerPointers, SizeClass
  <2> QED BY <2>1, <2>2, <2>3
<1>3. CASE DestroyRelease(d)
  <2>1. o.pc = "destroy" /\ Release(o.dst)
    BY <1>t, <1>3, DestroyReleaseEffect
  <2>2. Root(d) = o.dst /\ o.dst \in Record
    BY <1>p, <2>1, RootCases DEF OwnerPointers
  <2>3. Root(d)' = buf[o.dst].prev
    BY <1>t, <1>3, DestroyReleaseEffect, RootCasesNext
  <2> QED BY <2>1, <2>2, <2>3
<1>4. CASE ShrinkRelease(d)
  <2>1. o.pc = "shrinkRelease" /\ Release(o.a)
    BY <1>t, <1>4, ShrinkReleaseEffect
  <2>2. Root(d) = o.a /\ o.a \in Record /\ o.dst = active[d]
    BY <1>p, <2>1, RootCases DEF OwnerPointers, ShrinkChain, Discarded, OwnedRecords
  <2>3. Root(d)' = buf[o.a].prev
    BY <1>t, <1>4, <2>2, ShrinkReleaseEffect, RootCasesNext DEF SameArray
  <2> QED BY <2>1, <2>2, <2>3
<1> QED BY <1>1, <1>2, <1>3, <1>4 DEF LinkSteps

\* Every step of an owner keeps each record in one place of one chain.
LEMMA OwnerStepAccounted ==
  ASSUME StructureInv, NEW d \in Deque, OwnerStep(d)
  PROVE  RecordsAccounted' /\ ChainHalves'
<1>t. TypeOK /\ PoolTypeOK /\ RecordsAccounted /\ ChainHalves
  BY DEF StructureInv, TypeOK
<1>e. \A e \in Deque \ {d} : Root(e)' = Root(e)
  BY <1>t, OwnerStepFrame, RootFrame
<1>1. CASE ~LinkSteps(d)
  <2>1. /\ UNCHANGED state
        /\ \A r \in Record : buf'[r].prev = buf[r].prev
        /\ Root(d)' = Root(d)
    BY <1>1, QuietLinks, QuietRoot
  <2>2. RecordsAccounted'
    BY <1>t, <1>e, <2>1, SameChains
  <2>3. ChainHalves'
    BY <1>t, <2>1 DEF ChainHalves
  <2> QED BY <2>2, <2>3
<1>2. CASE LinkSteps(d)
  <2>1. PICK r \in Record :
           \/ /\ Claim(r, Root(d)) /\ Root(d)' = r
              /\ Root(d) # NoRecord => Capacity[r] = 2 * Capacity[Root(d)]
           \/ Root(d) = r /\ Release(r) /\ Root(d)' = buf[r].prev
    BY <1>2, LinkCases
  <2>2. CASE /\ Claim(r, Root(d)) /\ Root(d)' = r
             /\ Root(d) # NoRecord => Capacity[r] = 2 * Capacity[Root(d)]
    <3>1. RecordsAccounted'
      BY <1>t, <1>e, <2>2, ClaimAccounted
    <3>2. ChainHalves'
      BY <1>t, <2>2, ClaimLinks DEF ChainHalves
    <3> QED BY <3>1, <3>2
  <2>3. CASE Root(d) = r /\ Release(r) /\ Root(d)' = buf[r].prev
    <3>1. RecordsAccounted'
      BY <1>t, <1>e, <2>3, ReleaseAccounted
    <3>2. ChainHalves'
      BY <1>t, <2>3, ReleaseLinks DEF ChainHalves
    <3> QED BY <3>1, <3>2
  <2> QED BY <2>1, <2>2, <2>3
<1> QED BY <1>1, <1>2
-----------------------------------------------------------------------------
(* The pointers an owner is about to follow.                               *)

LEMMA OwnerPointersNext ==
  ASSUME StructureInv, NEW d \in Deque, OwnerStep(d)
  PROVE  OwnerPointers(d)'
<1> DEFINE o == owner[d]
<1>t. TypeOK
  BY DEF StructureInv
<1>0. o \in OwnerType /\ active[d] \in Record \cup {NoRecord}
  BY <1>t DEF TypeOK
<1>p. OwnerPointers(d) /\ ShrinkChain(d)
  BY DEF StructureInv
<1>c. o.pc \in ShrinkPC \cup {"shrinkRelease"} => o.dst \in Record
  BY <1>p DEF ShrinkChain, Discarded, OwnedRecords
<1> USE <1>t, <1>p DEF OwnerPointers, SameArray, PushPC, CopyPC
<1>1. CASE LifeStep(d)
  <2>1. CASE Construct(d)
    BY <2>1, ConstructEffect
  <2>2. CASE ConstructClaim(d)
    BY <1>0, <2>2, ConstructClaimEffect DEF OwnerType
  <2>3. CASE ConstructScan(d)
    BY <2>3, ConstructScanEffect
  <2>4. CASE ConstructFails(d)
    BY <2>4, ConstructFailsEffect
  <2>5. CASE Destroy(d)
    BY <2>5, DestroyEffect
  <2>6. CASE DestroyRelease(d)
    <3>1. buf[o.dst].prev \in Record \cup {NoRecord}
      BY <2>6, DestroyReleaseEffect DEF TypeOK, PoolTypeOK, BufferTypeOK, Buffer
    <3> QED BY <2>6, <3>1, DestroyReleaseEffect
  <2> QED BY <1>1, <2>1, <2>2, <2>3, <2>4, <2>5, <2>6 DEF LifeStep
<1>2. CASE PushStep(d)
  <2>1. CASE TryPush(d)
    BY <2>1, TryPushEffect
  <2>2. CASE PushReadTop(d)
    BY <2>2, PushReadTopEffect
  <2>3. CASE GrowClaim(d)
    BY <2>3, GrowClaimEffect DEF SizeClass
  <2>4. CASE GrowScan(d)
    BY <2>4, GrowScanEffect
  <2>5. CASE PushFails(d)
    BY <2>5, PushFailsEffect
  <2>6. CASE GrowCopy(d)
    BY <2>6, GrowCopyEffect
  <2>7. CASE GrowPublish(d)
    BY <2>7, GrowPublishEffect
  <2>8. CASE PushSlot(d)
    BY <2>8, PushSlotEffect
  <2>9. CASE PushBottom(d)
    BY <2>9, PushBottomEffect
  <2> QED BY <1>2, <2>1, <2>2, <2>3, <2>4, <2>5, <2>6, <2>7, <2>8, <2>9 DEF PushStep
<1>3. CASE PopStep(d)
  <2>1. CASE Pop(d)
    BY <2>1, PopEffect
  <2>2. CASE PopReadTop(d)
    BY <2>2, PopReadTopEffect
  <2>3. CASE PopRestore(d)
    BY <2>3, PopRestoreEffect
  <2>4. CASE PopCas(d)
    BY <2>4, PopCasEffect
  <2>5. CASE PopSettle(d)
    BY <2>5, PopSettleEffect
  <2> QED BY <1>3, <2>1, <2>2, <2>3, <2>4, <2>5 DEF PopStep
<1>4. CASE ShrinkStep(d)
  <2>1. CASE ShrinkWalk(d)
    BY <2>1, ShrinkWalkEffect
  <2>2. CASE ShrinkStart(d)
    BY <2>2, ShrinkStartEffect
  <2>3. CASE ShrinkCopy(d)
    BY <2>3, ShrinkCopyEffect
  <2>4. CASE ShrinkPublish(d)
    BY <1>c, <2>4, ShrinkPublishEffect DEF ShrinkPC
  <2>5. CASE ShrinkShift(d)
    BY <2>5, ShrinkShiftEffect
  <2>6. CASE ShrinkReadTop(d)
    BY <2>6, ShrinkReadTopEffect
  <2>7. CASE ShrinkCas(d)
    BY <2>7, ShrinkCasEffect
  <2>8. CASE ShrinkRestore(d)
    BY <2>8, ShrinkRestoreEffect
  <2>9. CASE ShrinkRelease(d)
    BY <2>9, ShrinkReleaseEffect
  <2> QED BY <1>4, <2>1, <2>2, <2>3, <2>4, <2>5, <2>6, <2>7, <2>8, <2>9 DEF ShrinkStep
<1> QED BY <1>1, <1>2, <1>3, <1>4 DEF OwnerStep
-----------------------------------------------------------------------------
(* The arrays that a shrink discards.                                      *)

\* A shrink's chain stays while its links and its ends stay.
LEMMA DiscardedFrame ==
  ASSUME NEW d, NEW arrays, Discarded(d, arrays),
         owner'[d].a = owner[d].a, owner'[d].dst = owner[d].dst,
         owner[d].dst \in OwnedRecords',
         \A s \in arrays : buf'[s].prev = buf[s].prev
  PROVE  Discarded(d, arrays)'
BY DEF Discarded

\* The first array that a shrink can skip, and the next one.
LEMMA ShrinkChainExtends ==
  ASSUME StructureInv, NEW d \in Deque, NEW arrays \in SUBSET OwnedRecords,
         NEW r \in OwnedRecords, buf[r].prev # NoRecord,
         \/ arrays = {r} /\ owner'[d].a = r
         \/ /\ owner'[d].a = owner[d].a /\ owner[d].dst = r /\ r \in arrays
            /\ Discarded(d, arrays \ {r}),
         owner'[d].dst = buf[r].prev,
         UNCHANGED poolVars
  PROVE  Discarded(d, arrays)'
<1> DEFINE next == buf[r].prev
<1>1. next \in OwnedRecords /\ Capacity[r] = 2 * Capacity[next]
  <2>1. r \in Record /\ next \in Record
    BY DEF StructureInv, TypeOK, PoolTypeOK, BufferTypeOK, Buffer, OwnedRecords
  <2> QED BY <2>1 DEF StructureInv, ChainHalves, RecordsAccounted
<1>2. Capacity[r] > Capacity[next]
  <2>1. Capacity[next] \in Nat \ {0}
    BY <1>1, RecordFacts DEF OwnedRecords
  <2> QED BY <1>1, <2>1
<1>3. OwnedRecords' = OwnedRecords /\ buf' = buf
  BY DEF OwnedRecords, poolVars
<1>4. CASE arrays = {r} /\ owner'[d].a = r
  BY <1>1, <1>2, <1>3, <1>4 DEF Discarded
<1>5. CASE /\ owner'[d].a = owner[d].a /\ owner[d].dst = r /\ r \in arrays
           /\ Discarded(d, arrays \ {r})
  <2>1. \A s \in arrays : Capacity[s] > Capacity[next] /\ buf[s].prev \in arrays \cup {next}
    <3>1. \A s \in arrays \ {r} : Capacity[s] > Capacity[r] /\ buf[s].prev \in arrays
      BY <1>5 DEF Discarded
    <3>2. \A s \in arrays \cup {next} : Capacity[s] \in Nat
      BY <1>1, RecordFacts DEF OwnedRecords
    <3> QED BY <1>2, <1>5, <3>1, <3>2
  <2>2. \A s \in arrays \cup {next} : s = owner[d].a \/ \E q \in arrays : buf[q].prev = s
    BY <1>5 DEF Discarded
  <2>3. owner[d].a \in arrays
    BY <1>5 DEF Discarded
  <2> QED BY <1>1, <1>3, <1>5, <2>1, <2>2, <2>3 DEF Discarded
<1> QED BY <1>4, <1>5

\* The array at the active end is released, and the next one is that end.
LEMMA ShrinkChainReleases ==
  ASSUME StructureInv, NEW d \in Deque, NEW arrays \in SUBSET OwnedRecords, Discarded(d, arrays),
         NEW rest, rest = arrays \ {owner[d].a},
         Root(d) = owner[d].a, Release(owner[d].a),
         buf[owner[d].a].prev # owner[d].dst,
         owner'[d].a = buf[owner[d].a].prev, owner'[d].dst = owner[d].dst
  PROVE  Discarded(d, rest)' /\ rest \in SUBSET OwnedRecords'
<1> DEFINE o == owner[d]
<1>1. o.a \in Record /\ PoolTypeOK /\ RecordsAccounted /\ OwnedRecords \subseteq Record
  BY DEF StructureInv, TypeOK, Discarded, OwnedRecords
<1>2. /\ OwnedRecords' = OwnedRecords \ {o.a}
      /\ \A s \in rest : buf'[s].prev = buf[s].prev
  BY <1>1, ReleaseLinks
<1>3. \A s \in OwnedRecords : buf[s].prev # o.a
  BY <1>1, RecordFacts DEF RecordsAccounted
<1>4. o.dst # o.a
  <2>1. o.dst \in Record /\ Capacity[o.a] > Capacity[o.dst]
    BY <1>1 DEF Discarded
  <2>2. Capacity[o.dst] \in Nat
    BY <2>1, RecordFacts
  <2> QED BY <2>1, <2>2
<1>5. buf[o.a].prev \in rest
  BY <1>1, <1>3 DEF Discarded
<1>6. o.dst \in OwnedRecords'
  BY <1>2, <1>4 DEF Discarded
<1>7. \A s \in rest : Capacity[s] > Capacity[o.dst] /\ buf[s].prev \in rest \cup {o.dst}
  BY <1>3 DEF Discarded
<1>8. \A s \in rest \cup {o.dst} : s = buf[o.a].prev \/ \E q \in rest : buf[q].prev = s
  BY <1>4 DEF Discarded
<1>9. Discarded(d, rest)'
  BY <1>2, <1>5, <1>6, <1>7, <1>8 DEF Discarded
<1> QED BY <1>2, <1>9

\* The steps of a shrink that change neither links, nor flags, nor its ends.
LEMMA ShrinkChainStays ==
  ASSUME StructureInv, NEW d \in Deque, OwnerStep(d), ~LinkSteps(d),
         owner[d].pc \in ShrinkPC \cup {"shrinkRelease"},
         owner'[d].a = owner[d].a, owner'[d].dst = owner[d].dst
  PROVE  ShrinkChain(d)'
<1>1. PICK arrays \in SUBSET OwnedRecords : Discarded(d, arrays)
  BY DEF StructureInv, ShrinkChain
<1>2. OwnedRecords' = OwnedRecords /\ \A s \in OwnedRecords : buf'[s].prev = buf[s].prev
  BY QuietLinks DEF OwnedRecords
<1>3. Discarded(d, arrays)'
  BY <1>1, <1>2, DiscardedFrame DEF Discarded
<1> QED BY <1>1, <1>2, <1>3 DEF ShrinkChain

\* The owner's own steps keep the arrays that its shrink will discard.
LEMMA ShrinkChainNext ==
  ASSUME StructureInv, NEW d \in Deque, OwnerStep(d)
  PROVE  ShrinkChain(d)'
<1> DEFINE o == owner[d]
<1>t. TypeOK /\ PoolTypeOK /\ RecordsAccounted
  BY DEF StructureInv, TypeOK
<1>p. OwnerPointers(d) /\ ShrinkChain(d)
  BY DEF StructureInv
<1> USE <1>t DEF ShrinkPC, CopyPC
<1>1. CASE LifeStep(d)
  BY <1>1, ConstructEffect, ConstructClaimEffect, ConstructScanEffect, ConstructFailsEffect,
     DestroyEffect, DestroyReleaseEffect DEF LifeStep, ShrinkChain
<1>2. CASE PushStep(d)
  BY <1>2, TryPushEffect, PushReadTopEffect, GrowClaimEffect, GrowScanEffect, PushFailsEffect,
     GrowCopyEffect, GrowPublishEffect, PushSlotEffect, PushBottomEffect
     DEF PushStep, ShrinkChain
<1>3. CASE PopStep(d)
  <2>1. CASE PopReadTop(d) /\ owner'[d].pc = "shrinkWalk"
    <3>1. /\ o.pc = "popTop" /\ CanShrink(d, o.a, o.b, top[d])
          /\ owner'[d].a = o.a /\ owner'[d].dst = buf[o.a].prev
      BY <2>1, PopReadTopEffect
    <3>2. o.a \in OwnedRecords
      BY <1>p, <3>1, RootCases, RootOwned DEF OwnerPointers
    <3>3. UNCHANGED poolVars /\ buf[o.a].prev # NoRecord
      BY <2>1, <3>1 DEF PopReadTop, CanShrink
    <3>4. Discarded(d, {o.a})'
      <4>1. \A r : r = o.a => Discarded(d, {r})'
        BY <3>1, <3>2, <3>3, ShrinkChainExtends
      <4>2. \E r : r = o.a /\ owner'[d].a = r
        BY <3>1
      <4> QED BY <3>1, <4>1, <4>2
    <3>5. {owner'[d].a} \in SUBSET OwnedRecords'
      BY <3>1, <3>2, <3>3 DEF OwnedRecords, poolVars
    <3> QED BY <3>1, <3>4, <3>5 DEF ShrinkChain
  <2> QED BY <1>3, <2>1, PopEffect, PopReadTopEffect, PopRestoreEffect, PopCasEffect,
             PopSettleEffect DEF PopStep, ShrinkChain
<1>4. CASE ShrinkStep(d)
  <2>1. CASE ShrinkWalk(d)
    <3>1. /\ o.pc = "shrinkWalk" /\ CanShrink(d, o.dst, o.b, o.t)
          /\ owner'[d].a = o.a /\ owner'[d].dst = buf[o.dst].prev
      BY <2>1, ShrinkWalkEffect
    <3>2. PICK arrays \in SUBSET OwnedRecords : Discarded(d, arrays)
      BY <1>p, <3>1 DEF ShrinkChain
    <3>3. UNCHANGED poolVars /\ buf[o.dst].prev # NoRecord
      BY <2>1, <3>1 DEF ShrinkWalk, CanShrink
    <3>4. PICK r : r = o.dst
      OBVIOUS
    <3>5. r \in OwnedRecords /\ (arrays \cup {r}) \ {r} = arrays
      <4>1. r \in OwnedRecords /\ \A s \in arrays : Capacity[s] > Capacity[r]
        BY <3>2, <3>4 DEF Discarded
      <4>2. Capacity[r] \in Nat
        BY <4>1, RecordFacts DEF OwnedRecords
      <4>3. r \notin arrays
        BY <4>1, <4>2
      <4> QED BY <4>1, <4>3
    <3>6. PICK more : more = arrays \cup {r}
      OBVIOUS
    <3>7. Discarded(d, more)'
      BY <3>1, <3>2, <3>3, <3>4, <3>5, <3>6, ShrinkChainExtends
    <3>8. more \in SUBSET OwnedRecords'
      BY <3>2, <3>3, <3>5, <3>6 DEF OwnedRecords, poolVars
    <3> QED BY <3>7, <3>8 DEF ShrinkChain
  <2>2. CASE ShrinkRelease(d) /\ owner'[d].pc = "shrinkRelease"
    <3>1. /\ o.pc = "shrinkRelease" /\ Release(o.a) /\ buf[o.a].prev # o.dst
          /\ owner'[d].a = buf[o.a].prev /\ owner'[d].dst = o.dst
      BY <2>2, ShrinkReleaseEffect
    <3>2. PICK arrays \in SUBSET OwnedRecords : Discarded(d, arrays)
      BY <1>p, <3>1 DEF ShrinkChain
    <3>3. Root(d) = o.a
      BY <3>1, RootCases
    <3>4. PICK rest : rest = arrays \ {o.a}
      OBVIOUS
    <3>5. Discarded(d, rest)' /\ rest \in SUBSET OwnedRecords'
      BY <3>1, <3>2, <3>3, <3>4, ShrinkChainReleases
    <3> QED BY <3>5 DEF ShrinkChain
  <2>3. CASE ShrinkRelease(d) /\ owner'[d].pc = "idle"
    BY <2>3 DEF ShrinkChain
  <2>4. CASE ~ShrinkWalk(d) /\ ~ShrinkRelease(d)
    <3>1. ~LinkSteps(d) \/ ~(o.pc \in ShrinkPC \cup {"shrinkRelease"})
      BY ConstructClaimEffect, GrowClaimEffect, DestroyReleaseEffect, <2>4 DEF LinkSteps
    <3>2. /\ o.pc \in ShrinkPC \cup {"shrinkRelease"}
          /\ owner'[d].a = o.a /\ owner'[d].dst = o.dst
      BY <1>4, <2>4, ShrinkStartEffect, ShrinkCopyEffect, ShrinkPublishEffect, ShrinkShiftEffect,
         ShrinkReadTopEffect, ShrinkCasEffect, ShrinkRestoreEffect DEF ShrinkStep
    <3> QED BY <3>1, <3>2, ShrinkChainStays
  <2>5. ShrinkRelease(d) => owner'[d].pc \in {"shrinkRelease", "idle"}
    BY ShrinkReleaseEffect
  <2> QED BY <1>4, <2>1, <2>2, <2>3, <2>4, <2>5
<1> QED BY <1>1, <1>2, <1>3, <1>4 DEF OwnerStep

\* No step of one owner breaks the shrink of another: what it claims was free,
\* and what it releases is the root of its own chain.
LEMMA ShrinkChainOther ==
  ASSUME StructureInv, NEW d \in Deque, OwnerStep(d), NEW e \in Deque \ {d}
  PROVE  ShrinkChain(e)'
<1>t. TypeOK /\ PoolTypeOK /\ RecordsAccounted
  BY DEF StructureInv, TypeOK
<1>f. owner'[e] = owner[e] /\ active'[e] = active[e]
  BY <1>t, OwnerStepFrame
<1>1. SUFFICES ASSUME owner[e].pc \in ShrinkPC \cup {"shrinkRelease"}
               PROVE  ShrinkChain(e)'
  BY <1>f DEF ShrinkChain
<1>2. PICK arrays \in SUBSET OwnedRecords : Discarded(e, arrays)
  BY <1>1 DEF StructureInv, ShrinkChain
<1>3. SUFFICES /\ arrays \cup {owner[e].dst} \subseteq OwnedRecords'
               /\ \A s \in arrays : buf'[s].prev = buf[s].prev
  <2>1. Discarded(e, arrays)'
    BY <1>2, <1>3, <1>f, DiscardedFrame
  <2> QED BY <1>3, <2>1 DEF ShrinkChain
<1>4. arrays \cup {owner[e].dst} \subseteq OwnedRecords /\ OwnedRecords \subseteq Record
  BY <1>2 DEF Discarded, OwnedRecords
<1>5. CASE ~LinkSteps(d)
  BY <1>4, <1>5, QuietLinks DEF OwnedRecords
<1>6. CASE LinkSteps(d)
  <2>1. PICK r \in Record :
          \/ /\ Claim(r, Root(d)) /\ Root(d)' = r
             /\ Root(d) # NoRecord => Capacity[r] = 2 * Capacity[Root(d)]
          \/ Root(d) = r /\ Release(r) /\ Root(d)' = buf[r].prev
    BY <1>6, LinkCases
  <2>2. CASE Claim(r, Root(d))
    BY <1>t, <1>4, <2>2, ClaimLinks
  <2>3. CASE Root(d) = r /\ Release(r)
    <3>1. r # NoRecord
      BY RecordFacts
    <3>2. Root(e) = owner[e].a
      <4>1. owner[e].pc \in CopyPC => owner[e].a = active[e]
        BY DEF StructureInv, OwnerPointers
      <4> QED BY <1>1, <4>1, RootCases DEF ShrinkPC, CopyPC
    <3>3. Root(e) # r /\ \A q \in OwnedRecords : buf[q].prev # r
      BY <1>t, <2>3, <3>1 DEF RecordsAccounted
    <3>4. r \notin arrays \cup {owner[e].dst}
      BY <1>2, <3>2, <3>3 DEF Discarded
    <3> QED BY <1>t, <1>4, <2>3, <3>4, ReleaseLinks
  <2> QED BY <2>1, <2>2, <2>3
<1> QED BY <1>5, <1>6

-----------------------------------------------------------------------------
(* The indices of a deque.                                                 *)

\* An array that a shrink may skip has more than K slots per item, so that
\* the live range fits into the next array, which has half its capacity.
LEMMA HalfIsEnough ==
  ASSUME NEW c \in Nat, NEW n \in Int, n < (2 * c) \div K
  PROVE  n < c
<1> DEFINE q == (2 * c) \div K
<1>1. K \in Nat /\ K >= 3
  BY DequeAssumption
<1>2. q \in Nat /\ K * q <= 2 * c
  BY <1>1
<1>3. K * q >= 3 * q
  BY <1>1, <1>2
<1> HIDE DEF q
<1>4. q <= c
  BY <1>1, <1>2, <1>3
<1> QED BY <1>4, <1>2 DEF q

\* The numbers a leaf of the proofs below computes with.
LEMMA IndexTypes ==
  ASSUME TypeOK, NEW d \in Deque
  PROVE  /\ top[d] \in Int /\ bottom[d] \in Int /\ cachedTop[d] \in Int
         /\ owner[d].b \in Int /\ owner[d].t \in Int /\ owner[d].snap \in Int
         /\ owner[d].pc \in OwnerPC
BY DEF TypeOK, OwnerType

\* The live range that passes the test of perhaps_shrink fits the next array.
LEMMA CanShrinkFits ==
  ASSUME StructureInv, NEW d \in Deque, NEW r \in Record, NEW b \in Int, NEW t \in Int,
         CanShrink(d, r, b, t)
  PROVE  b - t < Capacity[buf[r].prev]
<1>1. buf[r].prev \in Record
  BY DEF CanShrink, StructureInv, TypeOK, PoolTypeOK, BufferTypeOK, Buffer
<1>2. Capacity[r] = 2 * Capacity[buf[r].prev]
  BY <1>1, RecordFacts DEF StructureInv, ChainHalves
<1>3. Capacity[buf[r].prev] \in Nat
  BY <1>1, RecordFacts
<1>4. b - t < (2 * Capacity[buf[r].prev]) \div K
  BY <1>2 DEF CanShrink
<1> QED BY <1>3, <1>4, HalfIsEnough
-----------------------------------------------------------------------------
(* The owner's own steps.                                                  *)

LEMMA OwnerIndicesNext ==
  ASSUME StructureInv, NEW d \in Deque, OwnerStep(d)
  PROVE  OwnerIndices(d)'
<1> DEFINE o == owner[d]
<1>t. TypeOK
  BY DEF StructureInv
<1>n. TypeOK'
  BY LifeStepType, PushStepType, PopStepType, ShrinkStepType DEF OwnerStep
<1>p. OwnerPointers(d) /\ OwnerIndices(d) /\ ShrinkChain(d)
  BY DEF StructureInv
<1>c. /\ Live(d) \/ o.pc = "destroy" => Capacity[active[d]] \in Nat \ {0}
      /\ o.pc \in {"growCopy"} \cup ShrinkPC => o.dst \in Record /\ Capacity[o.dst] \in Nat \ {0}
      /\ o.pc \in {"popTop"} \cup ShrinkPC => o.a \in Record
  BY <1>p, RecordFacts DEF Live, OwnerPointers, ShrinkChain, Discarded, OwnedRecords, ShrinkPC, CopyPC
<1>i. /\ top[d] \in Int /\ bottom[d] \in Int /\ cachedTop[d] \in Int
      /\ o.b \in Int /\ o.t \in Int /\ o.snap \in Int
  BY <1>t, IndexTypes
<1> USE <1>t, <1>p, <1>i, <1>c
    DEF OwnerIndices, SameTop, SameBottom, SameArray, SameCached, Live, Shifted, LogicalBottom,
        PushPC, CopyPC, ShrinkPC
<1>1. CASE LifeStep(d)
  <2>1. CASE Construct(d) \/ ConstructScan(d) \/ ConstructFails(d) \/ Destroy(d)
    BY <2>1, ConstructEffect, ConstructScanEffect, ConstructFailsEffect, DestroyEffect
  <2>2. CASE ConstructClaim(d)
    <3>1. \A r \in o.left : Capacity[r] \in Nat \ {0}
      BY RecordFacts DEF TypeOK, OwnerType
    <3> QED BY <2>2, <3>1, ConstructClaimEffect
  <2>3. CASE DestroyRelease(d)
    BY <2>3, DestroyReleaseEffect
  <2> QED BY <1>1, <2>1, <2>2, <2>3 DEF LifeStep
<1>2. CASE PushStep(d)
  <2>1. CASE TryPush(d)
    BY <2>1, TryPushEffect DEF NeedsRoom
  <2>2. CASE PushReadTop(d)
    BY <2>2, PushReadTopEffect DEF NeedsRoom, OwnerPointers
  <2>3. CASE GrowClaim(d)
    BY <2>3, GrowClaimEffect
  <2>4. CASE GrowScan(d) \/ PushFails(d)
    BY <2>4, GrowScanEffect, PushFailsEffect
  <2>5. CASE GrowCopy(d)
    BY <2>5, GrowCopyEffect
  <2>6. CASE GrowPublish(d)
    <3>1. Capacity[o.dst] = 2 * Capacity[active[d]]
      BY <2>6, GrowPublishEffect DEF OwnerPointers
    <3> QED BY <2>6, <3>1, GrowPublishEffect
  <2>7. CASE PushSlot(d)
    BY <2>7, PushSlotEffect
  <2>8. CASE PushBottom(d)
    BY <2>8, PushBottomEffect
  <2> QED BY <1>2, <2>1, <2>2, <2>3, <2>4, <2>5, <2>6, <2>7, <2>8 DEF PushStep
<1>3. CASE PopStep(d)
  <2>1. CASE Pop(d)
    BY <2>1, PopEffect
  <2>2. CASE PopReadTop(d)
    <3>1. CanShrink(d, o.a, o.b, top[d]) => o.b - top[d] < Capacity[buf[o.a].prev]
      BY <2>2, PopReadTopEffect, CanShrinkFits
    <3> QED BY <2>2, <3>1, PopReadTopEffect
  <2>3. CASE PopRestore(d)
    BY <2>3, PopRestoreEffect
  <2>4. CASE PopCas(d)
    BY <2>4, PopCasEffect
  <2>5. CASE PopSettle(d)
    BY <2>5, PopSettleEffect
  <2> QED BY <1>3, <2>1, <2>2, <2>3, <2>4, <2>5 DEF PopStep
<1>4. CASE ShrinkStep(d)
  <2>1. CASE ShrinkWalk(d)
    <3>1. o.b - o.t < Capacity[buf[o.dst].prev]
      BY <2>1, ShrinkWalkEffect, CanShrinkFits
    <3> QED BY <2>1, <3>1, ShrinkWalkEffect
  <2>2. CASE ShrinkStart(d) \/ ShrinkCopy(d)
    BY <2>2, ShrinkStartEffect, ShrinkCopyEffect
  <2>3. CASE ShrinkPublish(d)
    BY <2>3, ShrinkPublishEffect
  <2>4. CASE ShrinkShift(d)
    BY <2>4, ShrinkShiftEffect DEF OwnerPointers
  <2>5. CASE ShrinkReadTop(d)
    BY <2>5, ShrinkReadTopEffect
  <2>6. CASE ShrinkCas(d)
    BY <2>6, ShrinkCasEffect DEF OwnerPointers
  <2>7. CASE ShrinkRestore(d)
    BY <2>7, ShrinkRestoreEffect
  <2>8. CASE ShrinkRelease(d)
    BY <2>8, ShrinkReleaseEffect
  <2> QED BY <1>4, <2>1, <2>2, <2>3, <2>4, <2>5, <2>6, <2>7, <2>8 DEF ShrinkStep
<1> QED BY <1>1, <1>2, <1>3, <1>4 DEF OwnerStep
-----------------------------------------------------------------------------
(* What an owner's step leaves of a thief's snapshots.                     *)

\* While a thief is in a call on d, d is not destroyed.
LEMMA LiveStays ==
  ASSUME StructureInv, NEW d \in Deque, OwnerStep(d), Live(d),
         NEW p \in Thief, thief[p].d = d
  PROVE  Live(d)'
<1>t. TypeOK
  BY DEF StructureInv
<1> USE <1>t DEF Live
<1>1. CASE LifeStep(d)
  BY <1>1, ConstructEffect, ConstructClaimEffect, ConstructScanEffect, ConstructFailsEffect,
     DestroyReleaseEffect DEF LifeStep, Destroy
<1>2. CASE PushStep(d)
  BY <1>2, TryPushEffect, PushReadTopEffect, GrowClaimEffect, GrowScanEffect, PushFailsEffect,
     GrowCopyEffect, GrowPublishEffect, PushSlotEffect, PushBottomEffect DEF PushStep
<1>3. CASE PopStep(d)
  BY <1>3, PopEffect, PopReadTopEffect, PopRestoreEffect, PopCasEffect, PopSettleEffect DEF PopStep
<1>4. CASE ShrinkStep(d)
  BY <1>4, ShrinkWalkEffect, ShrinkStartEffect, ShrinkCopyEffect, ShrinkPublishEffect,
     ShrinkShiftEffect, ShrinkReadTopEffect, ShrinkCasEffect, ShrinkRestoreEffect,
     ShrinkReleaseEffect DEF ShrinkStep
<1> QED BY <1>1, <1>2, <1>3, <1>4 DEF OwnerStep

\* As long as d lives, its owner moves top_ in two steps only, and forwards.
LEMMA OwnerMovesTop ==
  ASSUME StructureInv, NEW d \in Deque, OwnerStep(d), Live(d), ~SameTop(d)
  PROVE  /\ PopCas(d) \/ ShrinkCas(d)
         /\ top'[d] > top[d]
<1>t. TypeOK /\ top[d] \in Int /\ owner[d].t \in Int
  BY IndexTypes DEF StructureInv
<1>1. CASE LifeStep(d)
  BY <1>t, <1>1, DestroyEffect DEF LifeStep, Live, Construct, ConstructClaim, ConstructScan,
     ConstructFails, DestroyRelease, OwnerAt
<1>2. CASE PushStep(d)
  BY <1>t, <1>2, TryPushEffect, PushReadTopEffect, GrowClaimEffect, GrowScanEffect, PushFailsEffect,
     GrowCopyEffect, GrowPublishEffect, PushSlotEffect, PushBottomEffect DEF PushStep
<1>3. CASE PopStep(d)
  BY <1>t, <1>3, PopEffect, PopReadTopEffect, PopRestoreEffect, PopCasEffect, PopSettleEffect
     DEF PopStep
<1>4. CASE ShrinkStep(d)
  <2>1. CASE ShrinkCas(d)
    <3>1. owner[d].pc = "shrinkCas"
      BY <2>1 DEF ShrinkCas, OwnerAt
    <3>2. Capacity[owner[d].dst] \in Nat \ {0}
      BY <3>1, RecordFacts DEF StructureInv, ShrinkChain, Discarded, OwnedRecords, ShrinkPC
    <3> QED BY <1>t, <2>1, <3>2, ShrinkCasEffect
  <2> QED BY <1>t, <1>4, <2>1, ShrinkWalkEffect, ShrinkStartEffect, ShrinkCopyEffect,
             ShrinkPublishEffect, ShrinkShiftEffect, ShrinkReadTopEffect, ShrinkRestoreEffect,
             ShrinkReleaseEffect DEF ShrinkStep
<1> QED BY <1>1, <1>2, <1>3, <1>4 DEF OwnerStep

\* If the item at top_ waits or is competed for, it stays so until top_ moves:
\* the owner takes it through a compare-and-swap or not at all.
LEMMA ClaimableStays ==
  ASSUME StructureInv, NEW d \in Deque, OwnerStep(d), Live(d), SameTop(d), Claimable(d)
  PROVE  Claimable(d)'
<1> DEFINE o == owner[d]
<1>t. TypeOK
  BY DEF StructureInv
<1>p. OwnerIndices(d)
  BY DEF StructureInv
<1>i. /\ top[d] \in Int /\ bottom[d] \in Int /\ o.b \in Int /\ o.t \in Int
  BY <1>t, IndexTypes
<1> USE <1>t, <1>p, <1>i
    DEF OwnerIndices, SameTop, SameBottom, Live, Shifted, LogicalBottom, Claimable, Contended,
        PushPC, CopyPC, ShrinkPC
<1>1. CASE LifeStep(d)
  BY <1>1, ConstructEffect, ConstructClaimEffect, ConstructScanEffect, ConstructFailsEffect,
     DestroyEffect, DestroyReleaseEffect DEF LifeStep
<1>2. CASE PushStep(d)
  <2>1. CASE PushBottom(d)
    BY <2>1, PushBottomEffect
  <2>2. CASE ~PushBottom(d)
    <3>1. /\ o.pc \in PushPC \cup {"idle"} /\ owner'[d].pc \in PushPC \cup {"idle"}
          /\ SameBottom(d)
      BY <1>2, <2>2, TryPushEffect, PushReadTopEffect, GrowClaimEffect, GrowScanEffect,
         PushFailsEffect, GrowCopyEffect, GrowPublishEffect, PushSlotEffect DEF PushStep
    <3> QED BY <3>1
  <2> QED BY <2>1, <2>2
<1>3. CASE PopStep(d)
  <2>1. CASE Pop(d)
    BY <2>1, PopEffect
  <2>2. CASE PopReadTop(d)
    BY <2>2, PopReadTopEffect
  <2>3. CASE PopRestore(d)
    BY <2>3, PopRestoreEffect
  <2>4. CASE PopCas(d)
    BY <2>4, PopCasEffect
  <2>5. CASE PopSettle(d)
    BY <2>5, PopSettleEffect
  <2> QED BY <1>3, <2>1, <2>2, <2>3, <2>4, <2>5 DEF PopStep
<1>4. CASE ShrinkStep(d)
  <2>1. LogicalBottom(d)' = LogicalBottom(d) /\ o.pc \notin {"popTop", "popCas"}
    <3>1. CASE ShrinkWalk(d) \/ ShrinkStart(d) \/ ShrinkCopy(d) \/ ShrinkPublish(d)
      BY <3>1, ShrinkWalkEffect, ShrinkStartEffect, ShrinkCopyEffect, ShrinkPublishEffect
    <3>2. CASE ShrinkShift(d) \/ ShrinkReadTop(d) \/ ShrinkRestore(d) \/ ShrinkRelease(d)
      BY <3>2, ShrinkShiftEffect, ShrinkReadTopEffect, ShrinkRestoreEffect, ShrinkReleaseEffect
    <3>3. CASE ShrinkCas(d)
      <4>1. Capacity[o.dst] \in Nat \ {0}
        BY <3>3, RecordFacts
           DEF StructureInv, ShrinkChain, Discarded, OwnedRecords, ShrinkCas, OwnerAt
      <4> QED BY <3>3, <4>1, ShrinkCasEffect
    <3> QED BY <1>4, <3>1, <3>2, <3>3 DEF ShrinkStep
  <2> QED BY <2>1
<1> QED BY <1>1, <1>2, <1>3, <1>4 DEF OwnerStep

\* Once a thief has read the shifted bottom_ of an empty deque, the owner
\* switches arrays only after top_ has moved or an item has been pushed.
LEMMA ShiftedEmptyStays ==
  ASSUME StructureInv, NEW d \in Deque, OwnerStep(d), Live(d), SameTop(d),
         NEW size \in Int, ShiftedEmpty(d, size), ~Claimable(d)
  PROVE  ShiftedEmpty(d, size)'
<1> DEFINE o == owner[d]
<1>t. TypeOK
  BY DEF StructureInv
<1>p. OwnerIndices(d) /\ OwnerPointers(d)
  BY DEF StructureInv
<1>i. /\ top[d] \in Int /\ bottom[d] \in Int /\ o.b \in Int /\ o.t \in Int
  BY <1>t, IndexTypes
<1> USE <1>t, <1>p, <1>i DEF ShiftedEmpty, SameTop, SameBottom, SameArray, Live, CopyPC
<1>1. CASE LifeStep(d)
  BY <1>1, ConstructEffect, ConstructClaimEffect, ConstructScanEffect, ConstructFailsEffect,
     DestroyEffect, DestroyReleaseEffect DEF LifeStep
<1>2. CASE PushStep(d)
  <2>1. CASE PushReadTop(d)
    <3>1. owner'[d].pc # "grow"
      BY <2>1, PushReadTopEffect
         DEF NeedsRoom, Claimable, LogicalBottom, Shifted, OwnerIndices, OwnerPointers, PushPC
    <3> QED BY <2>1, <3>1, PushReadTopEffect
  <2> QED BY <1>2, <2>1, TryPushEffect, GrowClaimEffect, GrowScanEffect, PushFailsEffect,
             GrowCopyEffect, GrowPublishEffect, PushSlotEffect, PushBottomEffect DEF PushStep
<1>3. CASE PopStep(d)
  <2>1. CASE PopReadTop(d)
    <3>1. owner'[d].pc # "shrinkWalk"
      BY <2>1, PopReadTopEffect DEF Claimable, LogicalBottom, Shifted, OwnerIndices
    <3> QED BY <2>1, <3>1, PopReadTopEffect
  <2> QED BY <1>3, <2>1, PopEffect, PopRestoreEffect, PopCasEffect, PopSettleEffect DEF PopStep
<1>4. CASE ShrinkStep(d)
  BY <1>4, ShrinkWalkEffect, ShrinkStartEffect, ShrinkCopyEffect, ShrinkPublishEffect,
     ShrinkShiftEffect, ShrinkReadTopEffect, ShrinkCasEffect, ShrinkRestoreEffect,
     ShrinkReleaseEffect DEF ShrinkStep
<1> QED BY <1>1, <1>2, <1>3, <1>4 DEF OwnerStep

\* The snapshots of every thief survive every step of every owner.
LEMMA OwnerKeepsThieves ==
  ASSUME StructureInv, NEW d \in Deque, OwnerStep(d), NEW p \in Thief
  PROVE  ThiefIndices(p)'
<1> DEFINE h == thief[p]
<1>t. TypeOK /\ TypeOK'
  BY LifeStepType, PushStepType, PopStepType, ShrinkStepType DEF StructureInv, OwnerStep
<1>p. ThiefIndices(p)
  BY DEF StructureInv
<1>f. /\ thief' = thief
      /\ \A e \in Deque \ {d} :
           /\ owner'[e] = owner[e] /\ active'[e] = active[e]
           /\ top'[e] = top[e] /\ bottom'[e] = bottom[e]
  BY <1>t, OwnerStepFrame
<1>1. CASE h.pc = "idle"
  BY <1>f, <1>1 DEF ThiefIndices
<1>2. CASE h.pc # "idle" /\ h.d # d
  BY <1>p, <1>f, <1>2
     DEF ThiefIndices, Live, Claimable, LogicalBottom, Shifted, Contended, ShiftedEmpty
<1>3. CASE h.pc # "idle" /\ h.d = d
  <2>1. Live(d) /\ Live(d)'
    BY <1>p, <1>3, LiveStays DEF ThiefIndices
  <2>2. /\ h.t \in Int /\ h.b \in Int /\ h.t <= top[d]
        /\ top[d] \in Int /\ top'[d] \in Int
    BY <1>t, <1>p, <1>3 DEF ThiefIndices, TypeOK, ThiefType
  <2>3. CASE ~SameTop(d)
    <3>1. top'[d] > top[d]
      BY <2>1, <2>3, OwnerMovesTop
    <3> QED BY <1>p, <1>f, <1>3, <2>1, <2>2, <3>1 DEF ThiefIndices
  <2>4. CASE SameTop(d)
    <3>1. Claimable(d) => Claimable(d)'
      BY <2>1, <2>4, ClaimableStays
    <3>2. \A size \in Int : ShiftedEmpty(d, size) => Claimable(d)' \/ ShiftedEmpty(d, size)'
      BY <2>1, <2>4, <3>1, ShiftedEmptyStays
    <3>3. h.b - h.t \in Int
      BY <2>2
    <3>4. h'.pc = "array" /\ h'.t = top'[d] /\ h'.b > h'.t =>
            Claimable(d)' \/ ShiftedEmpty(d, h.b - h.t)'
      <4>1. PICK size \in Int : size = h.b - h.t
        BY <3>3
      <4>2. h.pc = "array" /\ h.t = top[d] /\ h.b > h.t => Claimable(d) \/ ShiftedEmpty(d, size)
        BY <1>p, <1>3, <4>1 DEF ThiefIndices
      <4>3. ShiftedEmpty(d, size)' => ShiftedEmpty(d, h.b - h.t)'
        BY <1>f, <4>1 DEF ShiftedEmpty
      <4> QED BY <1>f, <2>4, <3>1, <3>2, <4>2, <4>3 DEF SameTop
    <3>5. h'.pc \in {"slot", "cas"} => h'.a \in Record /\ (h'.t = top'[d] => Claimable(d)')
      BY <1>p, <1>f, <1>3, <2>4, <3>1 DEF ThiefIndices, SameTop
    <3>6. h'.d = d /\ h'.t <= top'[d]
      BY <1>f, <1>3, <2>2, <2>4 DEF SameTop
    <3> QED BY <2>1, <3>4, <3>5, <3>6 DEF ThiefIndices
  <2> QED BY <2>3, <2>4
<1> QED BY <1>1, <1>2, <1>3
-----------------------------------------------------------------------------
(* The thieves' steps.                                                     *)

\* A step that leaves top_ alone, or a claim of the item at top_.
LEMMA ThiefMovesTop ==
  ASSUME StructureInv, NEW p \in Thief, ThiefStep(p)
  PROVE  \/ UNCHANGED top
         \/ /\ StealCas(p) /\ thief[p].d \in Deque /\ Live(thief[p].d) /\ Claimable(thief[p].d)
            /\ top' = [top EXCEPT ![thief[p].d] = @ + 1]
<1>1. CASE StealCas(p)
  BY <1>1 DEF StructureInv, ThiefIndices, StealCas, ThiefAt, CasTop, CasTopFails
<1>2. CASE ~StealCas(p)
  BY <1>2 DEF ThiefStep, StealReadTop, StealReadOld, StealReadBottom, StealReadArray, StealRecheck,
     StealReadSlot, indexVars
<1> QED BY <1>1, <1>2

\* A claim takes no index that the owner counts on.
LEMMA ThiefKeepsOwners ==
  ASSUME StructureInv, NEW p \in Thief, ThiefStep(p), NEW d \in Deque
  PROVE  OwnerIndices(d)'
<1>t. TypeOK
  BY DEF StructureInv
<1>p. OwnerIndices(d) /\ OwnerPointers(d)
  BY DEF StructureInv
<1>f. UNCHANGED <<owner, active, bottom, cachedTop>>
  BY <1>t, ThiefStepFrame
<1>1. CASE top'[d] = top[d]
  BY <1>p, <1>f, <1>1 DEF OwnerIndices, Live, LogicalBottom, Shifted
<1>2. CASE top'[d] # top[d]
  <2>1. Live(d) /\ Claimable(d) /\ top'[d] = top[d] + 1
    BY <1>t, <1>2, ThiefMovesTop DEF TypeOK
  <2>2. /\ top[d] \in Int /\ bottom[d] \in Int /\ cachedTop[d] \in Int
        /\ owner[d].b \in Int /\ owner[d].t \in Int /\ owner[d].snap \in Int
        /\ Capacity[active[d]] \in Nat
    BY <1>t, <1>p, <2>1, IndexTypes, RecordFacts DEF OwnerPointers, Live
  <2> QED BY <1>p, <1>f, <2>1, <2>2
       DEF OwnerIndices, Live, LogicalBottom, Shifted, Claimable, Contended, PushPC, CopyPC, ShrinkPC
<1> QED BY <1>1, <1>2

\* What a thief reads of bottom_: an item waits, or bottom_ is shifted.
LEMMA BottomReadFacts ==
  ASSUME StructureInv, NEW d \in Deque, Live(d), bottom[d] > top[d]
  PROVE  Claimable(d) \/ ShiftedEmpty(d, bottom[d] - top[d])
<1>t. TypeOK
  BY DEF StructureInv
<1>p. OwnerIndices(d) /\ OwnerPointers(d)
  BY DEF StructureInv
<1>i. /\ top[d] \in Int /\ bottom[d] \in Int /\ owner[d].b \in Int /\ owner[d].t \in Int
      /\ Capacity[active[d]] \in Nat
  BY <1>t, <1>p, IndexTypes, RecordFacts DEF OwnerPointers, Live
<1>1. CASE ~Shifted(d)
  BY <1>1 DEF Claimable, LogicalBottom
<1>2. CASE Shifted(d)
  BY <1>p, <1>i, <1>2
     DEF Claimable, LogicalBottom, ShiftedEmpty, Shifted, OwnerIndices, OwnerPointers, ShrinkPC, CopyPC
<1> QED BY <1>1, <1>2

\* A thief's step leaves it with snapshots of which ThiefIndices holds.
LEMMA ThiefIndicesNext ==
  ASSUME StructureInv, NEW p \in Thief, ThiefStep(p)
  PROVE  ThiefIndices(p)'
<1> DEFINE h == thief[p]
<1>t. TypeOK
  BY DEF StructureInv
<1>p. ThiefIndices(p)
  BY DEF StructureInv
<1>h. h \in ThiefType
  BY <1>t DEF TypeOK
<1>f. UNCHANGED <<owner, active, bottom>>
  BY <1>t, ThiefStepFrame
<1>l. h.pc # "idle" => /\ h.d \in Deque /\ Live(h.d) /\ h.t <= top[h.d]
                       /\ active[h.d] \in Record
  BY <1>p DEF ThiefIndices, Live, StructureInv, OwnerPointers
<1>i. \A result : StealReturns(p, result) => thief'[p].pc = "idle"
  BY <1>t, ThiefGoesFacts DEF StealReturns, IdleThief
<1>1. ASSUME NEW d \in Deque, StealReadTop(p, d)
      PROVE  ThiefIndices(p)'
  <2>1. thief'[p] = [IdleThief EXCEPT !.pc = "old", !.d = d, !.t = top[d]]
    BY <1>t, <1>1, ThiefGoesFacts DEF StealReadTop
  <2>2. thief'[p].pc = "old" /\ thief'[p].d = d /\ thief'[p].t = top[d]
    BY <2>1 DEF IdleThief
  <2>3. Live(d)' /\ top' = top /\ top[d] \in Int
    BY <1>t, <1>1 DEF StealReadTop, Live, indexVars, TypeOK
  <2> QED BY <2>2, <2>3 DEF ThiefIndices
<1>2. CASE StealReadOld(p)
  <2>1. thief'[p] = [h EXCEPT !.pc = "bottom", !.old = active[h.d]]
    BY <1>t, <1>2, ThiefGoesFacts DEF StealReadOld
  <2>2. thief'[p].pc = "bottom" /\ thief'[p].d = h.d /\ thief'[p].t = h.t
    BY <1>h, <2>1 DEF ThiefType
  <2>3. h.pc = "old" /\ top' = top
    BY <1>2 DEF StealReadOld, ThiefAt, indexVars
  <2> QED BY <1>f, <1>l, <2>2, <2>3 DEF ThiefIndices, Live
<1>3. CASE StealReadBottom(p)
  <2>1. thief'[p] = [h EXCEPT !.pc = "array", !.b = bottom[h.d]]
    BY <1>t, <1>3, ThiefGoesFacts DEF StealReadBottom
  <2>2. /\ thief'[p].pc = "array" /\ thief'[p].d = h.d /\ thief'[p].t = h.t
        /\ thief'[p].b = bottom[h.d]
    BY <1>h, <2>1 DEF ThiefType
  <2>3. h.pc = "bottom" /\ top' = top
    BY <1>3 DEF StealReadBottom, ThiefAt, indexVars
  <2>4. h.t = top[h.d] /\ bottom[h.d] > h.t =>
          (Claimable(h.d) \/ ShiftedEmpty(h.d, bottom[h.d] - h.t))'
    <3>1. h.t = top[h.d] /\ bottom[h.d] > h.t =>
            Claimable(h.d) \/ ShiftedEmpty(h.d, bottom[h.d] - h.t)
      BY <1>l, <2>3, BottomReadFacts
    <3> QED BY <1>f, <2>2, <2>3, <3>1
         DEF Claimable, LogicalBottom, Shifted, Contended, ShiftedEmpty
  <2> QED BY <1>f, <1>l, <2>2, <2>3, <2>4 DEF ThiefIndices, Live
<1>4. CASE StealReadArray(p)
  <2> DEFINE a == active[h.d]
             size == h.b - h.t
  <2>1. h.pc = "array" /\ top' = top
    BY <1>4 DEF StealReadArray, ThiefAt, indexVars
  <2>2. CASE thief'[p].pc = "idle"
    BY <2>2 DEF ThiefIndices
  <2>3. CASE thief'[p].pc = "recheck" /\ thief'[p].d = h.d /\ thief'[p].t = h.t
    BY <1>f, <1>l, <2>1, <2>3 DEF ThiefIndices, Live
  <2>4. CASE /\ thief'[p].pc = "slot" /\ thief'[p].d = h.d /\ thief'[p].t = h.t /\ thief'[p].a = a
             /\ size > 0 /\ ~Ambiguous(size, a)
    <3>1. h.t = top[h.d] => Claimable(h.d)
      <4>1. h.t = top[h.d] => Claimable(h.d) \/ ShiftedEmpty(h.d, size)
        BY <1>p, <1>h, <2>1, <2>4 DEF ThiefIndices, ThiefType
      <4>2. ~ShiftedEmpty(h.d, size)
        <5>1. Capacity[a] \in Nat \ {0}
          BY <1>l, <2>1, RecordFacts
        <5>2. Capacity[a] % Capacity[a] = 0
          BY <5>1
        <5> QED BY <2>4, <5>2 DEF ShiftedEmpty, Ambiguous
      <4> QED BY <4>1, <4>2
    <3>2. h.t = top[h.d] => Claimable(h.d)'
      BY <1>f, <2>1, <2>4, <3>1 DEF Claimable, LogicalBottom, Shifted, Contended
    <3> QED BY <1>f, <1>l, <2>1, <2>4, <3>2 DEF ThiefIndices, Live
  <2>5. \/ StealReturns(p, "EMPTY")
        \/ ThiefGoes(p, [[h EXCEPT !.a = a] EXCEPT !.pc = "recheck"])
        \/ /\ size > 0 /\ ~Ambiguous(size, a)
           /\ ThiefGoes(p, [[h EXCEPT !.a = a] EXCEPT !.pc = "slot"])
    BY <1>4, <1>h DEF StealReadArray, ThiefType
  <2>6. \A pc : LET g == [[h EXCEPT !.a = a] EXCEPT !.pc = pc] IN
          /\ ThiefGoes(p, g) => thief'[p] = g
          /\ g.pc = pc /\ g.d = h.d /\ g.t = h.t /\ g.a = a
    <3>1. ASSUME NEW pc
          PROVE  LET g == [[h EXCEPT !.a = a] EXCEPT !.pc = pc] IN
                 g.pc = pc /\ g.d = h.d /\ g.t = h.t /\ g.a = a
      BY <1>h DEF ThiefType
    <3>2. \A g : ThiefGoes(p, g) => thief'[p] = g
      BY <1>t, ThiefGoesFacts
    <3> QED BY <3>1, <3>2
  <2> DEFINE g(pc) == [[h EXCEPT !.a = a] EXCEPT !.pc = pc]
  <2>7. CASE ThiefGoes(p, g("recheck"))
    <3>1. thief'[p] = g("recheck")
      BY <2>6, <2>7
    <3>2. g("recheck").pc = "recheck" /\ g("recheck").d = h.d /\ g("recheck").t = h.t
      BY <2>6
    <3> HIDE DEF g
    <3> QED BY <2>3, <3>1, <3>2
  <2>8. CASE size > 0 /\ ~Ambiguous(size, a) /\ ThiefGoes(p, g("slot"))
    <3>1. thief'[p] = g("slot")
      BY <2>6, <2>8
    <3>2. /\ g("slot").pc = "slot" /\ g("slot").d = h.d /\ g("slot").t = h.t
          /\ g("slot").a = a
      BY <2>6
    <3> HIDE DEF g
    <3> QED BY <2>4, <2>8, <3>1, <3>2
  <2> QED BY <1>i, <2>2, <2>5, <2>7, <2>8
<1>5. CASE StealRecheck(p)
  BY <1>i, <1>5 DEF StealRecheck, ThiefIndices
<1>6. CASE StealReadSlot(p)
  <2>1. thief'[p] = [h EXCEPT !.pc = "cas", !.x = Load(h.a, h.t)]
    BY <1>t, <1>6, ThiefGoesFacts DEF StealReadSlot
  <2>2. /\ thief'[p].pc = "cas" /\ thief'[p].d = h.d /\ thief'[p].t = h.t /\ thief'[p].a = h.a
    BY <1>h, <2>1 DEF ThiefType
  <2>3. h.pc = "slot" /\ top' = top
    BY <1>6 DEF StealReadSlot, ThiefAt, indexVars
  <2>4. h.t = top[h.d] => Claimable(h.d)'
    BY <1>p, <1>f, <2>2, <2>3 DEF ThiefIndices, Claimable, LogicalBottom, Shifted, Contended
  <2> QED BY <1>p, <1>f, <1>l, <2>2, <2>3, <2>4 DEF ThiefIndices, Live
<1>7. CASE StealCas(p)
  BY <1>i, <1>7 DEF StealCas, ThiefIndices
<1> QED BY <1>1, <1>2, <1>3, <1>4, <1>5, <1>6, <1>7 DEF ThiefStep

\* Another thief's claim moves top_ past this thief's snapshot, or leaves it.
LEMMA ThiefKeepsThieves ==
  ASSUME StructureInv, NEW p \in Thief, ThiefStep(p), NEW q \in Thief \ {p}
  PROVE  ThiefIndices(q)'
<1> DEFINE h == thief[q]
<1>t. TypeOK
  BY DEF StructureInv
<1>p. ThiefIndices(q)
  BY DEF StructureInv
<1>f. thief'[q] = h /\ UNCHANGED <<owner, active, bottom>>
  BY <1>t, ThiefStepFrame
<1>1. CASE h.pc = "idle"
  BY <1>f, <1>1 DEF ThiefIndices
<1>2. CASE h.pc # "idle" /\ top'[h.d] = top[h.d]
  BY <1>p, <1>f, <1>2
     DEF ThiefIndices, Live, Claimable, LogicalBottom, Shifted, Contended, ShiftedEmpty
<1>3. CASE h.pc # "idle" /\ top'[h.d] # top[h.d]
  <2>1. h.d \in Deque /\ Live(h.d)' /\ h.t <= top[h.d] /\ h.t \in Int /\ top[h.d] \in Int
    BY <1>t, <1>p, <1>f, <1>3 DEF ThiefIndices, Live, TypeOK, ThiefType
  <2>2. top'[h.d] = top[h.d] + 1
    BY <1>t, <1>3, <2>1, ThiefMovesTop DEF TypeOK
  <2> QED BY <1>p, <1>f, <1>3, <2>1, <2>2 DEF ThiefIndices
<1> QED BY <1>1, <1>2, <1>3

-----------------------------------------------------------------------------
(* StructureInv is inductive.                                              *)

\* Before anything is constructed, all records are available and unlinked.
LEMMA InitInv == Init => StructureInv
<1> SUFFICES ASSUME Init
             PROVE  StructureInv
  OBVIOUS
<1>1. \A r \in Record : FreshBuffer(Capacity[r]) \in Buffer(Capacity[r])
  BY ZeroAssumption DEF FreshBuffer, Buffer
<1>2. PoolTypeOK
  BY <1>1 DEF Init, PoolInit, PoolTypeOK, BufferTypeOK, Available, Owned
<1>3. \A d \in Deque : owner[d] \in OwnerType /\ owner[d].pc = "none"
  BY IdleTypes DEF Init, OwnerType, OwnerPC, IdleOwner
<1>4. \A p \in Thief : thief[p] \in ThiefType /\ thief[p].pc = "idle"
  BY IdleTypes DEF Init, IdleThief
<1>5. owner \in [Deque -> OwnerType] /\ thief \in [Thief -> ThiefType]
  BY <1>3, <1>4 DEF Init
<1>6. TypeOK
  BY <1>2, <1>5 DEF Init, TypeOK
<1>7. \A r \in Record : state[r] = Available /\ buf[r].prev = NoRecord
  BY DEF Init, PoolInit, FreshBuffer
<1>8. ChainHalves
  BY <1>7 DEF ChainHalves
<1>9. \A d \in Deque : Root(d) = NoRecord
  BY <1>3, RootCases
<1>10. RecordsAccounted
  BY <1>7, <1>9, RecordFacts DEF RecordsAccounted, OwnedRecords, Available, Owned
<1>11. ASSUME NEW d \in Deque
       PROVE  OwnerPointers(d) /\ ShrinkChain(d)
  BY <1>3 DEF OwnerPointers, ShrinkChain, PushPC, CopyPC, ShrinkPC
<1>12. ASSUME NEW d \in Deque
       PROVE  OwnerIndices(d)
  BY <1>3 DEF Init, OwnerIndices, Live, Shifted, PushPC, CopyPC, ShrinkPC
<1>13. \A p \in Thief : ThiefIndices(p)
  BY <1>4 DEF ThiefIndices
<1> QED BY <1>6, <1>8, <1>10, <1>11, <1>12, <1>13 DEF StructureInv

\* An owner's step keeps the invariant, for its own deque and all others.
LEMMA OwnerStepInv ==
  ASSUME StructureInv, NEW d \in Deque, OwnerStep(d)
  PROVE  StructureInv'
<1>t. TypeOK
  BY DEF StructureInv
<1>1. TypeOK'
  BY LifeStepType, PushStepType, PopStepType, ShrinkStepType DEF OwnerStep
<1>2. RecordsAccounted' /\ ChainHalves'
  BY OwnerStepAccounted
<1>3. (OwnerPointers(d) /\ ShrinkChain(d) /\ OwnerIndices(d))'
  BY OwnerPointersNext, ShrinkChainNext, OwnerIndicesNext
<1>4. ASSUME NEW e \in Deque \ {d}
      PROVE  (OwnerPointers(e) /\ ShrinkChain(e) /\ OwnerIndices(e))'
  <2>1. /\ owner'[e] = owner[e] /\ active'[e] = active[e]
        /\ top'[e] = top[e] /\ bottom'[e] = bottom[e] /\ cachedTop'[e] = cachedTop[e]
    BY <1>t, OwnerStepFrame
  <2>2. OwnerPointers(e) /\ OwnerIndices(e)
    BY DEF StructureInv
  <2>3. OwnerPointers(e)'
    BY <2>1, <2>2 DEF OwnerPointers
  <2>4. OwnerIndices(e)'
    BY <2>1, <2>2 DEF OwnerIndices, Live, LogicalBottom, Shifted
  <2> QED BY <2>3, <2>4, ShrinkChainOther
<1>5. \A e \in Deque : (OwnerPointers(e) /\ ShrinkChain(e) /\ OwnerIndices(e))'
  BY <1>3, <1>4
<1>6. \A p \in Thief : ThiefIndices(p)'
  BY OwnerKeepsThieves
<1> QED BY <1>1, <1>2, <1>5, <1>6 DEF StructureInv

\* A thief's step touches no chain, and no pointer of an owner.
LEMMA ThiefStepInv ==
  ASSUME StructureInv, NEW p \in Thief, ThiefStep(p)
  PROVE  StructureInv'
<1>f. TypeOK /\ UNCHANGED <<poolVars, owner, active>>
  BY ThiefStepFrame DEF StructureInv
<1>1. TypeOK'
  BY ThiefStepType
<1>2. ChainHalves'
  BY <1>f DEF StructureInv, ChainHalves, poolVars
<1>3. \A d \in Deque : Root(d)' = Root(d)
  BY <1>f, RootFrame
<1>4. RecordsAccounted'
  BY <1>f, <1>3, SameChains DEF StructureInv, poolVars
<1>5. ASSUME NEW d \in Deque
      PROVE  OwnerPointers(d)' /\ ShrinkChain(d)'
  BY <1>f DEF StructureInv, OwnerPointers, ShrinkChain, Discarded, OwnedRecords, poolVars
<1>6. \A d \in Deque : OwnerIndices(d)'
  BY ThiefKeepsOwners
<1>7. \A q \in Thief : ThiefIndices(q)'
  BY ThiefIndicesNext, ThiefKeepsThieves
<1> QED BY <1>1, <1>2, <1>4, <1>5, <1>6, <1>7 DEF StructureInv

\* A step that changes nothing keeps StructureInv.
LEMMA StutterInv ==
  ASSUME StructureInv, UNCHANGED vars
  PROVE  StructureInv'
<1> USE DEF vars, poolVars, indexVars, history
<1>1. TypeOK'
  BY DEF StructureInv, TypeOK, PoolTypeOK, BufferTypeOK
<1>2. \A d \in Deque : Root(d)' = Root(d)
  BY RootFrame
<1>3. RecordsAccounted' /\ ChainHalves'
  BY <1>2, SameChains DEF StructureInv, ChainHalves
<1>4. ASSUME NEW d \in Deque
      PROVE  OwnerPointers(d)' /\ ShrinkChain(d)' /\ OwnerIndices(d)'
  <2>1. OwnerPointers(d)'
    BY DEF StructureInv, OwnerPointers
  <2>3. ShrinkChain(d)'
    <3>1. OwnedRecords' = OwnedRecords
      BY DEF OwnedRecords
    <3>2. ASSUME NEW arrays, Discarded(d, arrays) PROVE Discarded(d, arrays)'
      BY <3>1, <3>2 DEF Discarded
    <3> QED BY <3>1, <3>2 DEF StructureInv, ShrinkChain
  <2>2. OwnerIndices(d)'
    BY DEF StructureInv, OwnerIndices, Live, LogicalBottom, Shifted
  <2> QED BY <2>1, <2>2, <2>3
<1>5. \A p \in Thief : ThiefIndices(p)'
  BY DEF StructureInv, ThiefIndices, Live, Claimable, LogicalBottom, Shifted, Contended, ShiftedEmpty
<1> QED BY <1>1, <1>3, <1>4, <1>5 DEF StructureInv

-----------------------------------------------------------------------------
(***************************************************************************)
(* Second part: which deque holds which record, and what a step does to    *)
(* the content of the arrays and to the set of items of a deque.  Every    *)
(* deque's chain stays apart from the others.                              *)
(***************************************************************************)

(* Indices are masked to slots: facts about remainders.                    *)

\* Division by a capacity has one quotient and one remainder.
LEMMA QuotientUnique ==
  ASSUME NEW k \in Nat \ {0}, NEW q \in Int, NEW p \in Int, NEW r \in 0..k-1, NEW s \in 0..k-1,
         k*q + r = k*p + s
  PROVE  r = s /\ q = p
<1>1. k * (q - p) = s - r
  OBVIOUS
<1>2. q - p \in Int /\ s - r < k /\ s - r > -k
  OBVIOUS
<1>3. q - p = 0
  <2>1. CASE q - p >= 1
    <3>1. k * (q - p) >= k
      BY <2>1
    <3> QED BY <1>1, <1>2, <3>1
  <2>2. CASE q - p <= -1
    <3>1. k * (q - p) <= -k
      BY <2>2
    <3> QED BY <1>1, <1>2, <3>1
  <2> QED BY <2>1, <2>2
<1> QED BY <1>1, <1>3

\* What a dividend is made of.
LEMMA ModDef ==
  ASSUME NEW k \in Nat \ {0}, NEW i \in Int
  PROVE  i % k \in 0..k-1 /\ i \div k \in Int /\ i = k * (i \div k) + (i % k)
OBVIOUS

\* Products, as terms that the solver compares without multiplying.
LEMMA Distributes ==
  ASSUME NEW k \in Int, NEW p \in Int, NEW q \in Int
  PROVE  k * (q + p) = k * q + k * p /\ k * (q - p) = k * q - k * p
OBVIOUS

\* A multiple added to a dividend is added to its quotient.
LEMMA MultipleAdded ==
  ASSUME NEW k \in Int, NEW p \in Int, NEW q \in Int, NEW u \in Int, NEW r \in Int, NEW s \in Int,
         (k * q + r) + k * p = k * u + s
  PROVE  k * (q + p) + r = k * u + s
BY Distributes

\* Dividends a multiple of the divisor apart leave the same remainder.
LEMMA SameRemainder ==
  ASSUME NEW k \in Nat \ {0}, NEW p \in Int, NEW q \in Int, NEW r \in 0..k - 1,
         NEW u \in Int, NEW s \in 0..k - 1, (k * q + r) + k * p = k * u + s
  PROVE  r = s
<1>1. k * (q + p) + r = k * u + s /\ q + p \in Int
  BY MultipleAdded
<1> QED BY <1>1, QuotientUnique

\* Moving an index by a multiple of the capacity does not move its slot.
LEMMA ModShift ==
  ASSUME NEW k \in Nat \ {0}, NEW i \in Int, NEW c \in Int, c % k = 0
  PROVE  (i + c) % k = i % k
<1>1. c = k * (c \div k) /\ c \div k \in Int
  BY ModDef
<1>2. i = k * (i \div k) + (i % k) /\ i \div k \in Int /\ i % k \in 0..k - 1
  BY ModDef
<1>3. /\ i + c = k * ((i + c) \div k) + ((i + c) % k)
      /\ (i + c) \div k \in Int /\ (i + c) % k \in 0..k - 1
  <2>1. i + c \in Int
    OBVIOUS
  <2> QED BY <2>1, ModDef, Zenon
<1>4. (k * (i \div k) + (i % k)) + k * (c \div k) = k * ((i + c) \div k) + ((i + c) % k)
  BY <1>1, <1>2, <1>3, Zenon
<1> QED BY <1>1, <1>2, <1>3, <1>4, SameRemainder, Zenon

\* Indices less than a capacity apart that share a slot are the same.
LEMMA ModApart ==
  ASSUME NEW k \in Nat \ {0}, NEW i \in Int, NEW j \in Int, i % k = j % k, i - j < k, j - i < k
  PROVE  i = j
<1>1. PICK q \in Int, r \in 0..k-1 : i = k * q + r /\ r = i % k
  BY ModDef
<1>2. PICK p \in Int, s \in 0..k-1 : j = k * p + s /\ s = j % k
  BY ModDef
<1>3. i - j = k * (q - p)
  <2>1. k * (q - p) = k * q - k * p
    BY Distributes
  <2> QED BY <1>1, <1>2, <2>1
<1>4. CASE i >= j
  <2>1. k * (q - p) + 0 = k * 0 + (i - j) /\ i - j \in 0..k-1 /\ 0 \in 0..k-1 /\ q - p \in Int
    BY <1>3, <1>4
  <2>2. i - j = 0
    BY <2>1, QuotientUnique
  <2> QED BY <2>2
<1>5. CASE i < j
  <2>0. k * (p - q) = j - i
    <3>1. k * (p - q) = - (k * (q - p))
      OBVIOUS
    <3> QED BY <1>3, <3>1
  <2>1. k * (p - q) + 0 = k * 0 + (j - i) /\ j - i \in 0..k-1 /\ 0 \in 0..k-1 /\ p - q \in Int
    BY <2>0, <1>5
  <2>2. j - i = 0
    BY <2>1, QuotientUnique
  <2> QED BY <2>2
<1> QED BY <1>4, <1>5

\* A capacity divides itself,
LEMMA ModSelf ==
  ASSUME NEW k \in Nat \ {0}
  PROVE  k % k = 0
<1>1. PICK q \in Int, r \in 0..k-1 : k = k * q + r /\ r = k % k
  BY ModDef
<1>2. k * 1 + 0 = k * q + r /\ 1 \in Int /\ 0 \in 0..k-1
  BY <1>1
<1>3. 0 = r
  BY <1>2, QuotientUnique
<1> QED BY <1>1, <1>3

\* and what it divides it divides twice over, as capacities double.
LEMMA ModTwice ==
  ASSUME NEW k \in Nat \ {0}, NEW c \in Int, c % k = 0
  PROVE  (2 * c) % k = 0
<1>1. 2 * c = c + c
  OBVIOUS
<1> QED BY <1>1, ModShift

-----------------------------------------------------------------------------
(* The arrays a deque holds.                                               *)

\* The first array of a chain is a record, or there is none.
LEMMA RootType ==
  ASSUME StructureInv, NEW d \in Deque
  PROVE  Root(d) \in Record \cup {NoRecord}
BY DEF StructureInv, TypeOK, OwnerType, Root

\* The links of the records are records.
LEMMA LinkType ==
  ASSUME BufferTypeOK, NEW r \in Record
  PROVE  buf[r].prev \in Record \cup {NoRecord} /\ buf[r].low \in Nat \cup {NoMark}
BY DEF BufferTypeOK, Buffer

\* Arrays that no step relinks stay with their deques.
LEMMA SameHolders ==
  ASSUME NEW holder, ChainsHeld(holder), OwnedRecords' = OwnedRecords,
         \A r \in Record : buf'[r].prev = buf[r].prev,
         \A d \in Deque : Root(d)' = Root(d),
         holder \in Holders
  PROVE  ChainsHeld(holder)'
<1>1. \A r \in Record : holder[r] # NoDeque => holder[r] \in Deque
  BY DEF Holders
<1> QED BY <1>1 DEF ChainsHeld

\* The claimed record is linked in front of the chain of its new holder.
LEMMA ClaimHolders ==
  ASSUME StructureInv, NEW holder \in Holders, ChainsHeld(holder),
         NEW d \in Deque, NEW r \in Record, Claim(r, Root(d)), Root(d)' = r,
         Root(d) # NoRecord => Capacity[r] = 2 * Capacity[Root(d)],
         \A e \in Deque \ {d} : Root(e)' = Root(e),
         NEW after, after = [holder EXCEPT ![r] = d]
  PROVE  after \in Holders /\ ChainsHeld(after)'
<1> DEFINE q == Root(d)
<1>t. TypeOK /\ PoolTypeOK /\ BufferTypeOK
  BY DEF StructureInv, TypeOK, PoolTypeOK
<1>q. q \in Record \cup {NoRecord} /\ r # NoRecord /\ d # NoDeque
  BY RootType, RecordFacts, DequeAssumption
<1>c. /\ r \notin OwnedRecords /\ OwnedRecords' = OwnedRecords \cup {r}
      /\ buf'[r].prev = q /\ \A s \in Record \ {r} : buf'[s].prev = buf[s].prev
  BY <1>t, ClaimLinks
<1>h. /\ holder[r] = NoDeque /\ after[r] = d
      /\ \A s \in Record \ {r} : after[s] = holder[s]
      /\ after \in Holders
  BY <1>c DEF ChainsHeld, Holders
<1>d. \A s \in Record : holder[s] # NoDeque => holder[s] \in Deque
  BY DEF Holders
<1>p. \A s \in Record : holder[s] # NoDeque => buf[s].prev # r
  BY <1>h, <1>q DEF ChainsHeld
<1>l. \A s \in Record : holder[s] = d => q # NoRecord /\ Capacity[s] <= Capacity[q]
  BY <1>q DEF ChainsHeld
<1>m. q # NoRecord => holder[q] = d
  BY DEF ChainsHeld
<1>n. \A s \in Record : Capacity[s] \in Nat \ {0}
  BY RecordFacts
<1>o. \A s \in Record : holder[s] = d => Capacity[s] < Capacity[r]
  BY <1>l, <1>n, <1>q
<1>1. \A s \in Record : s \in OwnedRecords' <=> after[s] # NoDeque
  BY <1>c, <1>h, <1>q DEF ChainsHeld
<1>2. \A e \in Deque : Root(e)' # NoRecord => after[Root(e)'] = e
  <2>1. \A e \in Deque \ {d} : Root(e) # NoRecord => holder[Root(e)] = e /\ Root(e) # r
    BY <1>h, DequeAssumption DEF ChainsHeld
  <2>2. \A e \in Deque \ {d} : Root(e) \in Record \cup {NoRecord}
    BY RootType
  <2> QED BY <1>h, <2>1, <2>2
<1>3. ASSUME NEW s \in Record, after[s] # NoDeque
      PROVE  /\ Root(after[s])' # NoRecord /\ Capacity[s] <= Capacity[Root(after[s])']
             /\ buf'[s].prev # NoRecord => after[buf'[s].prev] = after[s]
  <2>1. CASE s = r
    BY <1>c, <1>h, <1>q, <1>m, <1>n, <2>1
  <2>2. CASE s # r
    <3>1. holder[s] = after[s] /\ holder[s] \in Deque /\ buf'[s].prev = buf[s].prev
      BY <1>c, <1>h, <1>d, <1>3, <2>2
    <3>2. CASE holder[s] = d
      BY <1>o, <1>h, <1>q, <1>p, <1>n, <1>t, LinkType, <3>1, <3>2 DEF ChainsHeld
    <3>3. CASE holder[s] # d
      <4>1. Root(holder[s])' = Root(holder[s]) /\ Root(holder[s]) # NoRecord
        BY <1>3, <3>1, <3>3 DEF ChainsHeld
      <4>2. Capacity[s] <= Capacity[Root(holder[s])]
        BY <1>3, <3>1 DEF ChainsHeld
      <4>3. buf[s].prev # NoRecord => buf[s].prev \in Record \ {r} /\ holder[buf[s].prev] = holder[s]
        BY <1>p, <1>t, <1>3, LinkType, <3>1 DEF ChainsHeld
      <4> QED BY <1>h, <3>1, <4>1, <4>2, <4>3
    <3> QED BY <3>2, <3>3
  <2> QED BY <2>1, <2>2
<1>4. ASSUME NEW s \in Record, NEW t \in Record, after[s] = after[t], after[s] # NoDeque
      PROVE  /\ Capacity[s] = Capacity[t] => s = t
             /\ Capacity[s] < Capacity[t] =>
                  /\ buf'[t].prev # NoRecord /\ Capacity[s] <= Capacity[buf'[t].prev]
                  /\ Capacity[t] % Capacity[s] = 0
  <2>1. CASE s # r /\ t # r
    BY <1>c, <1>h, <1>4, <2>1 DEF ChainsHeld
  <2>2. CASE s = r /\ t # r
    BY <1>h, <1>o, <1>n, <1>4, <2>2
  <2>3. CASE s # r /\ t = r
    <3>1. holder[s] = d /\ q \in Record /\ holder[q] = d
      BY <1>h, <1>l, <1>m, <1>q, <1>4, <2>3
    <3>2. Capacity[s] < Capacity[r] /\ Capacity[s] <= Capacity[q] /\ Capacity[r] = 2 * Capacity[q]
      BY <1>o, <1>l, <3>1, <1>q, RecordFacts
    <3>3. Capacity[q] % Capacity[s] = 0
      <4>1. CASE Capacity[s] < Capacity[q]
        BY <3>1, <4>1, DequeAssumption DEF ChainsHeld
      <4>2. CASE Capacity[s] = Capacity[q]
        BY <1>n, <4>2, ModSelf
      <4> QED BY <3>1, <3>2, <4>1, <4>2, <1>n
    <3>4. Capacity[r] % Capacity[s] = 0
      BY <3>1, <3>2, <3>3, <1>n, ModTwice
    <3> QED BY <1>c, <1>n, <2>3, <3>1, <3>2, <3>4, RecordFacts
  <2>4. CASE s = r /\ t = r
    BY <1>n, <2>4
  <2> QED BY <2>1, <2>2, <2>3, <2>4
<1> QED BY <1>h, <1>1, <1>2, <1>3, <1>4 DEF ChainsHeld

\* The root leaves the chain, and the next array becomes the root.
LEMMA ReleaseHolders ==
  ASSUME StructureInv, NEW holder \in Holders, ChainsHeld(holder),
         NEW d \in Deque, NEW r \in Record, Root(d) = r, Release(r), Root(d)' = buf[r].prev,
         \A e \in Deque \ {d} : Root(e)' = Root(e),
         NEW after, after = [holder EXCEPT ![r] = NoDeque]
  PROVE  after \in Holders /\ ChainsHeld(after)'
<1> DEFINE q == buf[r].prev
<1>t. TypeOK /\ PoolTypeOK /\ BufferTypeOK
  BY DEF StructureInv, TypeOK, PoolTypeOK
<1>q. q \in Record \cup {NoRecord} /\ r # NoRecord /\ d # NoDeque
  BY <1>t, LinkType, RecordFacts, DequeAssumption
<1>c. /\ OwnedRecords' = OwnedRecords \ {r}
      /\ \A s \in Record \ {r} : buf'[s].prev = buf[s].prev
  BY <1>t, ReleaseLinks
<1>h. /\ holder[r] = d /\ after[r] = NoDeque
      /\ \A s \in Record \ {r} : after[s] = holder[s]
      /\ after \in Holders
  BY <1>q DEF ChainsHeld, Holders
<1>n. \A s \in Record : Capacity[s] \in Nat \ {0}
  BY RecordFacts
<1>d. \A s \in Record : holder[s] # NoDeque => holder[s] \in Deque
  BY DEF Holders
<1>p. \A s \in Record : holder[s] # NoDeque => buf[s].prev # r
  BY <1>q DEF StructureInv, RecordsAccounted, ChainsHeld
<1>r. q # NoRecord => q # r /\ holder[q] = d
  <2>1. q # NoRecord => Capacity[r] = 2 * Capacity[q]
    BY DEF StructureInv, ChainHalves
  <2> QED BY <1>h, <1>n, <1>q, <2>1 DEF ChainsHeld
<1>s. \A s \in Record \ {r} : holder[s] = d => q # NoRecord /\ Capacity[s] <= Capacity[q]
  BY <1>h, <1>n, <1>q DEF ChainsHeld
<1>1. \A s \in Record : s \in OwnedRecords' <=> after[s] # NoDeque
  BY <1>c, <1>h DEF ChainsHeld
<1>2. \A e \in Deque : Root(e)' # NoRecord => after[Root(e)'] = e
  <2>1. \A e \in Deque \ {d} : Root(e) # NoRecord => holder[Root(e)] = e /\ Root(e) # r
    BY <1>h DEF ChainsHeld
  <2>2. \A e \in Deque \ {d} : Root(e) \in Record \cup {NoRecord}
    BY RootType
  <2> QED BY <1>h, <1>q, <1>r, <2>1, <2>2
<1>3. ASSUME NEW s \in Record, after[s] # NoDeque
      PROVE  /\ Root(after[s])' # NoRecord /\ Capacity[s] <= Capacity[Root(after[s])']
             /\ buf'[s].prev # NoRecord => after[buf'[s].prev] = after[s]
  <2>1. s # r /\ holder[s] = after[s] /\ holder[s] \in Deque /\ buf'[s].prev = buf[s].prev
    BY <1>c, <1>h, <1>d, <1>3
  <2>2. buf[s].prev # NoRecord => holder[buf[s].prev] = holder[s] /\ buf[s].prev # r /\ buf[s].prev \in Record
    BY <1>p, <1>t, LinkType, <2>1, <1>3 DEF ChainsHeld
  <2>3. CASE holder[s] = d
    BY <1>s, <1>h, <2>1, <2>2, <2>3
  <2>4. CASE holder[s] # d
    BY <1>h, <1>3, <2>1, <2>2, <2>4 DEF ChainsHeld
  <2> QED BY <2>3, <2>4
<1>4. ASSUME NEW s \in Record, NEW t \in Record, after[s] = after[t], after[s] # NoDeque
      PROVE  /\ Capacity[s] = Capacity[t] => s = t
             /\ Capacity[s] < Capacity[t] =>
                  /\ buf'[t].prev # NoRecord /\ Capacity[s] <= Capacity[buf'[t].prev]
                  /\ Capacity[t] % Capacity[s] = 0
  <2>1. s # r /\ t # r /\ holder[s] = holder[t] /\ holder[s] # NoDeque
    BY <1>h, <1>4
  <2> QED BY <1>c, <2>1 DEF ChainsHeld
<1> QED BY <1>h, <1>1, <1>2, <1>3, <1>4 DEF ChainsHeld

\* What a step of d's owner does to the holders of the records.
Handed(d, holder, after) ==
  /\ \A r \in Record :
       \/ after[r] = holder[r]
       \/ holder[r] = NoDeque /\ after[r] = d /\ Claim(r, Root(d)) /\ Root(d)' = r
       \/ holder[r] = d /\ after[r] = NoDeque /\ Root(d) = r /\ Release(r)
  /\ LinkSteps(d) \/ after = holder

\* Every step of an owner leaves the chains linear.
LEMMA HeldNext ==
  ASSUME StructureInv, NEW holder \in Holders, ChainsHeld(holder), NEW d \in Deque, OwnerStep(d)
  PROVE  \E after \in Holders : ChainsHeld(after)' /\ Handed(d, holder, after)
<1>t. TypeOK /\ PoolTypeOK
  BY DEF StructureInv, TypeOK
<1>e. \A e \in Deque \ {d} : Root(e)' = Root(e)
  BY <1>t, OwnerStepFrame, RootFrame
<1>1. CASE ~LinkSteps(d)
  <2>1. /\ OwnedRecords' = OwnedRecords
        /\ \A r \in Record : buf'[r].prev = buf[r].prev
        /\ \A e \in Deque : Root(e)' = Root(e)
    BY <1>1, <1>e, QuietLinks, QuietRoot DEF OwnedRecords
  <2>2. ChainsHeld(holder)'
    BY <2>1, SameHolders
  <2> QED BY <2>2 DEF Handed
<1>2. CASE LinkSteps(d)
  <2>1. PICK r \in Record :
           \/ /\ Claim(r, Root(d)) /\ Root(d)' = r
              /\ Root(d) # NoRecord => Capacity[r] = 2 * Capacity[Root(d)]
           \/ Root(d) = r /\ Release(r) /\ Root(d)' = buf[r].prev
    BY <1>2, LinkCases
  <2>2. CASE /\ Claim(r, Root(d)) /\ Root(d)' = r
             /\ Root(d) # NoRecord => Capacity[r] = 2 * Capacity[Root(d)]
    <3>1. PICK after : after = [holder EXCEPT ![r] = d]
      OBVIOUS
    <3>2. after \in Holders /\ ChainsHeld(after)'
      BY <1>e, <2>1, <2>2, <3>1, ClaimHolders
    <3>3. holder[r] = NoDeque
      BY <1>t, <2>2, ClaimLinks DEF ChainsHeld
    <3>4. Handed(d, holder, after)
      BY <1>2, <2>2, <3>1, <3>3 DEF Handed, Holders
    <3> QED BY <3>2, <3>4
  <2>3. CASE Root(d) = r /\ Release(r) /\ Root(d)' = buf[r].prev
    <3>1. PICK after : after = [holder EXCEPT ![r] = NoDeque]
      OBVIOUS
    <3>2. after \in Holders /\ ChainsHeld(after)'
      BY <1>e, <2>1, <2>3, <3>1, ReleaseHolders
    <3>3. holder[r] = d
      BY <2>1, <2>3, RecordFacts DEF ChainsHeld
    <3>4. Handed(d, holder, after)
      BY <1>2, <2>3, <3>1, <3>3 DEF Handed, Holders
    <3> QED BY <3>2, <3>4
  <2> QED BY <2>1, <2>2, <2>3
<1> QED BY <1>1, <1>2

-----------------------------------------------------------------------------
(* The content of the arrays, and what a step of another deque leaves of   *)
(* it.                                                                     *)

\* A step that leaves the slots and the mark of r alone.
SameContent(r) == buf'[r].slots = buf[r].slots /\ buf'[r].low = buf[r].low

\* What an index reads depends on the slots of the array only.
LEMMA SameLoad ==
  ASSUME NEW r, buf'[r].slots = buf[r].slots
  PROVE  \A i : Load(r, i)' = Load(r, i)
BY DEF Load, Index

\* A store is seen at the indices that are masked to the same slot, only.
LEMMA StoreNoMarkContent ==
  ASSUME BufferTypeOK, NEW r \in Record, NEW i \in Int, NEW v, StoreNoMark(r, i, v)
  PROVE  /\ \A s \in Record \ {r} : SameContent(s)
         /\ buf'[r].low = buf[r].low
         /\ \A j \in Int : Load(r, j)' = IF Index(r, j) = Index(r, i) THEN v ELSE Load(r, j)
<1>1. buf[r] \in Buffer(Capacity[r]) /\ DOMAIN buf = Record
  BY DEF BufferTypeOK
<1>2. buf'[r] = [buf[r] EXCEPT !.slots = [buf[r].slots EXCEPT ![Index(r, i)] = v]]
  BY <1>1 DEF StoreNoMark
<1>3. \A s \in Record \ {r} : buf'[s] = buf[s]
  BY <1>1 DEF StoreNoMark
<1>4. buf'[r].slots = [buf[r].slots EXCEPT ![Index(r, i)] = v] /\ buf'[r].low = buf[r].low
  BY <1>1, <1>2 DEF Buffer
<1>5. ASSUME NEW j \in Int
      PROVE  Load(r, j)' = IF Index(r, j) = Index(r, i) THEN v ELSE Load(r, j)
  <2>1. Index(r, j) \in DOMAIN buf[r].slots /\ Index(r, j)' = Index(r, j)
    BY <1>1, IndexInRange DEF Buffer, Index
  <2>2. Load(r, j)' = buf'[r].slots[Index(r, j)]
    BY DEF Load, Index
  <2> QED BY <1>4, <2>1, <2>2 DEF Load
<1> QED BY <1>3, <1>4, <1>5 DEF SameContent

\* A store is seen at the indices that are masked to the same slot, only.
LEMMA StoreContent ==
  ASSUME BufferTypeOK, NEW r \in Record, NEW i \in Int, NEW v, Store(r, i, v)
  PROVE  /\ \A s \in Record \ {r} : SameContent(s)
         /\ buf'[r].low = MinMark(buf[r].low, i)
         /\ \A j \in Int : Load(r, j)' = IF Index(r, j) = Index(r, i) THEN v ELSE Load(r, j)
<1>1. buf[r] \in Buffer(Capacity[r]) /\ DOMAIN buf = Record
  BY DEF BufferTypeOK
<1>2. buf'[r] = [buf[r] EXCEPT !.slots = [buf[r].slots EXCEPT ![Index(r, i)] = v],
                               !.low = MinMark(buf[r].low, i)]
  BY <1>1 DEF Store
<1>3. \A s \in Record \ {r} : buf'[s] = buf[s]
  BY <1>1 DEF Store
<1>4. /\ buf'[r].slots = [buf[r].slots EXCEPT ![Index(r, i)] = v]
      /\ buf'[r].low = MinMark(buf[r].low, i)
  BY <1>1, <1>2 DEF Buffer
<1>5. ASSUME NEW j \in Int
      PROVE  Load(r, j)' = IF Index(r, j) = Index(r, i) THEN v ELSE Load(r, j)
  <2>1. Index(r, j) \in DOMAIN buf[r].slots
    BY <1>1, IndexInRange DEF Buffer
  <2>2. Load(r, j)' = buf'[r].slots[Index(r, j)]
    BY DEF Load, Index
  <2> QED BY <1>4, <2>1, <2>2 DEF Load
<1> QED BY <1>3, <1>4, <1>5 DEF SameContent

\* Lowering the mark of an array stores nothing.
LEMMA LowerMarkContent ==
  ASSUME BufferTypeOK, NEW r \in Record, NEW m, LowerMark(r, m)
  PROVE  /\ \A s \in Record \ {r} : SameContent(s)
         /\ buf'[r].slots = buf[r].slots /\ buf'[r].low = MinMark(buf[r].low, m)
BY DEF BufferTypeOK, Buffer, LowerMark, SameContent

\* A claimed array has no mark yet, and its old slots.
LEMMA ClaimContent ==
  ASSUME BufferTypeOK, NEW r \in Record, NEW q, Claim(r, q)
  PROVE  /\ \A s \in Record \ {r} : SameContent(s)
         /\ buf'[r].slots = buf[r].slots /\ buf'[r].low = NoMark
BY DEF BufferTypeOK, Buffer, Claim, ResetAndLink, SameContent

\* Releasing an array leaves its content alone.
LEMMA ReleaseContent ==
  ASSUME BufferTypeOK, NEW r \in Record, Release(r)
  PROVE  \A s \in Record : SameContent(s)
BY DEF BufferTypeOK, Buffer, Release, SameContent

\* The other deques' histories.
LEMMA OwnerStepHistory ==
  ASSUME TypeOK, NEW d \in Deque, OwnerStep(d), NEW e \in Deque \ {d}
  PROVE  pushed'[e] = pushed[e] /\ base'[e] = base[e] /\ returned'[e] = returned[e]
<1> USE DEF TypeOK, history
<1>1. CASE LifeStep(d)
  BY <1>1 DEF LifeStep, Construct, ConstructClaim, ConstructScan, ConstructFails, Destroy,
     DestroyRelease
<1>2. CASE PushStep(d)
  BY <1>2 DEF PushStep, TryPush, PushReadTop, GrowClaim, GrowScan, PushFails, GrowCopy,
     GrowPublish, PushSlot, PushBottom
<1>3. CASE PopStep(d)
  BY <1>3 DEF PopStep, Pop, PopReadTop, PopRestore, PopCas, PopSettle, Deliver
<1>4. CASE ShrinkStep(d)
  BY <1>4 DEF ShrinkStep, ShrinkWalk, ShrinkStart, ShrinkCopy, ShrinkPublish, ShrinkShift,
     ShrinkReadTop, ShrinkCas, ShrinkRestore, ShrinkRelease, Deliver
<1> QED BY <1>1, <1>2, <1>3, <1>4 DEF OwnerStep

\* What each step of an owner does to the buffers.
BufferStep(d) ==
  LET o == owner[d] IN
  \/ \A r \in Record : SameContent(r)
  \/ ConstructClaim(d) /\ \E r \in Record : Claim(r, NoRecord)
  \/ GrowClaim(d) /\ \E r \in Record : Claim(r, o.a)
  \/ GrowCopy(d) /\ o.dst \in Record /\ StoreNoMark(o.dst, o.i, Load(o.a, o.i))
  \/ PushSlot(d) /\ o.a \in Record /\ Store(o.a, o.b, o.x)
  \/ ShrinkStart(d) /\ o.dst \in Record /\ LowerMark(o.dst, o.mark)
  \/ ShrinkCopy(d) /\ o.dst \in Record /\ StoreNoMark(o.dst, o.i, Load(o.a, o.i))

\* Every owner's step changes the arrays in one of the ways of BufferStep.
LEMMA BufferSteps ==
  ASSUME StructureInv, NEW d \in Deque, OwnerStep(d)
  PROVE  BufferStep(d)
<1> DEFINE o == owner[d]
<1>t. TypeOK /\ BufferTypeOK
  BY DEF StructureInv, TypeOK, PoolTypeOK
<1>p. OwnerPointers(d) /\ ShrinkChain(d)
  BY DEF StructureInv
<1>u. UNCHANGED poolVars => \A r \in Record : SameContent(r)
  BY DEF poolVars, SameContent
<1>r. \A r \in Record : Release(r) => \A s \in Record : SameContent(s)
  BY <1>t, ReleaseContent
<1>a. o.pc \in PushPC => o.a \in Record
  BY <1>p DEF OwnerPointers, PushPC
<1>c. o.pc \in ShrinkPC => o.dst \in Record
  BY <1>p DEF ShrinkChain, Discarded, OwnedRecords
<1>l. o.left \subseteq Record
  BY <1>t DEF TypeOK, OwnerType
<1> USE DEF BufferStep
<1>1. CASE LifeStep(d)
  <2>1. CASE ConstructClaim(d)
    BY <1>l, <2>1 DEF ConstructClaim
  <2>2. CASE DestroyRelease(d)
    <3>1. o.dst \in Record /\ Release(o.dst)
      BY <1>p, <2>2 DEF DestroyRelease, OwnerPointers, OwnerAt
    <3> QED BY <1>r, <3>1
  <2> QED BY <1>1, <1>u, <2>1, <2>2
       DEF LifeStep, Construct, ConstructScan, ClaimFails, ConstructFails, Destroy
<1>2. CASE PushStep(d)
  <2>1. CASE GrowClaim(d)
    BY <1>l, <2>1 DEF GrowClaim
  <2>2. CASE GrowCopy(d)
    BY <1>p, <2>2 DEF GrowCopy, OwnerPointers, OwnerAt
  <2>3. CASE PushSlot(d)
    BY <1>a, <2>3 DEF PushSlot, OwnerAt, PushPC
  <2> QED BY <1>2, <1>u, <2>1, <2>2, <2>3
       DEF PushStep, TryPush, PushReadTop, GrowScan, ClaimFails, PushFails, GrowPublish, PushBottom
<1>3. CASE PopStep(d)
  BY <1>3, <1>u DEF PopStep, Pop, PopReadTop, PopRestore, PopCas, PopSettle
<1>4. CASE ShrinkStep(d)
  <2>1. CASE ShrinkStart(d)
    BY <1>c, <2>1 DEF ShrinkStart, OwnerAt, ShrinkPC, CopyPC
  <2>2. CASE ShrinkCopy(d)
    BY <1>c, <2>2 DEF ShrinkCopy, OwnerAt, ShrinkPC, CopyPC
  <2>3. CASE ShrinkRelease(d)
    <3>1. o.a \in Record /\ Release(o.a)
      BY <1>p, <2>3 DEF ShrinkRelease, ShrinkChain, Discarded, OwnedRecords, OwnerAt
    <3> QED BY <1>r, <3>1
  <2> QED BY <1>4, <1>u, <2>1, <2>2, <2>3
       DEF ShrinkStep, ShrinkWalk, ShrinkPublish, ShrinkShift, ShrinkReadTop, ShrinkCas, ShrinkRestore
<1> QED BY <1>1, <1>2, <1>3, <1>4 DEF OwnerStep

\* The records that other deques hold keep their slots and marks.
LEMMA OthersUntouched ==
  ASSUME StructureInv, NEW holder \in Holders, ChainsHeld(holder), NEW d \in Deque, OwnerStep(d),
         Contents(d, holder), NEW r \in Record, holder[r] \notin {d, NoDeque}
  PROVE  SameContent(r)
<1> DEFINE o == owner[d]
<1>t. TypeOK /\ PoolTypeOK /\ BufferTypeOK
  BY DEF StructureInv, TypeOK, PoolTypeOK
<1>0. o \in OwnerType
  BY <1>t DEF TypeOK
<1>b. BufferStep(d)
  BY BufferSteps
<1>1. ASSUME NEW s \in Record, NEW q, Claim(s, q)
      PROVE  SameContent(r)
  BY <1>t, <1>1, ClaimContent, ClaimLinks DEF ChainsHeld
<1>2. CASE GrowCopy(d) /\ o.dst \in Record /\ StoreNoMark(o.dst, o.i, Load(o.a, o.i))
  <2>1. Root(d) = o.dst
    BY <1>2, RootCases DEF GrowCopy, OwnerAt
  <2>2. holder[o.dst] = d
    BY <1>2, <2>1, RecordFacts DEF ChainsHeld
  <2>3. o.i \in Int
    BY <1>0 DEF OwnerType
  <2> QED BY <1>t, <1>2, <2>2, <2>3, StoreNoMarkContent
<1>3. CASE PushSlot(d) /\ o.a \in Record /\ Store(o.a, o.b, o.x)
  <2>1. holder[o.a] = d /\ o.b \in Int
    BY <1>3, <1>0 DEF PushSlot, OwnerAt, Contents, Live, StructureInv, OwnerPointers, PushPC, OwnerType
  <2> QED BY <1>t, <1>3, <2>1, StoreContent
<1>4. CASE ShrinkStart(d) /\ o.dst \in Record /\ LowerMark(o.dst, o.mark)
  <2>1. holder[o.dst] = d
    BY <1>4 DEF ShrinkStart, OwnerAt, Contents, Live, CopyUnderWay, CopyPC
  <2> QED BY <1>t, <1>4, <2>1, LowerMarkContent
<1>5. CASE ShrinkCopy(d) /\ o.dst \in Record /\ StoreNoMark(o.dst, o.i, Load(o.a, o.i))
  <2>1. holder[o.dst] = d /\ o.i \in Int
    BY <1>5, <1>0 DEF ShrinkCopy, OwnerAt, Contents, Live, CopyUnderWay, CopyPC, OwnerType
  <2> QED BY <1>t, <1>5, <2>1, StoreNoMarkContent
<1> QED BY <1>b, <1>1, <1>2, <1>3, <1>4, <1>5 DEF BufferStep

\* What is true of a deque depends on its own variables and its own records.
LEMMA ContentsFrame ==
  ASSUME NEW d \in Deque, NEW holder, NEW after, Contents(d, holder),
         Live(d) => active[d] \in Record,
         owner[d].pc \in {"growCopy"} \cup CopyPC =>
           owner[d].dst \in Record /\ holder[owner[d].dst] = d,
         owner'[d] = owner[d], active'[d] = active[d],
         top'[d] = top[d], bottom'[d] = bottom[d],
         pushed'[d] = pushed[d], base'[d] = base[d], returned'[d] = returned[d],
         \A r \in Record : after[r] = d <=> holder[r] = d,
         \A r \in Record : holder[r] = d => SameContent(r)
  PROVE  Contents(d, after)'
<1> DEFINE o == owner[d]
<1> SUFFICES ASSUME Live(d)
             PROVE  Contents(d, after)'
  BY DEF Contents, Live
<1>1. holder[active[d]] = d /\ active[d] \in Record /\ after[active[d]] = d
  BY DEF Contents
<1>2. \A r \in Record : \A i : holder[r] = d => Load(r, i)' = Load(r, i) /\ buf'[r].low = buf[r].low
  BY SameLoad DEF SameContent
<1>3. \A i : ItemAt(d, i)' = ItemAt(d, i)
  <2>1. \A i : ItemAt(d, i)' = Load(active[d], i)'
    BY DEF ItemAt, Load, Index
  <2> QED BY <1>1, <1>2, <2>1 DEF ItemAt
<1>4. /\ Window(d)' = Window(d) /\ Present(d)' = Present(d)
  BY DEF Window, LogicalBottom, Shifted, Present
<1>5. Held(d)' = Held(d)
  BY <1>3 DEF Held
<1>6. Pending(d)' = Pending(d)
  BY <1>3, <1>4 DEF Pending
<1>7. MarksSuffice(d, after)'
  <2>1. MarksSuffice(d, holder)
    BY DEF Contents
  <2> QED BY <1>2, <1>3, <1>4, <2>1 DEF MarksSuffice
<1>8. CopyUnderWay(d, after)'
  <2>1. CopyUnderWay(d, holder)
    BY DEF Contents
  <2>2. o.pc \in CopyPC => after[o.dst] = d
    BY <2>1 DEF CopyUnderWay
  <2>3. o.pc = "growCopy" => buf'[o.dst].low = NoMark
    BY <1>2, <2>1 DEF CopyUnderWay
  <2>4. o.pc \in {"growCopy", "shrinkCopy"} =>
          o.t <= o.i /\ \A i \in Window(d) : i < o.i => Load(o.dst, i)' = ItemAt(d, i)
    BY <1>2, <2>1 DEF CopyUnderWay, CopyPC
  <2>5. o.pc \in CopyPC =>
          \A s \in Record :
            after[s] = d /\ Capacity[o.dst] <= Capacity[s] /\ Capacity[s] <= Capacity[active[d]] =>
              AsLow(IF o.pc = "shrinkWalk" THEN o.mark ELSE buf'[o.dst].low, buf'[s].low)
    BY <1>2, <2>1 DEF CopyUnderWay
  <2> QED BY <1>3, <1>4, <2>2, <2>3, <2>4, <2>5 DEF CopyUnderWay, AsLow
<1>9. ItemsKept(d)'
  <2>1. ItemsKept(d)
    BY DEF Contents
  <2> QED BY <1>3, <1>4, <1>5, <1>6, <2>1 DEF ItemsKept
<1>10. OwnersItem(d)'
  <2>1. OwnersItem(d)
    BY DEF Contents
  <2> QED BY <1>1, <1>2, <1>3, <2>1 DEF OwnersItem
<1> QED BY <1>1, <1>7, <1>8, <1>9, <1>10 DEF Contents

\* An owner's step leaves the other deques alone.
LEMMA OtherContents ==
  ASSUME StructureInv, NEW holder \in Holders, ChainsHeld(holder), NEW d \in Deque, OwnerStep(d),
         Contents(d, holder), NEW after \in Holders, Handed(d, holder, after),
         NEW e \in Deque \ {d}, Contents(e, holder), ReturnedOnce(e)
  PROVE  Contents(e, after)' /\ ReturnedOnce(e)'
<1>t. TypeOK
  BY DEF StructureInv
<1>h. pushed'[e] = pushed[e] /\ base'[e] = base[e] /\ returned'[e] = returned[e]
  BY <1>t, OwnerStepHistory
<1>1. ReturnedOnce(e)'
  BY <1>h DEF ReturnedOnce
<1>2. /\ owner'[e] = owner[e] /\ active'[e] = active[e]
      /\ top'[e] = top[e] /\ bottom'[e] = bottom[e]
  BY <1>t, OwnerStepFrame
<1>3. e # NoDeque
  BY DequeAssumption
<1>4. \A r \in Record : after[r] = e <=> holder[r] = e
  BY <1>3 DEF Handed
<1>5. \A r \in Record : holder[r] = e => SameContent(r)
  BY <1>3, OthersUntouched
<1>6. Live(e) => active[e] \in Record
  BY DEF StructureInv, OwnerPointers, Live
<1>7. owner[e].pc \in {"growCopy"} \cup CopyPC => owner[e].dst \in Record /\ holder[owner[e].dst] = e
  <2>1. CASE owner[e].pc = "growCopy"
    <3>1. Root(e) = owner[e].dst /\ owner[e].dst \in Record
      BY <2>1, RootCases DEF StructureInv, OwnerPointers
    <3> QED BY <3>1, RecordFacts DEF ChainsHeld
  <2>2. CASE owner[e].pc \in CopyPC
    BY <2>2 DEF StructureInv, ShrinkChain, Discarded, OwnedRecords, ShrinkPC, CopyPC,
       Contents, Live, CopyUnderWay
  <2> QED BY <2>1, <2>2
<1>8. Contents(e, after)'
  BY <1>h, <1>2, <1>4, <1>5, <1>6, <1>7, ContentsFrame
<1> QED BY <1>1, <1>8

-----------------------------------------------------------------------------
(* The live range, the slots of its indices, and the locals of the owner.  *)

\* The numbers and the array a step of a live deque computes with.
LEMMA LiveFacts ==
  ASSUME StructureInv, NEW d \in Deque, Live(d)
  PROVE  LET o == owner[d] IN
         /\ o \in OwnerType /\ active[d] \in Record /\ Capacity[active[d]] \in Nat \ {0}
         /\ top[d] \in Int /\ bottom[d] \in Int /\ LogicalBottom(d) \in Int
         /\ o.b \in Int /\ o.t \in Int /\ o.i \in Int /\ o.snap \in Int
         /\ Window(d) \subseteq Int
<1>1. owner[d] \in OwnerType /\ top[d] \in Int /\ bottom[d] \in Int
  BY DEF StructureInv, TypeOK
<1>2. active[d] \in Record
  BY DEF StructureInv, OwnerPointers, Live
<1>3. /\ owner[d].b \in Int /\ owner[d].t \in Int /\ owner[d].i \in Int /\ owner[d].snap \in Int
  BY <1>1 DEF OwnerType
<1>4. LogicalBottom(d) \in Int
  BY <1>1, <1>3 DEF LogicalBottom
<1>5. Window(d) \subseteq Int
  BY <1>1, <1>4 DEF Window
<1> QED BY <1>1, <1>2, <1>3, <1>4, <1>5, RecordFacts

\* A shrink copies from the active array to a smaller one.
LEMMA ShrinkTarget ==
  ASSUME StructureInv, NEW d \in Deque, owner[d].pc \in ShrinkPC \cup {"shrinkRelease"}
  PROVE  LET o == owner[d] IN
         /\ o.a \in Record /\ o.dst \in Record
         /\ Capacity[o.dst] \in Nat \ {0} /\ Capacity[o.a] \in Nat \ {0}
         /\ Capacity[o.dst] < Capacity[o.a]
         /\ IF o.pc \in CopyPC THEN o.a = active[d] ELSE o.dst = active[d]
<1>1. PICK arrays \in SUBSET OwnedRecords : Discarded(d, arrays)
  BY DEF StructureInv, ShrinkChain
<1>2. owner[d].a \in Record /\ owner[d].dst \in Record
  BY <1>1 DEF Discarded, OwnedRecords
<1>3. OwnerPointers(d)
  BY DEF StructureInv
<1> QED BY <1>1, <1>2, <1>3, RecordFacts DEF Discarded, OwnerPointers, ShrinkPC, CopyPC

\* A growth copies from the active array to a larger one.
LEMMA GrowTarget ==
  ASSUME StructureInv, NEW holder, ChainsHeld(holder), NEW d \in Deque, owner[d].pc = "growCopy"
  PROVE  LET o == owner[d] IN
         /\ o.dst \in Record /\ o.a = active[d] /\ active[d] \in Record
         /\ Capacity[o.dst] \in Nat \ {0} /\ Capacity[active[d]] \in Nat \ {0}
         /\ Capacity[active[d]] < Capacity[o.dst]
         /\ holder[o.dst] = d
<1>1. OwnerPointers(d)
  BY DEF StructureInv
<1>2. /\ owner[d].dst \in Record /\ owner[d].a = active[d] /\ active[d] \in Record
      /\ Capacity[owner[d].dst] = 2 * Capacity[active[d]]
  BY <1>1 DEF OwnerPointers, PushPC
<1>3. Root(d) = owner[d].dst
  BY RootCases
<1>4. owner[d].dst # NoRecord => holder[owner[d].dst] = d
  BY <1>3 DEF ChainsHeld
<1>5. Capacity[owner[d].dst] \in Nat \ {0} /\ Capacity[active[d]] \in Nat \ {0}
  BY <1>2, RecordFacts
<1> QED BY <1>2, <1>4, <1>5, RecordFacts

\* Only a growth or a shrink publishes another array.
LEMMA SameArraySteps ==
  ASSUME TypeOK, NEW d \in Deque, OwnerStep(d), Live(d), ~GrowPublish(d), ~ShrinkPublish(d)
  PROVE  SameArray(d)
<1>1. CASE LifeStep(d)
  BY <1>1, ConstructEffect, ConstructScanEffect, ConstructFailsEffect, DestroyEffect
     DEF LifeStep, Live, ConstructClaim, DestroyRelease, OwnerAt
<1>2. CASE PushStep(d)
  BY <1>2, TryPushEffect, PushReadTopEffect, GrowClaimEffect, GrowScanEffect, PushFailsEffect,
     GrowCopyEffect, PushSlotEffect, PushBottomEffect DEF PushStep
<1>3. CASE PopStep(d)
  BY <1>3, PopEffect, PopReadTopEffect, PopRestoreEffect, PopCasEffect, PopSettleEffect DEF PopStep
<1>4. CASE ShrinkStep(d)
  BY <1>4, ShrinkWalkEffect, ShrinkStartEffect, ShrinkCopyEffect, ShrinkShiftEffect,
     ShrinkReadTopEffect, ShrinkCasEffect, ShrinkRestoreEffect, ShrinkReleaseEffect DEF ShrinkStep
<1> QED BY <1>1, <1>2, <1>3, <1>4 DEF OwnerStep

\* Two indices of a range that fits into an array are in different slots.
LEMMA SlotsApart ==
  ASSUME NEW r \in Record, NEW i \in Int, NEW j \in Int, Index(r, i) = Index(r, j),
         i - j < Capacity[r], j - i < Capacity[r]
  PROVE  i = j
<1>1. Capacity[r] \in Nat \ {0}
  BY RecordFacts
<1>2. i % Capacity[r] = j % Capacity[r]
  BY DEF Index
<1> QED BY <1>1, <1>2, ModApart

\* The item of a push goes to a slot that no waiting item uses.
LEMMA PushSlotFree ==
  ASSUME StructureInv, NEW d \in Deque, owner[d].pc = "pushSlot", NEW i \in Window(d)
  PROVE  Index(active[d], i) # Index(active[d], owner[d].b)
<1> DEFINE o == owner[d]
<1>1. Live(d)
  BY DEF Live
<1>2. /\ active[d] \in Record /\ Capacity[active[d]] \in Nat \ {0}
      /\ top[d] \in Int /\ o.b \in Int /\ i \in Int
  BY <1>1, LiveFacts
<1>3. /\ cachedTop[d] <= top[d] /\ cachedTop[d] \in Int
      /\ o.b - cachedTop[d] < Capacity[active[d]] - 1 /\ bottom[d] = o.b
  BY IndexTypes DEF StructureInv, OwnerIndices, PushPC
<1>4. LogicalBottom(d) = bottom[d]
  BY DEF LogicalBottom, Shifted
<1>5. top[d] <= i /\ i < o.b
  BY <1>2, <1>3, <1>4 DEF Window
<1>6. o.b - i < Capacity[active[d]] /\ i - o.b < Capacity[active[d]] /\ i # o.b
  BY <1>2, <1>3, <1>5
<1> QED BY <1>2, <1>6, SlotsApart

\* No step of the owner changes an item that waits, although the array in
\* which the deque looks for it may change.
LEMMA ItemsStay ==
  ASSUME StructureInv, NEW holder \in Holders, ChainsHeld(holder), NEW d \in Deque, OwnerStep(d),
         Live(d), Contents(d, holder), NEW i \in Window(d)
  PROVE  ItemAt(d, i)' = ItemAt(d, i)
<1> DEFINE o == owner[d]
<1>t. TypeOK /\ BufferTypeOK
  BY DEF StructureInv, TypeOK, PoolTypeOK
<1>0. /\ active[d] \in Record /\ Capacity[active[d]] \in Nat \ {0} /\ i \in Int /\ top[d] \in Int
      /\ LogicalBottom(d) \in Int /\ o.b \in Int /\ o.i \in Int
  BY LiveFacts
<1>a. PICK a \in Record : a = active[d]
  BY <1>0
<1>w. top[d] <= i /\ i < LogicalBottom(d)
  BY <1>0 DEF Window
<1>b. BufferStep(d)
  BY BufferSteps
<1>c. CopyUnderWay(d, holder)
  BY DEF Contents
<1>l. \A r : active'[d] = r => ItemAt(d, i)' = Load(r, i)'
  BY DEF ItemAt, Load, Index
<1>1. CASE GrowPublish(d) \/ ShrinkPublish(d)
  <2>1. /\ o.pc \in {"growCopy", "shrinkCopy"} /\ active'[d] = o.dst /\ o.i >= o.b /\ UNCHANGED buf
    BY <1>t, <1>1, GrowPublishEffect, ShrinkPublishEffect DEF GrowPublish, ShrinkPublish, poolVars
  <2>2. LogicalBottom(d) = o.b
    BY <2>1 DEF StructureInv, OwnerIndices, LogicalBottom, Shifted, PushPC, CopyPC
  <2>3. Load(o.dst, i) = ItemAt(d, i)
    BY <1>0, <1>w, <1>c, <2>1, <2>2 DEF CopyUnderWay
  <2>4. PICK r : r = o.dst
    OBVIOUS
  <2>5. Load(r, i)' = Load(r, i)
    BY <2>1 DEF Load, Index
  <2> QED BY <1>l, <2>1, <2>3, <2>4, <2>5
<1>2. CASE ~GrowPublish(d) /\ ~ShrinkPublish(d)
  <2>1. active'[d] = a
    BY <1>a, <1>t, <1>2, SameArraySteps DEF SameArray
  <2>2. ItemAt(d, i)' = Load(a, i)' /\ ItemAt(d, i) = Load(a, i)
    BY <1>a, <1>l, <2>1 DEF ItemAt
  <2>3. CASE buf'[a].slots = buf[a].slots
    BY <2>2, <2>3, SameLoad
  <2>4. CASE \A r \in Record : SameContent(r)
    BY <2>3, <2>4 DEF SameContent
  <2>5. ASSUME NEW r \in Record, NEW q, Claim(r, q)
        PROVE  buf'[a].slots = buf[a].slots
    BY <1>t, <2>5, ClaimContent DEF SameContent
  <2>6. CASE GrowCopy(d) /\ o.dst \in Record /\ StoreNoMark(o.dst, o.i, Load(o.a, o.i))
    <3>1. o.dst # a
      BY <1>a, <2>6, GrowTarget DEF GrowCopy, OwnerAt
    <3> QED BY <1>0, <1>t, <2>3, <2>6, <3>1, StoreNoMarkContent DEF SameContent
  <2>7. CASE PushSlot(d) /\ o.a \in Record /\ Store(o.a, o.b, o.x)
    <3>1. o.a = a /\ o.pc = "pushSlot"
      BY <1>a, <2>7 DEF PushSlot, OwnerAt, StructureInv, OwnerPointers, PushPC
    <3>2. Index(a, i) # Index(a, o.b)
      BY <1>a, <3>1, PushSlotFree
    <3>3. Store(a, o.b, o.x)
      BY <2>7, <3>1
    <3>4. Load(a, i)' = Load(a, i)
      BY <1>0, <1>t, <3>2, <3>3, StoreContent
    <3> QED BY <2>2, <3>4
  <2>8. CASE ShrinkStart(d) /\ o.dst \in Record /\ LowerMark(o.dst, o.mark)
    <3>1. buf'[a].slots = buf[a].slots
      BY <1>t, <2>8, LowerMarkContent DEF SameContent
    <3> QED BY <2>3, <3>1
  <2>9. CASE ShrinkCopy(d) /\ o.dst \in Record /\ StoreNoMark(o.dst, o.i, Load(o.a, o.i))
    <3>1. o.dst # a
      BY <1>a, <2>9, ShrinkTarget DEF ShrinkCopy, OwnerAt, ShrinkPC, CopyPC
    <3> QED BY <1>0, <1>t, <2>3, <2>9, <3>1, StoreNoMarkContent DEF SameContent
  <2> QED BY <1>b, <2>3, <2>4, <2>5, <2>6, <2>7, <2>8, <2>9 DEF BufferStep
<1> QED BY <1>1, <1>2

-----------------------------------------------------------------------------
(* The item, the copy index and the mark in the owner's hands.             *)

\* What a push carries from statement to statement.
LEMMA PushLocals ==
  ASSUME TypeOK, NEW d \in Deque, PushStep(d)
  PROVE  LET o == owner[d]  n == owner'[d]  IN
         /\ TryPush(d) => n.x = <<d, pushed[d] + 1>>
         /\ ~TryPush(d) => n.pc = "idle" \/ n.x = o.x
         /\ GrowClaim(d) => n.i = o.t
         /\ GrowCopy(d) => n.i = o.i + 1
<1> DEFINE o == owner[d]
<1>1. o \in OwnerType
  BY DEF TypeOK
<1>2. CASE TryPush(d)
  <2>1. owner'[d] = [IdleOwner EXCEPT
               !.pc = IF NeedsRoom(active[d], bottom[d], cachedTop[d]) THEN "pushTop" ELSE "pushSlot",
               !.a = active[d], !.b = bottom[d], !.x = <<d, pushed[d] + 1>>]
    BY <1>1, <1>2, OwnerGoesFacts DEF TryPush
  <2>2. o.pc = "idle"
    BY <1>2 DEF TryPush, OwnerAt
  <2> QED BY <2>1, <2>2, <1>2 DEF IdleOwner, GrowClaim, GrowCopy, OwnerAt
<1>3. CASE PushReadTop(d)
  <2>1. owner'[d] = IF NeedsRoom(o.a, o.b, top[d])
              THEN [o EXCEPT !.t = top[d], !.pc = "grow", !.left = SizeClass(2 * Capacity[o.a])]
              ELSE [o EXCEPT !.t = top[d], !.pc = "pushSlot"]
    BY <1>1, <1>3, OwnerGoesFacts DEF PushReadTop, OwnerType
  <2>2. o.pc = "pushTop"
    BY <1>3 DEF PushReadTop, OwnerAt
  <2> QED BY <1>1, <2>1, <2>2 DEF OwnerType, TryPush, GrowClaim, GrowCopy, OwnerAt
<1>4. CASE GrowClaim(d)
  <2>1. PICK r \in o.left :
          owner'[d] = [o EXCEPT !.pc = "growCopy", !.dst = r, !.i = o.t, !.left = {}]
    BY <1>1, <1>4, OwnerGoesFacts DEF GrowClaim
  <2>2. o.pc = "grow" /\ owner'[d].x = o.x /\ owner'[d].i = o.t
    BY <1>1, <1>4, <2>1 DEF GrowClaim, OwnerAt, OwnerType
  <2> QED BY <2>2 DEF TryPush, GrowCopy, OwnerAt
<1>5. CASE GrowScan(d) \/ PushFails(d) \/ GrowPublish(d) \/ PushSlot(d) \/ PushBottom(d)
  <2>1. o.pc \in {"grow", "growCopy", "pushSlot", "pushBottom"} /\ ~TryPush(d)
    BY <1>5 DEF GrowScan, PushFails, GrowPublish, PushSlot, PushBottom, TryPush, OwnerAt
  <2>2. owner'[d].pc = "idle" \/ owner'[d].x = o.x
    <3>1. CASE GrowScan(d)
      BY <1>1, <3>1, OwnerGoesFacts DEF GrowScan, OwnerType
    <3>2. CASE GrowPublish(d)
      <4>1. owner'[d] = [o EXCEPT !.pc = "pushSlot", !.a = o.dst]
        BY <3>2, OwnerGoesFacts DEF GrowPublish
      <4> QED BY <1>1, <4>1 DEF OwnerType
    <3>3. CASE PushSlot(d)
      BY <1>1, <3>3, OwnerGoesFacts DEF PushSlot, OwnerType
    <3> QED BY <1>5, <3>1, <3>2, <3>3, PushFailsEffect, PushBottomEffect
  <2>3. owner'[d].pc # "growCopy" \/ GrowCopy(d)
    BY <1>1, <1>5, GrowScanEffect, PushFailsEffect, GrowPublishEffect, PushSlotEffect, PushBottomEffect
  <2>4. GrowClaim(d) => owner'[d].i = o.t
    <3>1. GrowClaim(d) => owner'[d].pc = "growCopy"
      BY GrowClaimEffect
    <3> QED BY <1>5, <2>3, <3>1 DEF GrowCopy, GrowClaim, OwnerAt
  <2>5. GrowCopy(d) => owner'[d].i = o.i + 1
    BY <1>1, OwnerGoesFacts DEF GrowCopy, OwnerType
  <2> QED BY <2>1, <2>2, <2>4, <2>5
<1>6. CASE GrowCopy(d)
  <2>1. owner'[d] = [o EXCEPT !.i = @ + 1] /\ o.pc = "growCopy"
    BY <1>1, <1>6, OwnerGoesFacts DEF GrowCopy, OwnerAt
  <2> QED BY <1>1, <2>1 DEF OwnerType, TryPush, GrowClaim, OwnerAt
<1> QED BY <1>2, <1>3, <1>4, <1>5, <1>6 DEF PushStep

\* The ways a pop can go on once it has read top_.
LEMMA PopReadTopLocals ==
  ASSUME TypeOK, NEW d \in Deque, PopReadTop(d)
  PROVE  LET o == owner[d]  n == owner'[d]  x == Load(owner[d].a, owner[d].b)  IN
         \/ n.pc = "popRestore" /\ o.b < top[d] /\ UNCHANGED returned
         \/ n.pc = "popCas" /\ o.b = top[d] /\ n.t = top[d] /\ n.x = x /\ UNCHANGED returned
         \/ n.pc = "idle" /\ o.b > top[d] /\ Deliver(d, x)
         \/ /\ n.pc = "shrinkWalk" /\ o.b > top[d] /\ CanShrink(d, o.a, o.b, top[d])
            /\ n.x = x /\ n.dst = buf[o.a].prev
            /\ n.mark = MinMark(buf[o.a].low, buf[buf[o.a].prev].low) /\ UNCHANGED returned
<1> DEFINE o == owner[d]
           h == [o EXCEPT !.t = top[d]]
           x == Load(o.a, o.b)
           mark == MinMark(buf[o.a].low, buf[buf[o.a].prev].low)
<1>1. o \in OwnerType /\ top[d] \in Int
  BY DEF TypeOK
<1>2. h.a = o.a /\ h.b = o.b /\ h.t = top[d]
  BY <1>1 DEF OwnerType
<1>3. CASE o.b < top[d] /\ owner'[d] = [h EXCEPT !.pc = "popRestore"] /\ UNCHANGED returned
  BY <1>1, <1>3 DEF OwnerType
<1>4. CASE o.b = top[d] /\ owner'[d] = [h EXCEPT !.pc = "popCas", !.x = x] /\ UNCHANGED returned
  BY <1>1, <1>4 DEF OwnerType
<1>5. CASE o.b > top[d] /\ owner'[d] = IdleOwner /\ Deliver(d, x)
  BY <1>1, <1>5 DEF IdleOwner
<1>6. CASE /\ o.b > top[d] /\ CanShrink(d, o.a, o.b, top[d])
           /\ owner'[d] = [h EXCEPT !.pc = "shrinkWalk", !.x = x, !.dst = buf[o.a].prev,
                                     !.mark = mark]
           /\ UNCHANGED returned
  BY <1>1, <1>6 DEF OwnerType
<1> HIDE DEF h
<1>8. \/ o.b < top[d] /\ OwnerGoes(d, [h EXCEPT !.pc = "popRestore"]) /\ UNCHANGED returned
      \/ o.b = top[d] /\ OwnerGoes(d, [h EXCEPT !.pc = "popCas", !.x = x]) /\ UNCHANGED returned
      \/ o.b > top[d] /\ OwnerReturns(d) /\ Deliver(d, x)
      \/ /\ o.b > top[d] /\ CanShrink(d, o.a, o.b, top[d])
         /\ OwnerGoes(d, [h EXCEPT !.pc = "shrinkWalk", !.x = x, !.dst = buf[o.a].prev,
                                   !.mark = mark])
         /\ UNCHANGED returned
  BY <1>2, SMTT(30) DEF PopReadTop, h
<1> QED BY <1>3, <1>4, <1>5, <1>6, <1>8, OwnerGoesFacts DEF OwnerReturns

\* A pop that races for the last item keeps hold of it.
LEMMA PopCasLocals ==
  ASSUME TypeOK, NEW d \in Deque, PopCas(d)
  PROVE  owner'[d].x = owner[d].x
<1>1. owner[d] \in OwnerType
  BY DEF TypeOK
<1> QED BY <1>1, OwnerGoesFacts DEF PopCas, OwnerType

\* What a shrink carries from statement to statement.
LEMMA ShrinkLocals ==
  ASSUME TypeOK, NEW d \in Deque, ShrinkStep(d)
  PROVE  LET o == owner[d]  n == owner'[d]  IN
         /\ ShrinkRelease(d) \/ n.x = o.x
         /\ ShrinkWalk(d) => n.mark = MinMark(o.mark, buf[buf[o.dst].prev].low)
         /\ ShrinkStart(d) => n.i = CopyStart(o.t, o.b, o.mark)
         /\ ShrinkCopy(d) => n.i = o.i + 1
<1> DEFINE o == owner[d]
<1>1. o \in OwnerType
  BY DEF TypeOK
<1>2. CASE ShrinkWalk(d)
  <2>1. owner'[d] = [o EXCEPT !.dst = buf[o.dst].prev, !.mark = MinMark(@, buf[buf[o.dst].prev].low)]
    BY <1>1, <1>2, OwnerGoesFacts DEF ShrinkWalk
  <2>2. CanShrink(d, o.dst, o.b, o.t) /\ o.pc = "shrinkWalk"
    BY <1>2 DEF ShrinkWalk, OwnerAt
  <2> QED BY <1>1, <2>1, <2>2 DEF OwnerType, ShrinkStart, ShrinkCopy, OwnerAt
<1>3. CASE ShrinkStart(d)
  <2>1. owner'[d] = [o EXCEPT !.pc = "shrinkCopy", !.i = CopyStart(o.t, o.b, o.mark)]
    BY <1>1, <1>3, OwnerGoesFacts DEF ShrinkStart
  <2>2. ~CanShrink(d, o.dst, o.b, o.t) /\ o.pc = "shrinkWalk"
    BY <1>3 DEF ShrinkStart, OwnerAt
  <2> QED BY <1>1, <2>1, <2>2 DEF OwnerType, ShrinkWalk, ShrinkCopy, OwnerAt
<1>4. CASE ShrinkCopy(d)
  <2>1. owner'[d] = [o EXCEPT !.i = @ + 1] /\ o.pc = "shrinkCopy"
    BY <1>1, <1>4, OwnerGoesFacts DEF ShrinkCopy, OwnerAt
  <2> QED BY <1>1, <2>1 DEF OwnerType, ShrinkWalk, ShrinkStart, OwnerAt
<1>5. CASE ShrinkPublish(d) \/ ShrinkShift(d) \/ ShrinkReadTop(d) \/ ShrinkCas(d) \/ ShrinkRestore(d)
  <2>1. /\ o.pc \in {"shrinkCopy", "shrinkShift", "shrinkTop", "shrinkCas", "shrinkRestore"}
        /\ owner'[d].pc # "shrinkCopy"
    BY <1>5, ShrinkPublishEffect, ShrinkShiftEffect, ShrinkReadTopEffect, ShrinkCasEffect,
       ShrinkRestoreEffect
  <2>2. owner'[d].x = o.x
    <3>1. CASE ShrinkPublish(d)
      BY <1>1, <3>1, OwnerGoesFacts DEF ShrinkPublish, OwnerType
    <3>2. CASE ShrinkShift(d)
      BY <1>1, <3>2, OwnerGoesFacts DEF ShrinkShift, OwnerType
    <3>3. CASE ShrinkReadTop(d)
      <4>1. owner'[d] = [o EXCEPT !.pc = "shrinkCas", !.snap = top[d]]
        BY <3>3, OwnerGoesFacts DEF ShrinkReadTop
      <4> QED BY <1>1, <4>1 DEF OwnerType
    <3>4. CASE ShrinkCas(d)
      BY <1>1, <3>4, OwnerGoesFacts DEF ShrinkCas, OwnerType
    <3>5. CASE ShrinkRestore(d)
      BY <1>1, <3>5, OwnerGoesFacts DEF ShrinkRestore, OwnerType
    <3> QED BY <1>5, <3>1, <3>2, <3>3, <3>4, <3>5
  <2>3. ~ShrinkWalk(d) /\ ~ShrinkStart(d)
    BY <2>1 DEF ShrinkWalk, ShrinkStart, OwnerAt
  <2>4. ~ShrinkCopy(d)
    BY <2>1, ShrinkCopyEffect
  <2> QED BY <2>2, <2>3, <2>4
<1>6. CASE ShrinkRelease(d)
  <2>1. o.pc = "shrinkRelease"
    BY <1>6 DEF ShrinkRelease, OwnerAt
  <2> QED BY <1>6, <2>1 DEF ShrinkWalk, ShrinkStart, ShrinkCopy, OwnerAt
<1> QED BY <1>2, <1>3, <1>4, <1>5, <1>6 DEF ShrinkStep

\* Only a push that ends counts an item, only a construction starts anew, and
\* only the end of a pop returns an item: the one it held.
LEMMA OwnHistory ==
  ASSUME TypeOK, NEW d \in Deque, OwnerStep(d)
  PROVE  LET o == owner[d] IN
         /\ PushBottom(d) \/ pushed'[d] = pushed[d]
         /\ PushBottom(d) => pushed'[d] = pushed[d] + 1
         /\ ConstructClaim(d) \/ base'[d] = base[d]
         /\ ConstructClaim(d) => base'[d] = pushed[d]
         /\ \/ UNCHANGED returned
            \/ PopReadTop(d)
            \/ PopSettle(d) /\ o.pc = "popWon" /\ Deliver(d, o.x)
            \/ ShrinkRelease(d) /\ owner'[d].pc = "idle" /\ Deliver(d, o.x)
<1> USE DEF TypeOK, history
<1>1. CASE LifeStep(d)
  BY <1>1 DEF LifeStep, Construct, ConstructClaim, ConstructScan, ConstructFails, Destroy,
     DestroyRelease, PushBottom, OwnerAt
<1>2. CASE PushStep(d)
  BY <1>2 DEF PushStep, TryPush, PushReadTop, GrowClaim, GrowScan, PushFails, GrowCopy,
     GrowPublish, PushSlot, PushBottom, ConstructClaim, OwnerAt
<1>3. CASE PopStep(d)
  BY <1>3 DEF PopStep, Pop, PopReadTop, PopRestore, PopCas, PopSettle, PushBottom, ConstructClaim,
     OwnerAt
<1>4. CASE ShrinkStep(d)
  <2>1. CASE ShrinkRelease(d)
    <3>1. (owner'[d].pc = "idle" /\ Deliver(d, owner[d].x)) \/ UNCHANGED returned
      BY <2>1, OwnerGoesFacts DEF ShrinkRelease, OwnerReturns, IdleOwner
    <3> QED BY <2>1, <3>1 DEF ShrinkRelease, PushBottom, ConstructClaim, OwnerAt
  <2> QED BY <1>4, <2>1 DEF ShrinkStep, ShrinkWalk, ShrinkStart, ShrinkCopy, ShrinkPublish, ShrinkShift,
     ShrinkReadTop, ShrinkCas, ShrinkRestore, PushBottom, ConstructClaim, OwnerAt
<1> QED BY <1>1, <1>2, <1>3, <1>4 DEF OwnerStep

-----------------------------------------------------------------------------
(***************************************************************************)
(* Third part: every step keeps the items where the indices and the owner's*)
(* locals say, the arrays below the active one as the low-water marks      *)
(* describe them, a copy under way on its course, and the claims of the    *)
(* thieves current.                                                        *)
(***************************************************************************)

(* The items of one deque, before and after a step of its owner.           *)

\* A step after which the items of d are those before it, at indices moved by
\* c, but for those that it has returned.
LEMMA ItemsLess ==
  ASSUME NEW d \in Deque, ItemsKept(d), NEW c \in Int, NEW gone,
         Window(d) \subseteq Int, Window(d)' \subseteq Int,
         pushed'[d] = pushed[d], base'[d] = base[d],
         \A i \in Window(d)' : i - c \in Window(d) /\ ItemAt(d, i)' = ItemAt(d, i - c),
         Pending(d)' \cup Held(d)' = (Pending(d) \cup Held(d)) \ gone,
         \A v \in Pending(d)', w \in Held(d)' : v[2] < w[2],
         \A v \in gone : returned'[d][v] = 1,
         \A v \in Present(d) \ gone : returned'[d][v] = returned[d][v]
  PROVE  ItemsKept(d)'
<1>1. Present(d)' = Present(d)
  BY DEF Present
<1>2. (Pending(d) \cup Held(d) \subseteq {v \in Present(d) : returned[d][v] = 0})'
  BY <1>1 DEF ItemsKept
<1>3. (\A i, j \in Window(d) : i < j => ItemAt(d, i)[2] < ItemAt(d, j)[2])'
  <2>1. ASSUME NEW i \in Window(d)', NEW j \in Window(d)', i < j
        PROVE  ItemAt(d, i)'[2] < ItemAt(d, j)'[2]
    <3>1. i - c \in Window(d) /\ j - c \in Window(d) /\ i \in Int /\ j \in Int
      OBVIOUS
    <3>2. i - c < j - c
      BY <2>1, <3>1
    <3>3. ItemAt(d, i - c)[2] < ItemAt(d, j - c)[2]
      BY <3>1, <3>2 DEF ItemsKept
    <3> QED BY <3>3
  <2> QED BY <2>1
<1>4. (\A v \in Present(d) : v \in Pending(d) \cup Held(d) \/ returned[d][v] = 1)'
  BY <1>1 DEF ItemsKept
<1> QED BY <1>2, <1>3, <1>4 DEF ItemsKept

\* A step that returns none of them.
LEMMA ItemsMoved ==
  ASSUME NEW d \in Deque, ItemsKept(d), NEW c \in Int,
         Window(d) \subseteq Int, Window(d)' \subseteq Int,
         pushed'[d] = pushed[d], base'[d] = base[d], returned'[d] = returned[d],
         \A i \in Window(d)' : i - c \in Window(d) /\ ItemAt(d, i)' = ItemAt(d, i - c),
         Pending(d)' \cup Held(d)' = Pending(d) \cup Held(d),
         \A v \in Pending(d)', w \in Held(d)' : v[2] < w[2]
  PROVE  ItemsKept(d)'
<1>1. PICK gone : gone = {}
  OBVIOUS
<1>2. Pending(d)' \cup Held(d)' = (Pending(d) \cup Held(d)) \ gone
  BY <1>1
<1>3. /\ \A v \in gone : returned'[d][v] = 1
      /\ \A v \in Present(d) \ gone : returned'[d][v] = returned[d][v]
  BY <1>1
<1> QED BY <1>2, <1>3, ItemsLess

\* A step that leaves the items where they are.
LEMMA ItemsSame ==
  ASSUME NEW d \in Deque, ItemsKept(d), Window(d) \subseteq Int,
         pushed'[d] = pushed[d], base'[d] = base[d], returned'[d] = returned[d],
         Window(d)' = Window(d), Held(d)' = Held(d),
         \A i \in Window(d) : ItemAt(d, i)' = ItemAt(d, i)
  PROVE  ItemsKept(d)'
<1>1. Present(d)' = Present(d)
  BY DEF Present
<1>2. Pending(d)' = Pending(d)
  BY DEF Pending
<1> QED BY <1>1, <1>2 DEF ItemsKept

\* The items pushed since the construction are values.
LEMMA PresentType ==
  ASSUME TypeOK, NEW d \in Deque, ReturnedOnce(d), NEW v \in Present(d)
  PROVE  v \in Value /\ \E k \in 1..pushed[d] : v = <<d, k>>
<1>1. base[d] \in Nat /\ pushed[d] \in Nat /\ MaxItems[d] \in Nat /\ pushed[d] <= MaxItems[d]
  BY DequeAssumption DEF TypeOK, ReturnedOnce
<1>2. PICK k \in base[d] + 1 .. pushed[d] : v = <<d, k>>
  BY DEF Present
<1>3. k \in 1..pushed[d] /\ k \in 1..MaxItems[d]
  BY <1>1, <1>2
<1>4. v \in {d} \X (1..MaxItems[d])
  BY <1>2, <1>3
<1> QED BY <1>2, <1>3, <1>4, ValueAssumption DEF Item

\* An item that was not returned is returned.
LEMMA OneReturned ==
  ASSUME TypeOK, NEW d \in Deque, ReturnedOnce(d), NEW x \in Present(d), returned[d][x] = 0,
         Deliver(d, x), pushed'[d] = pushed[d]
  PROVE  /\ returned'[d][x] = 1
         /\ \A v \in Present(d) \ {x} : returned'[d][v] = returned[d][v]
         /\ ReturnedOnce(d)'
<1>t. returned[d] \in [Value -> Nat] /\ returned \in [Deque -> [Value -> Nat]]
  BY DEF TypeOK
<1>1. x \in Value /\ \E k \in 1..pushed[d] : x = <<d, k>>
  BY PresentType
<1>2. returned'[d] = [returned[d] EXCEPT ![x] = @ + 1]
  BY <1>t DEF Deliver
<1>3. returned'[d][x] = 1 /\ \A v \in Value \ {x} : returned'[d][v] = returned[d][v]
  BY <1>t, <1>1, <1>2
<1>4. ReturnedOnce(d)'
  BY <1>1, <1>3 DEF ReturnedOnce
<1> QED BY <1>3, <1>4, PresentType

\* The end of a pop returns the item it held.
LEMMA HeldDelivered ==
  ASSUME TypeOK, NEW d \in Deque, ItemsKept(d), ReturnedOnce(d), Window(d) \subseteq Int,
         pushed'[d] = pushed[d], base'[d] = base[d],
         NEW x, Held(d) = {x}, Deliver(d, x),
         Window(d)' = Window(d), Held(d)' = {},
         \A i \in Window(d) : ItemAt(d, i)' = ItemAt(d, i)
  PROVE  ItemsKept(d)' /\ ReturnedOnce(d)'
<1>1. x \in Present(d) /\ returned[d][x] = 0
  BY DEF ItemsKept
<1>2. /\ returned'[d][x] = 1
      /\ \A v \in Present(d) \ {x} : returned'[d][v] = returned[d][v]
      /\ ReturnedOnce(d)'
  BY <1>1, OneReturned
<1>3. Pending(d)' = Pending(d)
  BY DEF Pending
<1>4. x \notin Pending(d)
  <2>1. x[2] \in Int
    BY <1>1 DEF Present, TypeOK
  <2> QED BY <2>1 DEF ItemsKept
<1>5. ItemsKept(d)'
  <2>1. \A i \in Window(d)' : i - 0 \in Window(d) /\ ItemAt(d, i)' = ItemAt(d, i - 0)
    OBVIOUS
  <2>2. Pending(d)' \cup Held(d)' = (Pending(d) \cup Held(d)) \ {x}
    BY <1>3, <1>4
  <2> QED BY <1>2, <2>1, <2>2, ItemsLess
<1> QED BY <1>2, <1>5

\* A push appends the next item.
LEMMA ItemAppended ==
  ASSUME TypeOK, NEW d \in Deque, ItemsKept(d), ReturnedOnce(d), OwnersItem(d),
         NEW b \in Int, top[d] \in Int, top[d] <= b,
         Window(d) = top[d] .. b - 1, Window(d)' = top[d] .. b,
         \A i \in Window(d) : ItemAt(d, i)' = ItemAt(d, i),
         ItemAt(d, b)' = <<d, pushed[d] + 1>>, pushed[d] < MaxItems[d],
         pushed'[d] = pushed[d] + 1, base'[d] = base[d], UNCHANGED returned,
         Held(d) = {}, Held(d)' = {}
  PROVE  ItemsKept(d)' /\ ReturnedOnce(d)'
<1> DEFINE x == <<d, pushed[d] + 1>>
<1>t. /\ base[d] \in Nat /\ pushed[d] \in Nat /\ MaxItems[d] \in Nat /\ base[d] <= pushed[d]
      /\ returned[d] \in [Value -> Nat]
  BY DequeAssumption DEF TypeOK, OwnersItem
<1>1. x \in Value
  BY NextItemType
<1>2. returned[d][x] = 0
  <2>1. ~ \E k \in 1..pushed[d] : x = <<d, k>>
    BY <1>t
  <2>2. returned[d][x] \in Nat /\ returned[d][x] <= 0
    BY <1>1, <1>t, <2>1 DEF ReturnedOnce
  <2> QED BY <2>2
<1>3. Present(d)' = Present(d) \cup {x}
  <2>1. base[d] + 1 .. pushed[d] + 1 = (base[d] + 1 .. pushed[d]) \cup {pushed[d] + 1}
    BY <1>t
  <2> QED BY <2>1 DEF Present
<1>4. Window(d)' = Window(d) \cup {b}
  OBVIOUS
<1>5. Pending(d)' = Pending(d) \cup {x}
  BY <1>4 DEF Pending
<1>6. (Pending(d) \cup Held(d) \subseteq {v \in Present(d) : returned[d][v] = 0})'
  BY <1>2, <1>3, <1>5 DEF ItemsKept
<1>7. (\A v \in Present(d) : v \in Pending(d) \cup Held(d) \/ returned[d][v] = 1)'
  BY <1>3, <1>5 DEF ItemsKept
<1>8. \A v \in Present(d) : v[2] < pushed[d] + 1
  BY <1>t DEF Present
<1>9. (\A i, j \in Window(d) : i < j => ItemAt(d, i)[2] < ItemAt(d, j)[2])'
  <2>1. ASSUME NEW i \in Window(d)', NEW j \in Window(d)', i < j
        PROVE  ItemAt(d, i)'[2] < ItemAt(d, j)'[2]
    <3>1. i \in Window(d)
      BY <2>1
    <3>2. CASE j = b
      <4>1. ItemAt(d, i) \in Present(d)
        BY <3>1 DEF ItemsKept, Pending
      <4> QED BY <1>8, <3>1, <3>2, <4>1
    <3>3. CASE j # b
      BY <2>1, <3>1, <3>3, <1>4 DEF ItemsKept
    <3> QED BY <3>2, <3>3
  <2> QED BY <2>1
<1>10. ItemsKept(d)'
  BY <1>6, <1>7, <1>9 DEF ItemsKept
<1>11. ReturnedOnce(d)'
  <2>1. (pushed[d] <= MaxItems[d])'
    BY <1>t
  <2>2. 1..pushed[d] \subseteq 1..pushed'[d]
    BY <1>t
  <2>3. ASSUME NEW v \in Value
        PROVE  returned'[d][v] <= IF \E k \in 1..pushed'[d] : v = <<d, k>> THEN 1 ELSE 0
    BY <1>t, <2>2 DEF ReturnedOnce
  <2> QED BY <2>1, <2>3 DEF ReturnedOnce
<1> QED BY <1>10, <1>11

\* Where an owner holds an item that no index covers any more.
HoldPC == {"popWon", "shrinkWalk", "shrinkCopy", "shrinkShift", "shrinkTop",
           "shrinkCas", "shrinkRestore", "shrinkRelease"}

\* The item the owner holds, by the statement it is at,
LEMMA HeldCases ==
  ASSUME NEW d
  PROVE  LET o == owner[d] IN
         /\ o.pc = "popTop" => Held(d) = IF top[d] <= o.b THEN {ItemAt(d, o.b)} ELSE {}
         /\ o.pc = "popCas" => Held(d) = IF top[d] = o.t THEN {o.x} ELSE {}
         /\ o.pc \in HoldPC => Held(d) = {o.x}
         /\ o.pc \notin HoldPC \cup {"popTop", "popCas"} => Held(d) = {}
BY DEF Held, HoldPC

\* and the same of the state after a step.
LEMMA HeldCasesNext ==
  ASSUME NEW d
  PROVE  LET n == owner'[d] IN
         /\ n.pc = "popTop" => Held(d)' = IF top'[d] <= n.b THEN {ItemAt(d, owner[d].b)'} ELSE {}
         /\ n.pc = "popCas" => Held(d)' = IF top'[d] = n.t THEN {n.x} ELSE {}
         /\ n.pc \in HoldPC => Held(d)' = {n.x}
         /\ n.pc \notin HoldPC \cup {"popTop", "popCas"} => Held(d)' = {}
BY DEF Held, HoldPC

\* What an owner's step does to the range of the waiting items.
LEMMA OwnWindow ==
  ASSUME StructureInv, NEW d \in Deque, OwnerStep(d), Live(d)
  PROVE  \/ PushBottom(d) /\ SameTop(d) /\ LogicalBottom(d) = owner[d].b /\ LogicalBottom(d)' = owner[d].b + 1
         \/ Pop(d) /\ SameTop(d) /\ LogicalBottom(d) = bottom[d] /\ LogicalBottom(d)' = bottom[d] - 1
         \/ /\ ShrinkCas(d) /\ owner[d].snap = top[d] /\ owner'[d].pc = "shrinkRelease"
            /\ top'[d] = top[d] + Capacity[active[d]]
            /\ LogicalBottom(d)' = LogicalBottom(d) + Capacity[active[d]]
         \/ ~PushBottom(d) /\ ~Pop(d) /\ SameTop(d) /\ LogicalBottom(d)' = LogicalBottom(d)
         \/ /\ PopRestore(d) \/ PopCas(d) \/ PopSettle(d)
            /\ LogicalBottom(d) <= top[d] /\ LogicalBottom(d)' <= top'[d]
<1> DEFINE o == owner[d]
           n == owner'[d]
<1>t. TypeOK
  BY DEF StructureInv
<1>p. OwnerIndices(d)
  BY DEF StructureInv
<1>i. /\ top[d] \in Int /\ bottom[d] \in Int /\ o.b \in Int /\ o.t \in Int /\ o.snap \in Int
      /\ Capacity[active[d]] \in Nat \ {0}
  BY LiveFacts
<1> USE <1>t, <1>p, <1>i DEF LogicalBottom, Shifted, SameTop, SameBottom
<1>1. CASE LifeStep(d)
  <2>1. Destroy(d)
    BY <1>1 DEF LifeStep, Live, Construct, ConstructClaim, ConstructScan, ConstructFails,
       DestroyRelease, OwnerAt
  <2>2. ~PushBottom(d) /\ ~Pop(d)
    <3>1. o.pc = "idle" /\ n.pc = "destroy"
      BY <2>1, DestroyEffect
    <3> QED BY <3>1, PopEffect DEF PushBottom, OwnerAt
  <2> QED BY <2>1, <2>2, DestroyEffect
<1>2. CASE PushStep(d)
  <2>1. CASE PushBottom(d)
    BY <2>1, PushBottomEffect DEF OwnerIndices, PushPC
  <2>2. CASE ~PushBottom(d)
    <3>1. /\ SameTop(d) /\ SameBottom(d) /\ o.pc \in PushPC \cup {"idle"} /\ n.pc \in PushPC \cup {"idle"}
      BY <1>2, <2>2, TryPushEffect, PushReadTopEffect, GrowClaimEffect, GrowScanEffect,
         PushFailsEffect, GrowCopyEffect, GrowPublishEffect, PushSlotEffect DEF PushStep, PushPC
    <3>2. ~Pop(d)
      BY <3>1, PopEffect DEF PushPC
    <3> QED BY <2>2, <3>1, <3>2 DEF PushPC
  <2> QED BY <2>1, <2>2
<1>3. CASE PopStep(d)
  <2>1. CASE Pop(d)
    BY <2>1, PopEffect
  <2>2. CASE PopReadTop(d)
    <3>1. ~Pop(d) /\ ~PushBottom(d) /\ o.pc = "popTop"
      BY <2>2 DEF PopReadTop, Pop, PushBottom, OwnerAt
    <3> QED BY <2>2, <3>1, PopReadTopEffect
  <2>3. CASE PopRestore(d)
    BY <2>3, PopRestoreEffect DEF OwnerIndices
  <2>4. CASE PopCas(d)
    BY <2>4, PopCasEffect DEF OwnerIndices
  <2>5. CASE PopSettle(d)
    BY <2>5, PopSettleEffect DEF OwnerIndices
  <2> QED BY <1>3, <2>1, <2>2, <2>3, <2>4, <2>5 DEF PopStep
<1>4. CASE ShrinkStep(d)
  <2>0. ~Pop(d) /\ ~PushBottom(d)
    BY <1>4 DEF ShrinkStep, ShrinkWalk, ShrinkStart, ShrinkCopy, ShrinkPublish, ShrinkShift,
       ShrinkReadTop, ShrinkCas, ShrinkRestore, ShrinkRelease, Pop, PushBottom, OwnerAt
  <2>1. CASE ShrinkWalk(d) \/ ShrinkStart(d) \/ ShrinkCopy(d) \/ ShrinkPublish(d)
    BY <2>0, <2>1, ShrinkWalkEffect, ShrinkStartEffect, ShrinkCopyEffect, ShrinkPublishEffect
  <2>2. CASE ShrinkShift(d)
    BY <2>0, <2>2, ShrinkShiftEffect DEF OwnerIndices
  <2>3. CASE ShrinkReadTop(d) \/ ShrinkRelease(d)
    BY <2>0, <2>3, ShrinkReadTopEffect, ShrinkReleaseEffect
  <2>4. CASE ShrinkRestore(d)
    BY <2>0, <2>4, ShrinkRestoreEffect
  <2>5. CASE ShrinkCas(d)
    <3>1. o.dst = active[d] /\ bottom[d] = o.b + Capacity[active[d]]
      BY <2>5 DEF ShrinkCas, OwnerAt, StructureInv, OwnerPointers, OwnerIndices
    <3> QED BY <2>0, <2>5, <3>1, ShrinkCasEffect
  <2> QED BY <1>4, <2>1, <2>2, <2>3, <2>4, <2>5 DEF ShrinkStep
<1> QED BY <1>1, <1>2, <1>3, <1>4 DEF OwnerStep

\* The same as sets of indices.
LEMMA OwnWindows ==
  ASSUME StructureInv, NEW d \in Deque, OwnerStep(d), Live(d)
  PROVE  /\ Window(d)' \subseteq Int
         /\ PushBottom(d) => Window(d) = top[d] .. owner[d].b - 1 /\ Window(d)' = top[d] .. owner[d].b
         /\ Pop(d) => Window(d)' = Window(d) \ {bottom[d] - 1}
         /\ ~PushBottom(d) /\ ~Pop(d) =>
              \/ Window(d)' = Window(d)
              \/ /\ ShrinkCas(d) /\ owner'[d].pc = "shrinkRelease" /\ top'[d] # top[d]
                 /\ Window(d)' = {i + Capacity[active[d]] : i \in Window(d)}
<1>i. /\ top[d] \in Int /\ bottom[d] \in Int /\ owner[d].b \in Int /\ LogicalBottom(d) \in Int
      /\ Capacity[active[d]] \in Nat \ {0}
  BY LiveFacts
<1>n. top'[d] \in Int /\ LogicalBottom(d)' \in Int
  <2>1. TypeOK'
    BY OwnerStepInv DEF StructureInv
  <2> QED BY <2>1 DEF TypeOK, OwnerType, LogicalBottom
<1>1. Window(d) = {i \in Int : top[d] <= i /\ i < LogicalBottom(d)}
  BY <1>i DEF Window
<1>2. Window(d)' = {i \in Int : top'[d] <= i /\ i < LogicalBottom(d)'}
  BY <1>n DEF Window
<1>3. ~(PushBottom(d) /\ Pop(d))
  BY DEF PushBottom, Pop, OwnerAt
<1>c. PushBottom(d) \/ Pop(d) => ~(ShrinkCas(d) \/ PopRestore(d) \/ PopCas(d) \/ PopSettle(d))
  BY DEF PushBottom, Pop, ShrinkCas, PopRestore, PopCas, PopSettle, OwnerAt
<1>4. CASE PushBottom(d)
  <2>1. SameTop(d) /\ LogicalBottom(d) = owner[d].b /\ LogicalBottom(d)' = owner[d].b + 1
    BY <1>3, <1>4, <1>c, OwnWindow
  <2>2. Window(d) = top[d] .. owner[d].b - 1
    BY <2>1 DEF Window
  <2>3. Window(d)' = top[d] .. owner[d].b
    BY <1>i, <1>2, <2>1 DEF SameTop
  <2> QED BY <1>3, <1>4, <2>2, <2>3
<1>5. CASE Pop(d)
  <2>1. SameTop(d) /\ LogicalBottom(d) = bottom[d] /\ LogicalBottom(d)' = bottom[d] - 1
    BY <1>3, <1>5, <1>c, OwnWindow
  <2>2. Window(d)' = Window(d) \ {bottom[d] - 1}
    BY <1>i, <1>1, <1>2, <2>1 DEF SameTop
  <2>3. Window(d)' \subseteq Int
    BY <1>2
  <2> QED BY <1>3, <1>5, <2>2, <2>3
<1>6. CASE ~PushBottom(d) /\ ~Pop(d)
  <2>1. CASE SameTop(d) /\ LogicalBottom(d)' = LogicalBottom(d)
    BY <1>6, <1>1, <1>2, <2>1 DEF SameTop
  <2>2. CASE LogicalBottom(d) <= top[d] /\ LogicalBottom(d)' <= top'[d]
    <3>1. Window(d) = {} /\ Window(d)' = {}
      BY <1>i, <1>n, <1>1, <1>2, <2>2
    <3> QED BY <1>6, <3>1
  <2>3. CASE /\ ShrinkCas(d) /\ owner'[d].pc = "shrinkRelease"
             /\ top'[d] = top[d] + Capacity[active[d]]
             /\ LogicalBottom(d)' = LogicalBottom(d) + Capacity[active[d]]
    <3>1. PICK c \in Nat \ {0} : c = Capacity[active[d]]
      BY <1>i
    <3>2. \A i \in Window(d) : i + c \in Window(d)'
      BY <1>i, <1>1, <1>2, <2>3, <3>1
    <3>3. \A j \in Window(d)' : j - c \in Window(d) /\ j = (j - c) + c
      BY <1>i, <1>1, <1>2, <2>3, <3>1
    <3>4. Window(d)' = {i + c : i \in Window(d)}
      BY <3>2, <3>3
    <3>5. top'[d] # top[d]
      BY <1>i, <2>3
    <3> QED BY <1>2, <1>6, <2>3, <3>1, <3>4, <3>5
  <2> QED BY <1>6, <2>1, <2>2, <2>3, OwnWindow
<1> QED BY <1>4, <1>5, <1>6

\* Indices a multiple of the capacity apart share a slot.
LEMMA WrapAround ==
  ASSUME NEW r \in Record, NEW i \in Int, NEW c \in Int, c % Capacity[r] = 0
  PROVE  Load(r, i + c) = Load(r, i)
<1>1. Capacity[r] \in Nat \ {0}
  BY RecordFacts
<1>2. (i + c) % Capacity[r] = i % Capacity[r]
  BY <1>1, ModShift
<1> QED BY <1>2 DEF Load, Index

\* An item at an index is the same before and after a step on other things.
LEMMA ItemFrame ==
  ASSUME NEW d, UNCHANGED buf, active'[d] = active[d]
  PROVE  \A i : ItemAt(d, i)' = ItemAt(d, i)
BY DEF ItemAt, Load, Index

\* Publishing bottom_ makes the stored item the newest one.
LEMMA PushBottomItems ==
  ASSUME StructureInv, NEW holder \in Holders, ChainsHeld(holder), NEW d \in Deque,
         Contents(d, holder), ReturnedOnce(d), PushBottom(d)
  PROVE  ItemsKept(d)' /\ ReturnedOnce(d)'
<1> DEFINE o == owner[d]
<1>t. TypeOK
  BY DEF StructureInv
<1>1. /\ o.pc = "pushBottom" /\ owner'[d].pc = "idle" /\ SameArray(d) /\ SameTop(d) /\ Live(d)
  BY <1>t, PushBottomEffect DEF Live
<1>2. ItemsKept(d) /\ OwnersItem(d)
  BY <1>1 DEF Contents
<1>3. /\ OwnerStep(d) /\ UNCHANGED <<buf, returned>>
  BY DEF PushBottom, OwnerStep, PushStep, poolVars
<1>4. /\ pushed'[d] = pushed[d] + 1 /\ base'[d] = base[d]
  BY <1>t, <1>1, <1>3, OwnHistory DEF ConstructClaim, OwnerAt
<1>5. /\ Window(d) = top[d] .. o.b - 1 /\ Window(d)' = top[d] .. o.b
  BY <1>1, <1>3, OwnWindows
<1>6. \A i : ItemAt(d, i)' = ItemAt(d, i)
  BY <1>1, <1>3, ItemFrame DEF SameArray
<1>7. PICK b \in Int : b = o.b
  BY <1>1, LiveFacts
<1>8. top[d] <= b /\ top[d] \in Int
  BY <1>1, <1>7, LiveFacts DEF StructureInv, OwnerIndices, PushPC
<1>9. ItemAt(d, b)' = <<d, pushed[d] + 1>> /\ pushed[d] < MaxItems[d]
  BY <1>1, <1>2, <1>6, <1>7 DEF OwnersItem, PushPC
<1>10. Held(d) = {} /\ Held(d)' = {}
  BY <1>1, HeldCases, HeldCasesNext DEF HoldPC
<1> QED BY <1>t, <1>2, <1>3, <1>4, <1>5, <1>6, <1>7, <1>8, <1>9, <1>10, ItemAppended

\* Lowering bottom_ turns the newest item into the one the pop holds.
LEMMA PopItems ==
  ASSUME StructureInv, NEW holder \in Holders, ChainsHeld(holder), NEW d \in Deque,
         Contents(d, holder), ReturnedOnce(d), Pop(d)
  PROVE  ItemsKept(d)' /\ ReturnedOnce(d)'
<1> DEFINE o == owner[d]
<1>t. TypeOK
  BY DEF StructureInv
<1>1. /\ o.pc = "idle" /\ owner'[d].pc = "popTop" /\ SameArray(d) /\ SameTop(d) /\ Live(d)
      /\ owner'[d].b = bottom[d] - 1
  BY <1>t, PopEffect DEF Live
<1>2. ItemsKept(d)
  BY <1>1 DEF Contents
<1>3. /\ OwnerStep(d) /\ UNCHANGED <<buf, returned, pushed, base>>
  BY DEF Pop, OwnerStep, PopStep, poolVars, history
<1>4. Window(d)' = Window(d) \ {bottom[d] - 1} /\ Window(d)' \subseteq Int
  BY <1>1, <1>3, OwnWindows
<1>5. \A i : ItemAt(d, i)' = ItemAt(d, i)
  BY <1>1, <1>3, ItemFrame DEF SameArray
<1>6. PICK b \in Int : b = bottom[d] - 1
  BY <1>1, LiveFacts
<1>7. Held(d) = {} /\ Held(d)' = IF top[d] <= b THEN {ItemAt(d, b)} ELSE {}
  <2>1. ItemAt(d, owner[d].b)' = ItemAt(d, b)
    BY <1>1, <1>3, <1>6 DEF ItemAt, Load, Index, SameArray
  <2> QED BY <1>1, <1>6, <2>1, HeldCases, HeldCasesNext DEF HoldPC, SameTop
<1>8. Window(d) = top[d] .. b
  BY <1>1, <1>6, LiveFacts DEF Window, LogicalBottom, Shifted
<1>9. top[d] \in Int
  BY <1>1, LiveFacts
<1>10. Pending(d)' \cup Held(d)' = Pending(d)
  <2>1. CASE top[d] <= b
    <3>1. Window(d) = Window(d)' \cup {b}
      BY <1>4, <1>6, <1>8, <1>9, <2>1
    <3>2. Pending(d)' = {ItemAt(d, i) : i \in Window(d)'}
      BY <1>5 DEF Pending
    <3>3. Pending(d) = {ItemAt(d, i) : i \in Window(d)'} \cup {ItemAt(d, b)}
      BY <3>1 DEF Pending
    <3> QED BY <1>7, <2>1, <3>2, <3>3
  <2>2. CASE ~(top[d] <= b)
    <3>1. Window(d) = {}
      BY <1>6, <1>8, <1>9, <2>2
    <3> QED BY <1>4, <1>7, <2>2, <3>1 DEF Pending
  <2> QED BY <2>1, <2>2
<1>11. \A v \in Pending(d)', w \in Held(d)' : v[2] < w[2]
  <2>1. ASSUME NEW i \in Window(d)', top[d] <= b
        PROVE  ItemAt(d, i)'[2] < ItemAt(d, b)[2]
    <3>1. i \in Window(d) /\ b \in Window(d) /\ i < b
      BY <1>4, <1>6, <1>8, <1>9, <2>1
    <3> QED BY <1>2, <1>5, <3>1 DEF ItemsKept
  <2> QED BY <1>7, <2>1 DEF Pending
<1>12. \A i \in Window(d)' : i - 0 \in Window(d) /\ ItemAt(d, i)' = ItemAt(d, i - 0)
  BY <1>4, <1>5
<1>13. Window(d) \subseteq Int
  BY <1>8
<1>14. ItemsKept(d)'
  <2>1. Pending(d)' \cup Held(d)' = Pending(d) \cup Held(d)
    BY <1>7, <1>10
  <2> QED BY <1>2, <1>3, <1>4, <1>11, <1>12, <1>13, <2>1, ItemsMoved
<1> QED BY <1>3, <1>14 DEF ReturnedOnce

\* A shrink that moves its indices past the old ones moves no item.
LEMMA ShrinkCasItems ==
  ASSUME StructureInv, NEW holder \in Holders, ChainsHeld(holder), NEW d \in Deque,
         Contents(d, holder), ReturnedOnce(d), ShrinkCas(d), owner'[d].pc = "shrinkRelease",
         Window(d)' = {i + Capacity[active[d]] : i \in Window(d)}
  PROVE  ItemsKept(d)' /\ ReturnedOnce(d)'
<1> DEFINE o == owner[d]
<1>t. TypeOK
  BY DEF StructureInv
<1>1. /\ o.pc = "shrinkCas" /\ SameArray(d) /\ Live(d)
  BY <1>t, ShrinkCasEffect DEF Live
<1>2. ItemsKept(d)
  BY <1>1 DEF Contents
<1>3. /\ ShrinkStep(d) /\ UNCHANGED <<buf, returned, pushed, base>>
  BY DEF ShrinkCas, ShrinkStep, poolVars, history
<1>4. PICK c \in Nat \ {0} : c = Capacity[active[d]]
  BY <1>1, LiveFacts
<1>5. Window(d) \subseteq Int /\ active[d] \in Record
  BY <1>1, LiveFacts
<1>6. \A i \in Window(d)' : i \in Int /\ i - c \in Window(d)
  BY <1>4, <1>5
<1>7. \A i \in Window(d) : ItemAt(d, i + c)' = ItemAt(d, i)
  <2>1. ASSUME NEW i \in Window(d)
        PROVE  ItemAt(d, i + c)' = ItemAt(d, i)
    <3>1. c % Capacity[active[d]] = 0
      BY <1>4, ModSelf
    <3>2. Load(active[d], i + c) = Load(active[d], i)
      BY <1>5, <3>1, WrapAround
    <3>3. ItemAt(d, i + c)' = ItemAt(d, i + c)
      BY <1>1, <1>3, ItemFrame DEF SameArray
    <3> QED BY <3>2, <3>3 DEF ItemAt
  <2> QED BY <2>1
<1>8. \A i \in Window(d)' : i - c \in Window(d) /\ ItemAt(d, i)' = ItemAt(d, i - c)
  <2>1. ASSUME NEW i \in Window(d)'
        PROVE  ItemAt(d, i)' = ItemAt(d, i - c)
    <3>1. PICK j \in Window(d) : i = j + c
      BY <1>4
    <3>2. i - c = j
      BY <1>5, <3>1
    <3> QED BY <1>7, <3>1, <3>2
  <2> QED BY <1>6, <2>1
<1>9. Held(d) = {o.x} /\ Held(d)' = {o.x}
  <2>1. owner'[d].x = o.x
    BY <1>t, <1>1, <1>3, ShrinkLocals DEF ShrinkRelease, OwnerAt
  <2> QED BY <1>1, <2>1, HeldCases, HeldCasesNext DEF HoldPC
<1>10. Pending(d)' = Pending(d)
  <2>1. \A i \in Window(d)' : ItemAt(d, i)' \in Pending(d)
    BY <1>8 DEF Pending
  <2>2. \A i \in Window(d) : ItemAt(d, i) \in Pending(d)'
    <3>1. ASSUME NEW i \in Window(d)
          PROVE  ItemAt(d, i) \in Pending(d)'
      <4>1. i + c \in Window(d)'
        BY <1>4
      <4> QED BY <1>7, <4>1 DEF Pending
    <3> QED BY <3>1
  <2> QED BY <2>1, <2>2 DEF Pending
<1>11. ItemsKept(d)'
  <2>1. Pending(d)' \cup Held(d)' = Pending(d) \cup Held(d)
    BY <1>9, <1>10
  <2>2. \A v \in Pending(d)', w \in Held(d)' : v[2] < w[2]
    BY <1>2, <1>9, <1>10 DEF ItemsKept
  <2>3. Window(d)' \subseteq Int
    BY <1>6
  <2> QED BY <1>2, <1>3, <1>5, <1>8, <2>1, <2>2, <2>3, ItemsMoved
<1> QED BY <1>3, <1>11 DEF ReturnedOnce

\* A shrink returns its item once the last discarded array is released.
LEMMA ShrinkReleaseLocals ==
  ASSUME TypeOK, NEW d \in Deque, ShrinkRelease(d)
  PROVE  \/ owner'[d].pc = "idle" /\ Deliver(d, owner[d].x)
         \/ owner'[d].pc = "shrinkRelease" /\ owner'[d].x = owner[d].x /\ UNCHANGED returned
<1> DEFINE o == owner[d]
<1>1. o \in OwnerType /\ o.pc = "shrinkRelease"
  BY DEF TypeOK, ShrinkRelease, OwnerAt
<1>2. CASE OwnerReturns(d) /\ Deliver(d, o.x)
  BY <1>2, OwnerGoesFacts DEF OwnerReturns, IdleOwner
<1>3. CASE OwnerGoes(d, [o EXCEPT !.a = buf[o.a].prev]) /\ UNCHANGED returned
  <2>1. owner'[d] = [o EXCEPT !.a = buf[o.a].prev]
    BY <1>3, OwnerGoesFacts
  <2> QED BY <1>1, <1>3, <2>1 DEF OwnerType
<1> QED BY <1>2, <1>3 DEF ShrinkRelease

\* A pop in progress keeps the item it holds until it returns it.
LEMMA OwnHeld ==
  ASSUME StructureInv, NEW d \in Deque, OwnerStep(d), Live(d), Live(d)', ~PushBottom(d), ~Pop(d)
  PROVE  \/ Held(d)' = Held(d) /\ UNCHANGED returned
         \/ \E x : Held(d) = {x} /\ Held(d)' = {} /\ Deliver(d, x)
<1> DEFINE o == owner[d]
           n == owner'[d]
<1>t. TypeOK
  BY DEF StructureInv
<1>p. OwnerIndices(d) /\ OwnerPointers(d)
  BY DEF StructureInv
<1>i. /\ top[d] \in Int /\ bottom[d] \in Int /\ o.b \in Int /\ o.t \in Int
  BY LiveFacts
<1>h. /\ o.pc = "popTop" => Held(d) = IF top[d] <= o.b THEN {ItemAt(d, o.b)} ELSE {}
      /\ o.pc = "popCas" => Held(d) = IF top[d] = o.t THEN {o.x} ELSE {}
      /\ o.pc \in HoldPC => Held(d) = {o.x}
      /\ o.pc \notin HoldPC \cup {"popTop", "popCas"} => Held(d) = {}
  BY HeldCases
<1>n. /\ n.pc = "popCas" => Held(d)' = IF top'[d] = n.t THEN {n.x} ELSE {}
      /\ n.pc \in HoldPC => Held(d)' = {n.x}
      /\ n.pc \notin HoldPC \cup {"popTop", "popCas"} => Held(d)' = {}
  BY HeldCasesNext
<1>r. \/ UNCHANGED returned
      \/ PopReadTop(d)
      \/ PopSettle(d) /\ o.pc = "popWon" /\ Deliver(d, o.x)
      \/ ShrinkRelease(d) /\ n.pc = "idle" /\ Deliver(d, o.x)
  BY <1>t, OwnHistory
<1>1. CASE LifeStep(d)
  BY <1>t, <1>1, DestroyEffect DEF LifeStep, Live, Construct, ConstructClaim, ConstructScan,
     ConstructFails, DestroyRelease, OwnerAt
<1>2. CASE PushStep(d)
  <2>1. /\ o.pc \in PushPC \cup {"idle"} /\ n.pc \in PushPC \cup {"idle"}
    BY <1>t, <1>2, TryPushEffect, PushReadTopEffect, GrowClaimEffect, GrowScanEffect, PushFailsEffect,
       GrowCopyEffect, GrowPublishEffect, PushSlotEffect DEF PushStep, PushPC
  <2>2. Held(d) = {} /\ Held(d)' = {}
    BY <1>h, <1>n, <2>1 DEF PushPC, HoldPC
  <2>3. UNCHANGED returned
    BY <1>r, <2>1 DEF PushPC, PopReadTop, PopSettle, ShrinkRelease, OwnerAt
  <2> QED BY <2>2, <2>3
<1>3. CASE PopReadTop(d)
  <2>1. PICK x : x = Load(o.a, o.b)
    OBVIOUS
  <2>2. o.pc = "popTop" /\ SameTop(d)
    BY <1>t, <1>3, PopReadTopEffect
  <2>3. o.a = active[d]
    BY <1>p, <2>2 DEF OwnerPointers
  <2>4. Held(d) = IF top[d] <= o.b THEN {x} ELSE {}
    BY <1>h, <2>1, <2>2, <2>3 DEF ItemAt
  <2>5. \/ n.pc = "popRestore" /\ o.b < top[d] /\ UNCHANGED returned
        \/ n.pc = "popCas" /\ o.b = top[d] /\ n.t = top[d] /\ n.x = x /\ UNCHANGED returned
        \/ n.pc = "idle" /\ o.b > top[d] /\ Deliver(d, x)
        \/ n.pc = "shrinkWalk" /\ o.b > top[d] /\ n.x = x /\ UNCHANGED returned
    BY <1>t, <1>3, <2>1, PopReadTopLocals
  <2> QED BY <1>i, <1>n, <2>2, <2>4, <2>5 DEF HoldPC, SameTop
<1>4. CASE PopRestore(d)
  <2>1. o.pc = "popRestore" /\ n.pc = "idle"
    BY <1>t, <1>4, PopRestoreEffect
  <2>2. UNCHANGED returned
    BY <1>r, <2>1 DEF PopReadTop, PopSettle, ShrinkRelease, OwnerAt
  <2> QED BY <1>h, <1>n, <2>1, <2>2 DEF HoldPC
<1>5. CASE PopCas(d)
  <2>1. /\ o.pc = "popCas" /\ n.x = o.x
        /\ \/ n.pc = "popWon" /\ top[d] = o.t
           \/ n.pc = "popLost" /\ top[d] # o.t
    BY <1>t, <1>5, PopCasEffect, PopCasLocals
  <2>2. UNCHANGED returned
    BY <1>r, <2>1 DEF PopReadTop, PopSettle, ShrinkRelease, OwnerAt
  <2> QED BY <1>h, <1>n, <2>1, <2>2 DEF HoldPC
<1>6. CASE PopSettle(d)
  <2>1. o.pc \in {"popWon", "popLost"} /\ n.pc = "idle"
    BY <1>t, <1>6, PopSettleEffect
  <2>2. /\ o.pc = "popWon" => Deliver(d, o.x)
        /\ o.pc = "popLost" => UNCHANGED returned
    BY <1>6 DEF PopSettle, OwnerAt
  <2> QED BY <1>h, <1>n, <2>1, <2>2 DEF HoldPC
<1>7. CASE ShrinkStep(d)
  <2>1. o.pc \in HoldPC
    BY <1>7 DEF HoldPC, ShrinkStep, ShrinkWalk, ShrinkStart, ShrinkCopy, ShrinkPublish, ShrinkShift,
       ShrinkReadTop, ShrinkCas, ShrinkRestore, ShrinkRelease, OwnerAt
  <2>2. CASE ShrinkRelease(d)
    BY <1>t, <1>h, <1>n, <2>1, <2>2, ShrinkReleaseLocals DEF HoldPC
  <2>3. CASE ~ShrinkRelease(d)
    <3>1. n.x = o.x
      BY <1>t, <1>7, <2>3, ShrinkLocals
    <3>2. n.pc \in HoldPC
      BY <1>t, <1>7, <2>3, ShrinkWalkEffect, ShrinkStartEffect, ShrinkCopyEffect, ShrinkPublishEffect,
         ShrinkShiftEffect, ShrinkReadTopEffect, ShrinkCasEffect, ShrinkRestoreEffect DEF HoldPC, ShrinkStep
    <3>3. UNCHANGED returned
      <4>1. o.pc \notin {"popTop", "popWon", "popLost"} \/ UNCHANGED returned
        BY <1>7 DEF ShrinkStep, ShrinkWalk, ShrinkStart, ShrinkCopy, ShrinkPublish, ShrinkShift,
           ShrinkReadTop, ShrinkCas, ShrinkRestore, ShrinkRelease, OwnerAt
      <4> QED BY <1>r, <2>3, <4>1 DEF PopReadTop, PopSettle, OwnerAt
    <3> QED BY <1>h, <1>n, <2>1, <3>1, <3>2, <3>3
  <2> QED BY <2>2, <2>3
<1> QED BY <1>1, <1>2, <1>3, <1>4, <1>5, <1>6, <1>7 DEF OwnerStep, PopStep

\* The items of a deque survive every step of its owner.
LEMMA OwnItems ==
  ASSUME StructureInv, NEW holder \in Holders, ChainsHeld(holder), NEW d \in Deque, OwnerStep(d),
         Live(d), Live(d)', Contents(d, holder), ReturnedOnce(d)
  PROVE  ItemsKept(d)' /\ ReturnedOnce(d)'
<1>t. TypeOK
  BY DEF StructureInv
<1>k. ItemsKept(d)
  BY DEF Contents
<1>1. CASE PushBottom(d)
  BY <1>1, PushBottomItems
<1>2. CASE Pop(d)
  BY <1>2, PopItems
<1>3. CASE ~PushBottom(d) /\ ~Pop(d)
  <2>1. CASE /\ ShrinkCas(d) /\ owner'[d].pc = "shrinkRelease"
             /\ Window(d)' = {i + Capacity[active[d]] : i \in Window(d)}
    BY <2>1, ShrinkCasItems
  <2>2. CASE Window(d)' = Window(d)
    <3>1. Window(d) \subseteq Int
      BY LiveFacts
    <3>2. \A i \in Window(d) : ItemAt(d, i)' = ItemAt(d, i)
      BY ItemsStay
    <3>3. pushed'[d] = pushed[d] /\ base'[d] = base[d]
      BY <1>t, <1>3, OwnHistory DEF ConstructClaim, Live, OwnerAt
    <3>4. CASE Held(d)' = Held(d) /\ UNCHANGED returned
      <4>1. returned'[d] = returned[d]
        BY <3>4
      <4>2. ItemsKept(d)'
        BY <1>k, <2>2, <3>1, <3>2, <3>3, <3>4, <4>1, ItemsSame
      <4> QED BY <3>3, <4>1, <4>2 DEF ReturnedOnce
    <3>5. ASSUME NEW x, Held(d) = {x}, Held(d)' = {}, Deliver(d, x)
          PROVE  ItemsKept(d)' /\ ReturnedOnce(d)'
      BY <1>t, <1>k, <2>2, <3>1, <3>2, <3>3, <3>5, HeldDelivered
    <3> QED BY <1>3, <3>4, <3>5, OwnHeld
  <2> QED BY <1>3, <2>1, <2>2, OwnWindows
<1> QED BY <1>1, <1>2, <1>3

-----------------------------------------------------------------------------
(* The low-water marks of the arrays below the active one.                 *)

-----------------------------------------------------------------------------
(* Marks.                                                                  *)

\* A lower mark says less; the lowest of two marks says what both say.
LEMMA MarkFacts ==
  ASSUME NEW m \in Nat \cup {NoMark}, NEW n \in Nat \cup {NoMark}
  PROVE  /\ \A i \in Int : Unstored(i, MinMark(m, n)) => Unstored(i, m) /\ Unstored(i, n)
         /\ \A i \in Int : AsLow(m, n) /\ Unstored(i, m) => Unstored(i, n)
         /\ AsLow(m, m) /\ AsLow(MinMark(m, n), m) /\ AsLow(MinMark(m, n), n)
         /\ \A q \in Nat \cup {NoMark} : AsLow(m, q) \/ AsLow(n, q) => AsLow(MinMark(m, n), q)
BY DEF Unstored, MinMark, NoMark, AsLow

\* The lower of two marks is as low as each.
LEMMA LowestMark ==
  ASSUME NEW m \in Nat \cup {NoMark}, NEW n \in Nat \cup {NoMark}, NEW k \in Nat \cup {NoMark},
         AsLow(m, k) \/ AsLow(n, k)
  PROVE  AsLow(MinMark(m, n), k)
BY MarkFacts

\* An array is not claimed and released in one step.
LEMMA ClaimNotRelease ==
  ASSUME PoolTypeOK, NEW r \in Record, NEW s \in Record, NEW q, Claim(r, q), Release(s)
  PROVE  FALSE
BY ClaimLinks, ReleaseLinks

\* Up to the active array, the records of a deque stay the same.
LEMMA OwnRecords ==
  ASSUME StructureInv, NEW holder \in Holders, ChainsHeld(holder), NEW d \in Deque, OwnerStep(d),
         Live(d), NEW after \in Holders, Handed(d, holder, after)
  PROVE  \A r \in Record : Capacity[r] <= Capacity[active[d]] => (after[r] = d <=> holder[r] = d)
<1> DEFINE o == owner[d]
<1>t. TypeOK /\ PoolTypeOK
  BY DEF StructureInv, TypeOK
<1>d. d # NoDeque
  BY DequeAssumption
<1>a. active[d] \in Record /\ Capacity[active[d]] \in Nat \ {0}
  BY LiveFacts
<1>1. CASE ~LinkSteps(d)
  BY <1>1 DEF Handed
<1>2. CASE GrowClaim(d)
  <2>1. /\ o.pc = "grow" /\ owner'[d].pc = "growCopy" /\ owner'[d].dst \in o.left
        /\ Claim(owner'[d].dst, o.a)
    BY <1>t, <1>2, GrowClaimEffect
  <2>2. PICK q : q = owner'[d].dst
    OBVIOUS
  <2>3. Root(d)' = q /\ Root(d) = active[d] /\ q \in Record /\ Claim(q, o.a)
    BY <2>1, <2>2, RootCases, RootCasesNext DEF StructureInv, TypeOK, OwnerType
  <2>4. Capacity[q] = 2 * Capacity[active[d]]
    BY <2>1, <2>2, RecordFacts DEF StructureInv, OwnerPointers, SizeClass
  <2>5. ~(Capacity[q] <= Capacity[active[d]])
    BY <1>a, <2>4
  <2>6. \A r \in Record : ~Release(r)
    BY <1>t, <2>3, ClaimNotRelease
  <2> QED BY <1>d, <2>3, <2>5, <2>6 DEF Handed
<1>3. CASE ShrinkRelease(d)
  <2>1. o.pc = "shrinkRelease" /\ Release(o.a)
    BY <1>t, <1>3, ShrinkReleaseEffect
  <2>2. Root(d) = o.a /\ o.a \in Record /\ Capacity[o.a] \in Nat /\ Capacity[active[d]] < Capacity[o.a]
    BY <2>1, RootCases, ShrinkTarget DEF CopyPC, HoldPC
  <2>3. ~(Capacity[o.a] <= Capacity[active[d]])
    BY <1>a, <2>2
  <2>4. \A r \in Record : ~Claim(r, Root(d))
    BY <1>t, <2>1, <2>2, ClaimNotRelease
  <2> QED BY <1>d, <2>2, <2>3, <2>4 DEF Handed
<1> QED BY <1>1, <1>2, <1>3 DEF LinkSteps, ConstructClaim, DestroyRelease, Live, OwnerAt

\* MarksSuffice survives a step that stores only copies of items below the
\* active array, and raises no mark.
LEMMA MarksKept ==
  ASSUME NEW d \in Deque, NEW holder, NEW after, MarksSuffice(d, holder),
         active'[d] = active[d], active[d] \in Record,
         Window(d) \subseteq Int, Window(d)' \subseteq Window(d),
         \A i \in Window(d) : ItemAt(d, i)' = ItemAt(d, i),
         \A r \in Record : Capacity[r] <= Capacity[active[d]] => (after[r] = d <=> holder[r] = d),
         \A r \in Record, i \in Window(d) :
           holder[r] = d /\ Capacity[r] < Capacity[active[d]] =>
             Load(r, i)' = Load(r, i) \/ Load(r, i)' = ItemAt(d, i),
         \A r \in Record, i \in Int :
           holder[r] = d /\ Capacity[r] <= Capacity[active[d]] =>
             (Unstored(i, buf'[r].low) => Unstored(i, buf[r].low))
  PROVE  MarksSuffice(d, after)'
<1>1. ASSUME NEW r \in Record, NEW i \in Window(d)', after[r] = d, Capacity[r] < Capacity[active[d]],
             \A s \in Record :
               after[s] = d /\ Capacity[r] < Capacity[s] /\ Capacity[s] <= Capacity[active[d]] =>
                 Unstored(i, buf'[s].low)
      PROVE  Load(r, i)' = ItemAt(d, i)'
  <2>1. i \in Window(d) /\ i \in Int
    OBVIOUS
  <2>2. holder[r] = d
    <3>1. Capacity[r] \in Nat /\ Capacity[active[d]] \in Nat
      BY RecordFacts
    <3>2. Capacity[r] <= Capacity[active[d]]
      BY <1>1, <3>1
    <3> QED BY <1>1, <3>2
  <2>3. \A s \in Record :
          holder[s] = d /\ Capacity[r] < Capacity[s] /\ Capacity[s] <= Capacity[active[d]] =>
            Unstored(i, buf[s].low)
    BY <1>1, <2>1
  <2>4. Load(r, i) = ItemAt(d, i)
    BY <1>1, <2>1, <2>2, <2>3 DEF MarksSuffice
  <2> QED BY <1>1, <2>1, <2>2, <2>4
<1> QED BY <1>1 DEF MarksSuffice, Unstored

\* The array of a growth takes over: it holds the items, and has no mark yet.
LEMMA GrowPublishMarks ==
  ASSUME StructureInv, NEW holder \in Holders, ChainsHeld(holder), NEW d \in Deque,
         Contents(d, holder), GrowPublish(d)
  PROVE  MarksSuffice(d, holder)'
<1> DEFINE o == owner[d]
<1>t. TypeOK
  BY DEF StructureInv
<1>1. o.pc = "growCopy" /\ Live(d) /\ UNCHANGED buf /\ o.i >= o.b /\ OwnerStep(d)
  BY DEF GrowPublish, OwnerAt, Live, OwnerStep, PushStep, poolVars
<1>2. PICK r \in Record : r = o.dst /\ Capacity[active[d]] < Capacity[r] /\ active[d] \in Record
  BY <1>1, GrowTarget
<1>3. active'[d] = r
  BY <1>t, <1>2, GrowPublishEffect
<1>4. Window(d)' = Window(d) /\ \A i \in Window(d) : ItemAt(d, i)' = ItemAt(d, i)
  <2>1. ~PushBottom(d) /\ ~Pop(d) /\ ~ShrinkCas(d)
    BY <1>1 DEF PushBottom, Pop, ShrinkCas, OwnerAt
  <2> QED BY <1>1, <2>1, OwnWindows, ItemsStay
<1>5. \A s \in Record : \A i : Load(s, i)' = Load(s, i)
  BY <1>1 DEF Load, Index
<1>6. MarksSuffice(d, holder)
  BY <1>1 DEF Contents
<1>7. ASSUME NEW s \in Record, NEW i \in Window(d), holder[s] = d, Capacity[s] < Capacity[r],
             \A q \in Record :
               holder[q] = d /\ Capacity[s] < Capacity[q] /\ Capacity[q] <= Capacity[r] =>
                 Unstored(i, buf[q].low)
      PROVE  Load(s, i) = ItemAt(d, i)
  <2>1. holder[active[d]] = d
    BY <1>1 DEF Contents
  <2>2. Capacity[s] \in Nat /\ Capacity[r] \in Nat /\ Capacity[active[d]] \in Nat
    BY <1>2, RecordFacts
  <2>3. holder[r] = d
    BY <1>1, <1>2, GrowTarget
  <2>4. r \in Record /\ d # NoDeque
    BY DequeAssumption
  <2>5. CASE Capacity[s] = Capacity[active[d]]
    <3>1. s = active[d]
      BY <1>2, <1>7, <2>1, <2>4, <2>5 DEF ChainsHeld
    <3> QED BY <3>1 DEF ItemAt
  <2>6. CASE Capacity[s] < Capacity[active[d]]
    <3>1. \A q \in Record :
            holder[q] = d /\ Capacity[s] < Capacity[q] /\ Capacity[q] <= Capacity[active[d]] =>
              Unstored(i, buf[q].low)
      <4>1. \A q \in Record : Capacity[q] <= Capacity[active[d]] => Capacity[q] <= Capacity[r]
        BY <1>2, <2>2, RecordFacts
      <4> QED BY <1>7, <4>1
    <3> QED BY <1>6, <1>7, <2>6, <3>1 DEF MarksSuffice
  <2>7. CASE Capacity[s] > Capacity[active[d]]
    <3>1. Root(d) = r
      BY <1>1, <1>2, RootCases
    <3>2. Capacity[s] <= Capacity[active[d]]
      <4>1. buf[r].prev # NoRecord /\ Capacity[s] <= Capacity[buf[r].prev]
        BY <1>7, <2>3, <2>4 DEF ChainsHeld
      <4>2. Capacity[r] = 2 * Capacity[buf[r].prev]
        BY <4>1 DEF StructureInv, ChainHalves
      <4>3. Capacity[r] = 2 * Capacity[active[d]]
        BY <1>1, <1>2 DEF StructureInv, OwnerPointers
      <4>4. buf[r].prev \in Record
        BY <4>1, LinkType DEF StructureInv, TypeOK, PoolTypeOK
      <4>5. PICK c \in Nat : c = Capacity[buf[r].prev]
        BY <4>4, RecordFacts
      <4>6. c = Capacity[active[d]]
        BY <2>2, <4>2, <4>3, <4>5
      <4> QED BY <4>1, <4>5, <4>6
    <3> QED BY <2>2, <2>7, <3>2
  <2> QED BY <2>2, <2>5, <2>6, <2>7
<1> QED BY <1>1, <1>3, <1>4, <1>5, <1>7 DEF MarksSuffice, Unstored

\* The target of a shrink takes over: its mark is as low as those of all the
\* arrays between it and the active one, which are left out from now on.
LEMMA ShrinkPublishMarks ==
  ASSUME StructureInv, NEW holder \in Holders, ChainsHeld(holder), NEW d \in Deque,
         Contents(d, holder), ShrinkPublish(d)
  PROVE  MarksSuffice(d, holder)'
<1> DEFINE o == owner[d]
<1>t. TypeOK /\ BufferTypeOK
  BY DEF StructureInv, TypeOK, PoolTypeOK
<1>1. o.pc = "shrinkCopy" /\ Live(d) /\ UNCHANGED buf /\ OwnerStep(d)
  BY DEF ShrinkPublish, OwnerAt, Live, OwnerStep, ShrinkStep, poolVars
<1>2. PICK r \in Record : r = o.dst /\ Capacity[r] < Capacity[active[d]] /\ active[d] \in Record
  BY <1>1, ShrinkTarget DEF ShrinkPC, CopyPC
<1>3. active'[d] = r
  BY <1>t, <1>2, ShrinkPublishEffect
<1>4. Window(d)' = Window(d) /\ \A i \in Window(d) : ItemAt(d, i)' = ItemAt(d, i)
  <2>1. ~PushBottom(d) /\ ~Pop(d) /\ ~ShrinkCas(d)
    BY <1>1 DEF PushBottom, Pop, ShrinkCas, OwnerAt
  <2> QED BY <1>1, <2>1, OwnWindows, ItemsStay
<1>5. \A s \in Record : \A i : Load(s, i)' = Load(s, i)
  BY <1>1 DEF Load, Index
<1>6. /\ MarksSuffice(d, holder)
      /\ holder[r] = d
      /\ \A s \in Record :
           holder[s] = d /\ Capacity[r] <= Capacity[s] /\ Capacity[s] <= Capacity[active[d]] =>
             AsLow(buf[r].low, buf[s].low)
  BY <1>1, <1>2 DEF Contents, CopyUnderWay, CopyPC
<1>7. ASSUME NEW s \in Record, NEW i \in Window(d), holder[s] = d, Capacity[s] < Capacity[r],
             \A q \in Record :
               holder[q] = d /\ Capacity[s] < Capacity[q] /\ Capacity[q] <= Capacity[r] =>
                 Unstored(i, buf[q].low)
      PROVE  Load(s, i) = ItemAt(d, i)
  <2>1. Capacity[s] \in Nat /\ Capacity[r] \in Nat /\ Capacity[active[d]] \in Nat
    BY <1>2, RecordFacts
  <2>2. Unstored(i, buf[r].low)
    BY <1>6, <1>7, <2>1
  <2>3. \A q \in Record :
          holder[q] = d /\ Capacity[s] < Capacity[q] /\ Capacity[q] <= Capacity[active[d]] =>
            Unstored(i, buf[q].low)
    <3>1. ASSUME NEW q \in Record, holder[q] = d, Capacity[s] < Capacity[q],
                 Capacity[q] <= Capacity[active[d]]
          PROVE  Unstored(i, buf[q].low)
      <4>1. CASE Capacity[q] <= Capacity[r]
        BY <1>7, <3>1, <4>1
      <4>2. CASE Capacity[r] <= Capacity[q]
        <5>1. AsLow(buf[r].low, buf[q].low)
          BY <1>6, <3>1, <4>2
        <5>2. buf[r].low \in Nat \cup {NoMark} /\ buf[q].low \in Nat \cup {NoMark} /\ i \in Int
          BY <1>t, <1>1, LinkType, LiveFacts
        <5> DEFINE m == buf[r].low  n == buf[q].low
        <5>3. /\ AsLow(m, n) /\ Unstored(i, m)
              /\ m \in Nat \cup {NoMark} /\ n \in Nat \cup {NoMark} /\ i \in Int
          BY <2>2, <5>1, <5>2
        <5> HIDE DEF m, n
        <5>4. Unstored(i, n)
          BY <5>3, MarkFacts
        <5> QED BY <5>4 DEF n
      <4> QED BY <2>1, <4>1, <4>2, RecordFacts
    <3> QED BY <3>1
  <2>4. Capacity[s] < Capacity[active[d]]
    BY <1>2, <1>7, <2>1
  <2> QED BY <1>6, <1>7, <2>3, <2>4 DEF MarksSuffice
<1> QED BY <1>1, <1>3, <1>4, <1>5, <1>7 DEF MarksSuffice, Unstored

\* An owner's step lowers marks, and stores below the active array only copies
\* of items.
LEMMA BelowActive ==
  ASSUME StructureInv, NEW holder \in Holders, ChainsHeld(holder), NEW d \in Deque, OwnerStep(d),
         Live(d), Contents(d, holder),
         NEW r \in Record, holder[r] = d, Capacity[r] <= Capacity[active[d]]
  PROVE  /\ \A i \in Int : (Unstored(i, buf'[r].low) => Unstored(i, buf[r].low))
         /\ Capacity[r] < Capacity[active[d]] =>
              \A i \in Window(d) : Load(r, i)' = Load(r, i) \/ Load(r, i)' = ItemAt(d, i)
<1> DEFINE o == owner[d]
<1>t. TypeOK /\ PoolTypeOK /\ BufferTypeOK
  BY DEF StructureInv, TypeOK, PoolTypeOK
<1>f. /\ o \in OwnerType /\ active[d] \in Record /\ Capacity[active[d]] \in Nat
      /\ o.b \in Int /\ o.i \in Int /\ o.t \in Int /\ Window(d) \subseteq Int /\ Capacity[r] \in Nat
  BY LiveFacts, RecordFacts
<1>l. \A s \in Record : buf[s].low \in Nat \cup {NoMark}
  BY <1>t, LinkType
<1>s. ASSUME SameContent(r)
      PROVE  /\ \A i \in Int : (Unstored(i, buf'[r].low) => Unstored(i, buf[r].low))
             /\ \A i \in Window(d) : Load(r, i)' = Load(r, i)
  BY <1>s, SameLoad DEF SameContent, Unstored
<1>0. BufferStep(d)
  BY BufferSteps
<1>1. CASE \A s \in Record : SameContent(s)
  BY <1>1, <1>s
<1>2. CASE \E s \in Record : \E q : Claim(s, q)
  <2>1. PICK s \in Record : \E q : Claim(s, q)
    BY <1>2
  <2>2. s # r
    <3>1. r \in OwnedRecords /\ s \notin OwnedRecords
      BY <1>t, <2>1, ClaimLinks, DequeAssumption DEF ChainsHeld
    <3> QED BY <3>1
  <2> QED BY <1>t, <1>s, <2>1, <2>2, ClaimContent
<1>3. CASE GrowCopy(d) /\ o.dst \in Record /\ StoreNoMark(o.dst, o.i, Load(o.a, o.i))
  <2>1. o.pc = "growCopy"
    BY <1>3 DEF GrowCopy, OwnerAt
  <2>2. Capacity[active[d]] < Capacity[o.dst] /\ Capacity[o.dst] \in Nat
    BY <2>1, GrowTarget
  <2>3. r # o.dst
    BY <1>f, <2>2
  <2> QED BY <1>t, <1>f, <1>s, <1>3, <2>3, StoreNoMarkContent
<1>4. CASE PushSlot(d) /\ o.a \in Record /\ Store(o.a, o.b, o.x)
  <2>1. o.pc = "pushSlot"
    BY <1>4 DEF PushSlot, OwnerAt
  <2>2. o.a = active[d] /\ o.b \in Nat
    BY <1>f, <1>t, <2>1, IndexTypes DEF StructureInv, OwnerPointers, OwnerIndices, PushPC
  <2>3. CASE r # o.a
    BY <1>t, <1>f, <1>s, <1>4, <2>3, StoreContent
  <2>4. CASE r = o.a
    <3>1. buf'[r].low = MinMark(buf[r].low, o.b)
      BY <1>t, <1>f, <1>4, <2>4, StoreContent
    <3>2. ~(Capacity[r] < Capacity[active[d]])
      BY <1>f, <2>2, <2>4
    <3> QED BY <1>l, <2>2, <3>1, <3>2, MarkFacts
  <2> QED BY <2>3, <2>4
<1>5. CASE ShrinkStart(d) /\ o.dst \in Record /\ LowerMark(o.dst, o.mark)
  <2>1. CASE r # o.dst
    BY <1>t, <1>s, <1>5, <2>1, LowerMarkContent
  <2>2. CASE r = o.dst
    <3>1. buf'[r].slots = buf[r].slots /\ buf'[r].low = MinMark(buf[r].low, o.mark)
      BY <1>t, <1>5, <2>2, LowerMarkContent
    <3>2. o.mark \in Nat \cup {NoMark}
      BY <1>f DEF OwnerType
    <3> QED BY <1>l, <3>1, <3>2, MarkFacts, SameLoad, SMTT(30)
  <2> QED BY <2>1, <2>2
<1>6. CASE ShrinkCopy(d) /\ o.dst \in Record /\ StoreNoMark(o.dst, o.i, Load(o.a, o.i))
  <2>1. CASE r # o.dst
    BY <1>t, <1>f, <1>s, <1>6, <2>1, StoreNoMarkContent
  <2>2. CASE r = o.dst
    <3>1. /\ buf'[r].low = buf[r].low
          /\ \A j \in Int : Load(r, j)' = IF Index(r, j) = Index(r, o.i) THEN Load(o.a, o.i) ELSE Load(r, j)
      BY <1>t, <1>f, <1>6, <2>2, StoreNoMarkContent
    <3>2. o.pc = "shrinkCopy" /\ o.i < o.b
      BY <1>6 DEF ShrinkCopy, OwnerAt
    <3>3. /\ o.a = active[d] /\ o.t <= o.i /\ o.b - o.t < Capacity[r] /\ bottom[d] = o.b
          /\ o.t <= top[d] /\ top[d] \in Int /\ LogicalBottom(d) = bottom[d]
      BY <1>t, <2>2, <3>2, IndexTypes
         DEF StructureInv, OwnerPointers, OwnerIndices, CopyPC, ShrinkPC, Contents, CopyUnderWay,
             LogicalBottom, Shifted
    <3>4. ASSUME NEW i \in Window(d), Index(r, i) = Index(r, o.i)
          PROVE  Load(o.a, o.i) = ItemAt(d, i)
      <4>1. i \in Int /\ i - o.i < Capacity[r] /\ o.i - i < Capacity[r]
        BY <1>f, <3>2, <3>3 DEF Window
      <4>2. i = o.i
        BY <1>f, <3>4, <4>1, SlotsApart
      <4> QED BY <3>3, <4>2 DEF ItemAt
    <3> QED BY <1>f, <3>1, <3>4 DEF Unstored
  <2> QED BY <2>1, <2>2
<1> QED BY <1>0, <1>1, <1>2, <1>3, <1>4, <1>5, <1>6 DEF BufferStep

\* A push that publishes its item says so in the mark of the active array.
LEMMA PushBottomMarks ==
  ASSUME StructureInv, NEW holder \in Holders, ChainsHeld(holder), NEW d \in Deque,
         Contents(d, holder), PushBottom(d)
  PROVE  MarksSuffice(d, holder)'
<1> DEFINE o == owner[d]
<1>t. TypeOK /\ BufferTypeOK
  BY DEF StructureInv, TypeOK, PoolTypeOK
<1>1. o.pc = "pushBottom" /\ Live(d) /\ UNCHANGED buf /\ OwnerStep(d)
  BY DEF PushBottom, OwnerAt, Live, OwnerStep, PushStep, poolVars
<1>2. PICK r \in Record : r = active[d] /\ active'[d] = r
  BY <1>t, <1>1, LiveFacts, PushBottomEffect DEF SameArray
<1>3. Window(d) = top[d] .. o.b - 1 /\ Window(d)' = top[d] .. o.b /\ top[d] \in Int /\ o.b \in Int
  BY <1>1, LiveFacts, OwnWindows
<1>4. \A s \in Record : \A i : Load(s, i)' = Load(s, i)
  BY <1>1 DEF Load, Index
<1>5. /\ MarksSuffice(d, holder) /\ holder[r] = d
      /\ buf[r].low # NoMark /\ buf[r].low <= o.b
  BY <1>1, <1>2 DEF Contents, OwnersItem
<1>6. ASSUME NEW s \in Record, NEW i \in Window(d)', holder[s] = d, Capacity[s] < Capacity[r],
             \A q \in Record :
               holder[q] = d /\ Capacity[s] < Capacity[q] /\ Capacity[q] <= Capacity[r] =>
                 Unstored(i, buf[q].low)
      PROVE  Load(s, i) = Load(r, i)
  <2>1. Unstored(i, buf[r].low)
    <3>1. Capacity[r] <= Capacity[r]
      BY RecordFacts
    <3> QED BY <1>5, <1>6, <3>1
  <2>2. i # o.b
    <3>1. buf[r].low \in Nat \cup {NoMark}
      BY <1>t, LinkType
    <3> QED BY <1>3, <1>5, <2>1, <3>1 DEF Unstored
  <2>3. i \in Window(d)
    BY <1>3, <2>2
  <2> QED BY <1>2, <1>5, <1>6, <2>3 DEF MarksSuffice, ItemAt
<1>7. \A i : ItemAt(d, i)' = Load(r, i)
  BY <1>1, <1>2, ItemFrame DEF ItemAt
<1> QED BY <1>1, <1>2, <1>4, <1>6, <1>7 DEF MarksSuffice, Unstored

\* The shift of a shrink keeps every index on its slot, in all arrays of the chain.
LEMMA ShrinkCasMarks ==
  ASSUME StructureInv, NEW holder \in Holders, ChainsHeld(holder), NEW d \in Deque,
         Contents(d, holder), ShrinkCas(d),
         Window(d)' = {i + Capacity[active[d]] : i \in Window(d)}
  PROVE  MarksSuffice(d, holder)'
<1> DEFINE o == owner[d]
<1>t. TypeOK /\ BufferTypeOK
  BY DEF StructureInv, TypeOK, PoolTypeOK
<1>1. o.pc = "shrinkCas" /\ Live(d) /\ UNCHANGED buf /\ OwnerStep(d)
  BY DEF ShrinkCas, OwnerAt, Live, OwnerStep, ShrinkStep, poolVars
<1>2. PICK r \in Record : r = active[d] /\ active'[d] = r
  BY <1>t, <1>1, LiveFacts, ShrinkCasEffect DEF SameArray
<1>3. PICK c \in Nat \ {0} : c = Capacity[r]
  BY RecordFacts
<1>4. \A s \in Record : \A i : Load(s, i)' = Load(s, i)
  BY <1>1 DEF Load, Index
<1>5. MarksSuffice(d, holder) /\ holder[r] = d /\ d # NoDeque
  BY <1>1, <1>2, DequeAssumption DEF Contents
<1>7. \A i : ItemAt(d, i)' = Load(r, i)
  BY <1>1, <1>2, ItemFrame DEF ItemAt
<1>6. ASSUME NEW s \in Record, NEW j \in Window(d)', holder[s] = d, Capacity[s] < Capacity[r],
             \A q \in Record :
               holder[q] = d /\ Capacity[s] < Capacity[q] /\ Capacity[q] <= Capacity[r] =>
                 Unstored(j, buf[q].low)
      PROVE  Load(s, j) = Load(r, j)
  <2>1. PICK i \in Window(d) : j = i + c
    BY <1>2, <1>3
  <2>2. i \in Int
    BY <1>1, LiveFacts
  <2>3. ASSUME NEW q \in Record, Unstored(j, buf[q].low)
        PROVE  Unstored(i, buf[q].low)
    <3>1. buf[q].low \in Nat \cup {NoMark}
      BY <1>t, LinkType
    <3> QED BY <2>1, <2>2, <2>3, <3>1 DEF Unstored
  <2>4. Load(s, i) = Load(r, i)
    BY <1>2, <1>5, <1>6, <2>3 DEF MarksSuffice, ItemAt
  <2>5. c % Capacity[s] = 0
    BY <1>3, <1>5, <1>6 DEF ChainsHeld
  <2>6. c % Capacity[r] = 0
    BY <1>3, ModSelf
  <2>7. Load(s, i + c) = Load(s, i) /\ Load(r, i + c) = Load(r, i)
    BY <2>2, <2>5, <2>6, WrapAround
  <2> QED BY <2>1, <2>4, <2>7
<1> QED BY <1>1, <1>2, <1>4, <1>6, <1>7 DEF MarksSuffice, Unstored

\* Every step of a live deque's owner keeps the marks sufficient.
LEMMA OwnMarks ==
  ASSUME StructureInv, NEW holder \in Holders, ChainsHeld(holder), NEW d \in Deque, OwnerStep(d),
         Live(d), Live(d)', Contents(d, holder), NEW after \in Holders, Handed(d, holder, after)
  PROVE  MarksSuffice(d, after)'
<1> DEFINE o == owner[d]
<1>t. TypeOK
  BY DEF StructureInv
<1>f. active[d] \in Record /\ Window(d) \subseteq Int
  BY LiveFacts
<1>n. ~LinkSteps(d) => after = holder
  BY DEF Handed
<1>1. CASE GrowPublish(d)
  <2>1. ~LinkSteps(d)
    BY <1>1 DEF GrowPublish, LinkSteps, ConstructClaim, DestroyRelease, GrowClaim, ShrinkRelease, OwnerAt
  <2> QED BY <1>1, <1>n, <2>1, GrowPublishMarks
<1>2. CASE ShrinkPublish(d)
  <2>1. ~LinkSteps(d)
    BY <1>2 DEF ShrinkPublish, LinkSteps, ConstructClaim, DestroyRelease, GrowClaim, ShrinkRelease, OwnerAt
  <2> QED BY <1>2, <1>n, <2>1, ShrinkPublishMarks
<1>3. CASE PushBottom(d)
  <2>1. ~LinkSteps(d)
    BY <1>3 DEF PushBottom, LinkSteps, ConstructClaim, DestroyRelease, GrowClaim, ShrinkRelease, OwnerAt
  <2> QED BY <1>3, <1>n, <2>1, PushBottomMarks
<1>4. CASE ShrinkCas(d) /\ Window(d)' = {i + Capacity[active[d]] : i \in Window(d)}
  <2>1. ~LinkSteps(d)
    BY <1>4 DEF ShrinkCas, LinkSteps, ConstructClaim, DestroyRelease, GrowClaim, ShrinkRelease, OwnerAt
  <2> QED BY <1>4, <1>n, <2>1, ShrinkCasMarks
<1>5. CASE ~GrowPublish(d) /\ ~ShrinkPublish(d) /\ Window(d)' \subseteq Window(d)
  <2>1. active'[d] = active[d]
    BY <1>t, <1>5, SameArraySteps DEF SameArray
  <2>2. \A i \in Window(d) : ItemAt(d, i)' = ItemAt(d, i)
    BY ItemsStay
  <2>3. \A r \in Record : Capacity[r] <= Capacity[active[d]] => (after[r] = d <=> holder[r] = d)
    BY OwnRecords
  <2>4. \A r \in Record, i \in Window(d) :
          holder[r] = d /\ Capacity[r] < Capacity[active[d]] =>
            Load(r, i)' = Load(r, i) \/ Load(r, i)' = ItemAt(d, i)
    <3>1. ASSUME NEW r \in Record, NEW i \in Window(d), holder[r] = d, Capacity[r] < Capacity[active[d]]
          PROVE  Load(r, i)' = Load(r, i) \/ Load(r, i)' = ItemAt(d, i)
      <4>1. Capacity[r] <= Capacity[active[d]]
        BY <1>f, <3>1, RecordFacts
      <4> QED BY <3>1, <4>1, BelowActive
    <3> QED BY <3>1
  <2>5. \A r \in Record, i \in Int :
          holder[r] = d /\ Capacity[r] <= Capacity[active[d]] =>
            (Unstored(i, buf'[r].low) => Unstored(i, buf[r].low))
    BY BelowActive
  <2>6. MarksSuffice(d, holder)
    BY DEF Contents
  <2> QED BY <1>f, <1>5, <2>1, <2>2, <2>3, <2>4, <2>5, <2>6, MarksKept
<1> QED BY <1>1, <1>2, <1>3, <1>4, <1>5, OwnWindows

-----------------------------------------------------------------------------
(* Copies under way.                                                       *)

\* The steps that start or continue a copy.
CopyStep(d) ==
  GrowClaim(d) \/ GrowCopy(d) \/ PopReadTop(d) \/ ShrinkWalk(d) \/ ShrinkStart(d) \/ ShrinkCopy(d)

\* The steps that lead into a copy or stay in it.
LEMMA CopySteps ==
  ASSUME TypeOK, NEW d \in Deque, OwnerStep(d), owner'[d].pc \in {"growCopy"} \cup CopyPC
  PROVE  CopyStep(d)
<1>1. CASE LifeStep(d)
  BY <1>1, ConstructEffect, ConstructClaimEffect, ConstructScanEffect, ConstructFailsEffect,
     DestroyEffect, DestroyReleaseEffect DEF LifeStep, CopyPC
<1>2. CASE PushStep(d)
  BY <1>2, TryPushEffect, PushReadTopEffect, GrowScanEffect, PushFailsEffect, GrowPublishEffect,
     PushSlotEffect, PushBottomEffect DEF PushStep, CopyPC, CopyStep
<1>3. CASE PopStep(d)
  BY <1>3, PopEffect, PopRestoreEffect, PopCasEffect, PopSettleEffect DEF PopStep, CopyPC, CopyStep
<1>4. CASE ShrinkStep(d)
  BY <1>4, ShrinkPublishEffect, ShrinkShiftEffect, ShrinkReadTopEffect, ShrinkCasEffect,
     ShrinkRestoreEffect, ShrinkReleaseEffect DEF ShrinkStep, CopyPC, CopyStep
<1> QED BY <1>1, <1>2, <1>3, <1>4 DEF OwnerStep

\* A step of a copy moves neither the window nor the items in it.
LEMMA CopyStays ==
  ASSUME StructureInv, NEW holder \in Holders, ChainsHeld(holder), NEW d \in Deque, OwnerStep(d),
         Live(d), Contents(d, holder), CopyStep(d)
  PROVE  /\ active'[d] = active[d] /\ Window(d)' = Window(d)
         /\ \A i \in Window(d) : ItemAt(d, i)' = ItemAt(d, i)
         /\ ~GrowClaim(d) => ~LinkSteps(d)
<1>t. TypeOK
  BY DEF StructureInv
<1>p. owner[d].pc \in {"grow", "growCopy", "popTop", "shrinkWalk", "shrinkCopy"}
  BY DEF CopyStep, GrowClaim, GrowCopy, PopReadTop, ShrinkWalk, ShrinkStart, ShrinkCopy, OwnerAt
<1>1. ~PushBottom(d) /\ ~Pop(d) /\ ~ShrinkCas(d) /\ ~ConstructClaim(d) /\ ~DestroyRelease(d)
      /\ ~ShrinkRelease(d)
  BY <1>p DEF PushBottom, Pop, ShrinkCas, ConstructClaim, DestroyRelease, ShrinkRelease, OwnerAt
<1>2. active'[d] = active[d]
  BY <1>t, GrowClaimEffect, GrowCopyEffect, PopReadTopEffect, ShrinkWalkEffect, ShrinkStartEffect,
     ShrinkCopyEffect DEF CopyStep, SameArray
<1> QED BY <1>1, <1>2, OwnWindows, ItemsStay DEF LinkSteps

\* A growth starts with nothing copied into an unmarked array.
LEMMA GrowClaimCopy ==
  ASSUME StructureInv, NEW holder \in Holders, ChainsHeld(holder), NEW d \in Deque,
         Live(d), Contents(d, holder), GrowClaim(d), NEW after
  PROVE  CopyUnderWay(d, after)'
<1> DEFINE o == owner[d]
<1>t. TypeOK /\ BufferTypeOK
  BY DEF StructureInv, TypeOK, PoolTypeOK
<1>1. PICK r : r = owner'[d].dst
  OBVIOUS
<1>2. /\ o.pc = "grow" /\ owner'[d].pc = "growCopy" /\ owner'[d].t = o.t
      /\ r \in o.left /\ Claim(r, o.a)
  BY <1>t, <1>1, GrowClaimEffect
<1>3. r \in Record /\ o.t \in Int /\ top[d] \in Int /\ LogicalBottom(d) \in Int
  BY <1>2, LiveFacts DEF OwnerType
<1>4. buf'[r].low = NoMark
  BY <1>t, <1>2, <1>3, ClaimContent
<1>5. owner'[d].i = o.t
  BY <1>t, PushLocals DEF PushStep
<1>6. Window(d)' = Window(d)
  BY CopyStays DEF CopyStep, OwnerStep, PushStep
<1>7. \A i \in Window(d) : ~(i < o.t)
  <2>1. o.t <= top[d]
    BY <1>t, <1>2, <1>3, IndexTypes DEF StructureInv, OwnerIndices
  <2> QED BY <1>3, <2>1 DEF Window
<1> QED BY <1>1, <1>2, <1>3, <1>4, <1>5, <1>6, <1>7 DEF CopyUnderWay, CopyPC

\* A growth copies one more item.
LEMMA GrowCopyCopy ==
  ASSUME StructureInv, NEW holder \in Holders, ChainsHeld(holder), NEW d \in Deque,
         Live(d), Contents(d, holder), GrowCopy(d), NEW after
  PROVE  CopyUnderWay(d, after)'
<1> DEFINE o == owner[d]
<1>t. TypeOK /\ BufferTypeOK
  BY DEF StructureInv, TypeOK, PoolTypeOK
<1>1. /\ o.pc = "growCopy" /\ owner'[d].pc = "growCopy" /\ owner'[d].t = o.t /\ owner'[d].dst = o.dst
      /\ owner'[d].i = o.i + 1
  BY <1>t, GrowCopyEffect, PushLocals DEF PushStep
<1>2. /\ o.t \in Int /\ o.i \in Int /\ o.b \in Int /\ top[d] \in Int /\ LogicalBottom(d) \in Int
      /\ Window(d) \subseteq Int
  BY LiveFacts
<1>3. PICK r \in Record, a \in Record :
        /\ r = o.dst /\ a = active[d] /\ o.a = a
        /\ Capacity[r] \in Nat /\ Capacity[a] \in Nat /\ Capacity[a] < Capacity[r]
  BY <1>1, GrowTarget
<1>4. o.i < o.b /\ StoreNoMark(r, o.i, Load(a, o.i))
  BY <1>3 DEF GrowCopy
<1>5. /\ buf'[r].low = buf[r].low
      /\ \A j \in Int : Load(r, j)' = IF Index(r, j) = Index(r, o.i) THEN Load(a, o.i) ELSE Load(r, j)
  BY <1>t, <1>2, <1>4, StoreNoMarkContent
<1>6. Window(d)' = Window(d) /\ \A i \in Window(d) : ItemAt(d, i)' = ItemAt(d, i)
  BY CopyStays DEF CopyStep, OwnerStep, PushStep
<1>7. /\ buf[r].low = NoMark /\ o.t <= o.i
      /\ \A i \in Window(d) : i < o.i => Load(r, i) = ItemAt(d, i)
  BY <1>1, <1>3 DEF Contents, CopyUnderWay
<1>8. ASSUME NEW i \in Window(d), i < o.i + 1
      PROVE  Load(r, i)' = ItemAt(d, i)
  <2>1. CASE i = o.i
    BY <1>2, <1>3, <1>5, <2>1 DEF ItemAt
  <2>2. CASE i # o.i
    <3>1. i - o.i < Capacity[r] /\ o.i - i < Capacity[r]
      <4>1. o.t <= top[d] /\ bottom[d] = o.b /\ o.b - o.t < Capacity[a] /\ LogicalBottom(d) = bottom[d]
        BY <1>t, <1>1, <1>3, IndexTypes DEF StructureInv, OwnerIndices, PushPC, LogicalBottom, Shifted
      <4>2. i >= top[d] /\ i < o.b
        BY <1>2, <4>1 DEF Window
      <4> QED BY <1>2, <1>3, <1>4, <1>7, <4>1, <4>2
    <3>2. Index(r, i) # Index(r, o.i)
      BY <1>2, <2>2, <3>1, SlotsApart
    <3>3. i < o.i
      BY <1>2, <1>8, <2>2
    <3> QED BY <1>2, <1>5, <1>7, <3>2, <3>3
  <2> QED BY <2>1, <2>2
<1>9. o.t <= o.i + 1
  BY <1>2, <1>7
<1> QED BY <1>1, <1>3, <1>5, <1>6, <1>7, <1>8, <1>9 DEF CopyUnderWay, CopyPC

\* A shrink takes one more array into its walk: the lowest mark so far is as
\* low as that of the array, and of all larger ones.
LEMMA WalkOn ==
  ASSUME StructureInv, NEW holder \in Holders, ChainsHeld(holder), NEW d \in Deque,
         NEW r \in Record, holder[r] = d, NEW m \in Nat \cup {NoMark},
         NEW c \in Nat,
         \A s \in Record :
           holder[s] = d /\ Capacity[r] <= Capacity[s] /\ Capacity[s] <= c => AsLow(m, buf[s].low),
         NEW q \in Record, q = buf[r].prev
  PROVE  /\ holder[q] = d
         /\ \A s \in Record :
              holder[s] = d /\ Capacity[q] <= Capacity[s] /\ Capacity[s] <= c =>
                AsLow(MinMark(m, buf[q].low), buf[s].low)
<1>t. BufferTypeOK
  BY DEF StructureInv, TypeOK, PoolTypeOK
<1>d. d # NoDeque /\ NoRecord \notin Record
  BY DequeAssumption, RecordFacts
<1>1. holder[q] = d
  BY <1>d DEF ChainsHeld
<1>2. ASSUME NEW s \in Record, holder[s] = d, Capacity[q] <= Capacity[s], Capacity[s] <= c
      PROVE  AsLow(MinMark(m, buf[q].low), buf[s].low)
  <2>1. buf[q].low \in Nat \cup {NoMark} /\ buf[s].low \in Nat \cup {NoMark}
    BY <1>t, LinkType
  <2>2. Capacity[q] \in Nat /\ Capacity[s] \in Nat /\ Capacity[r] \in Nat
    BY RecordFacts
  <2>3. CASE Capacity[r] <= Capacity[s]
    <3>1. AsLow(m, buf[s].low)
      BY <1>2, <2>3
    <3> QED BY <2>1, <3>1, LowestMark
  <2>4. CASE Capacity[s] < Capacity[r]
    <3>1. Capacity[s] <= Capacity[q]
      BY <1>2, <1>d, <2>4 DEF ChainsHeld
    <3>2. Capacity[s] = Capacity[q]
      BY <1>2, <2>2, <3>1
    <3>3. s = q
      BY <1>1, <1>2, <1>d, <3>2 DEF ChainsHeld
    <3>4. AsLow(buf[q].low, buf[q].low)
      BY <2>1, MarkFacts
    <3> QED BY <2>1, <3>3, <3>4, LowestMark
  <2> QED BY <2>2, <2>3, <2>4
<1> QED BY <1>1, <1>2

\* A shrink starts with the marks of the first two arrays.
LEMMA PopReadTopCopy ==
  ASSUME StructureInv, NEW holder \in Holders, ChainsHeld(holder), NEW d \in Deque,
         Live(d), Contents(d, holder), PopReadTop(d), owner'[d].pc \in CopyPC
  PROVE  CopyUnderWay(d, holder)'
<1> DEFINE o == owner[d]
<1>t. TypeOK /\ BufferTypeOK
  BY DEF StructureInv, TypeOK, PoolTypeOK
<1>1. /\ o.pc = "popTop" /\ UNCHANGED buf /\ active'[d] = active[d]
      /\ owner'[d].pc = "shrinkWalk" /\ CanShrink(d, o.a, o.b, top[d])
      /\ owner'[d].dst = buf[o.a].prev
      /\ owner'[d].mark = MinMark(buf[o.a].low, buf[buf[o.a].prev].low)
  BY <1>t, PopReadTopEffect, PopReadTopLocals DEF CopyPC, PopReadTop, poolVars, SameArray
<1>2. PICK r \in Record : r = active[d] /\ o.a = r
  BY <1>1, LiveFacts DEF StructureInv, OwnerPointers
<1>3. PICK q \in Record : q = buf[r].prev
  BY <1>t, <1>1, <1>2, LinkType DEF CanShrink
<1>4. PICK c \in Nat : c = Capacity[r]
  BY RecordFacts
<1>5. holder[r] = d /\ d # NoDeque
  BY <1>2, DequeAssumption DEF Contents
<1>6. buf[r].low \in Nat \cup {NoMark}
  BY <1>t, LinkType
<1>7. ASSUME NEW s \in Record, holder[s] = d, Capacity[r] <= Capacity[s], Capacity[s] <= c
      PROVE  AsLow(buf[r].low, buf[s].low)
  <2>1. s = r
    BY <1>4, <1>5, <1>7, RecordFacts DEF ChainsHeld
  <2> QED BY <1>6, <2>1, MarkFacts
<1>8. /\ holder[q] = d
      /\ \A s \in Record :
           holder[s] = d /\ Capacity[q] <= Capacity[s] /\ Capacity[s] <= c =>
             AsLow(MinMark(buf[r].low, buf[q].low), buf[s].low)
  BY <1>3, <1>5, <1>6, <1>7, WalkOn
<1> QED BY <1>1, <1>2, <1>3, <1>4, <1>8 DEF CopyUnderWay, CopyPC, AsLow

\* A shrink that skips one more array takes its mark into account.
LEMMA ShrinkWalkCopy ==
  ASSUME StructureInv, NEW holder \in Holders, ChainsHeld(holder), NEW d \in Deque,
         Live(d), Contents(d, holder), ShrinkWalk(d)
  PROVE  CopyUnderWay(d, holder)'
<1> DEFINE o == owner[d]
<1>t. TypeOK /\ BufferTypeOK
  BY DEF StructureInv, TypeOK, PoolTypeOK
<1>1. /\ o.pc = "shrinkWalk" /\ UNCHANGED buf /\ active'[d] = active[d]
      /\ owner'[d].pc = "shrinkWalk" /\ CanShrink(d, o.dst, o.b, o.t)
      /\ owner'[d].dst = buf[o.dst].prev
      /\ owner'[d].mark = MinMark(o.mark, buf[buf[o.dst].prev].low)
  BY <1>t, ShrinkWalkEffect, ShrinkLocals DEF ShrinkWalk, ShrinkStep, poolVars, SameArray
<1>2. PICK r \in Record : r = o.dst
  BY <1>1, ShrinkTarget DEF ShrinkPC, CopyPC
<1>3. PICK q \in Record : q = buf[r].prev
  BY <1>t, <1>1, <1>2, LinkType DEF CanShrink
<1>4. PICK c \in Nat : c = Capacity[active[d]]
  BY LiveFacts
<1>5. PICK m \in Nat \cup {NoMark} : m = o.mark
  BY <1>t DEF TypeOK, OwnerType
<1>6. /\ holder[r] = d
      /\ \A s \in Record :
           holder[s] = d /\ Capacity[r] <= Capacity[s] /\ Capacity[s] <= c => AsLow(m, buf[s].low)
  BY <1>1, <1>2, <1>4, <1>5 DEF Contents, CopyUnderWay, CopyPC
<1>7. /\ holder[q] = d
      /\ \A s \in Record :
           holder[s] = d /\ Capacity[q] <= Capacity[s] /\ Capacity[s] <= c =>
             AsLow(MinMark(m, buf[q].low), buf[s].low)
  BY <1>3, <1>6, WalkOn
<1> QED BY <1>1, <1>2, <1>3, <1>4, <1>5, <1>7 DEF CopyUnderWay, CopyPC, AsLow

\* What the marks say is in the target needs no copy.
LEMMA ShrinkStartCopy ==
  ASSUME StructureInv, NEW holder \in Holders, ChainsHeld(holder), NEW d \in Deque,
         Live(d), Contents(d, holder), ShrinkStart(d)
  PROVE  CopyUnderWay(d, holder)'
<1> DEFINE o == owner[d]
<1>t. TypeOK /\ BufferTypeOK
  BY DEF StructureInv, TypeOK, PoolTypeOK
<1>1. /\ o.pc = "shrinkWalk" /\ active'[d] = active[d]
      /\ owner'[d].pc = "shrinkCopy" /\ owner'[d].dst = o.dst /\ owner'[d].t = o.t
      /\ owner'[d].i = CopyStart(o.t, o.b, o.mark)
  BY <1>t, ShrinkStartEffect, ShrinkLocals DEF ShrinkStep, SameArray
<1>2. PICK r \in Record, a \in Record :
        r = o.dst /\ a = active[d] /\ Capacity[r] < Capacity[a]
  BY <1>1, LiveFacts, ShrinkTarget DEF ShrinkPC, CopyPC
<1>3. PICK m \in Nat \cup {NoMark} : m = o.mark
  BY <1>t DEF TypeOK, OwnerType
<1>4. /\ MarksSuffice(d, holder) /\ holder[r] = d
      /\ \A s \in Record :
           holder[s] = d /\ Capacity[r] <= Capacity[s] /\ Capacity[s] <= Capacity[a] =>
             AsLow(m, buf[s].low)
  BY <1>1, <1>2, <1>3 DEF Contents, CopyUnderWay, CopyPC
<1>5. /\ \A s \in Record \ {r} : SameContent(s)
      /\ buf'[r].slots = buf[r].slots /\ buf'[r].low = MinMark(buf[r].low, m)
  BY <1>t, <1>2, <1>3, LowerMarkContent DEF ShrinkStart
<1>6. Window(d)' = Window(d) /\ \A i \in Window(d) : ItemAt(d, i)' = ItemAt(d, i)
  BY CopyStays DEF CopyStep, OwnerStep, ShrinkStep
<1>7. /\ o.t \in Int /\ o.b \in Int /\ top[d] \in Int /\ LogicalBottom(d) \in Int
      /\ Window(d) \subseteq Int
  BY LiveFacts
<1>8. o.t < o.b /\ o.t <= top[d]
  BY <1>t, <1>1, IndexTypes DEF StructureInv, OwnerIndices, ShrinkPC, CopyPC
<1>9. o.t <= CopyStart(o.t, o.b, m)
  BY <1>7, <1>8 DEF CopyStart, NoMark
<1>l. \A s \in Record : buf[s].low \in Nat \cup {NoMark} /\ Capacity[s] \in Nat
  BY <1>t, LinkType, RecordFacts
<1>10. ASSUME NEW i \in Window(d), i < CopyStart(o.t, o.b, m)
       PROVE  Load(r, i)' = ItemAt(d, i)
  <2>1. i \in Int /\ Unstored(i, m)
    BY <1>7, <1>8, <1>10 DEF CopyStart, Unstored, Window
  <2>2. ASSUME NEW s \in Record, holder[s] = d, Capacity[r] < Capacity[s], Capacity[s] <= Capacity[a]
        PROVE  Unstored(i, buf[s].low)
    <3>1. AsLow(m, buf[s].low)
      BY <1>4, <1>l, <2>2
    <3> QED BY <1>l, <2>1, <3>1, MarkFacts
  <2>3. Load(r, i) = ItemAt(d, i)
    BY <1>2, <1>4, <2>2 DEF MarksSuffice
  <2> QED BY <1>5, <2>3, SameLoad
<1>11. ASSUME NEW s \in Record, holder[s] = d, Capacity[r] <= Capacity[s], Capacity[s] <= Capacity[a]
       PROVE  AsLow(buf'[r].low, buf'[s].low)
  <2>1. AsLow(m, buf[s].low)
    BY <1>4, <1>11
  <2>2. AsLow(MinMark(buf[r].low, m), buf[s].low)
    BY <1>l, <2>1, LowestMark
  <2>3. CASE s = r
    <3>1. MinMark(buf[r].low, m) \in Nat \cup {NoMark}
      BY <1>l, MinMarkType
    <3> QED BY <1>5, <2>3, <3>1, MarkFacts
  <2>4. CASE s # r
    BY <1>5, <2>2, <2>4 DEF SameContent
  <2> QED BY <2>3, <2>4
<1> QED BY <1>1, <1>2, <1>3, <1>4, <1>6, <1>9, <1>10, <1>11 DEF CopyUnderWay, CopyPC, AsLow

\* A shrink copies one more item.
LEMMA ShrinkCopyCopy ==
  ASSUME StructureInv, NEW holder \in Holders, ChainsHeld(holder), NEW d \in Deque,
         Live(d), Contents(d, holder), ShrinkCopy(d)
  PROVE  CopyUnderWay(d, holder)'
<1> DEFINE o == owner[d]
<1>t. TypeOK /\ BufferTypeOK
  BY DEF StructureInv, TypeOK, PoolTypeOK
<1>1. /\ o.pc = "shrinkCopy" /\ owner'[d].pc = "shrinkCopy" /\ owner'[d].t = o.t
      /\ owner'[d].dst = o.dst /\ owner'[d].i = o.i + 1 /\ active'[d] = active[d]
  BY <1>t, ShrinkCopyEffect, ShrinkLocals DEF ShrinkStep, SameArray
<1>2. /\ o.t \in Int /\ o.i \in Int /\ o.b \in Int /\ top[d] \in Int /\ LogicalBottom(d) \in Int
      /\ Window(d) \subseteq Int
  BY LiveFacts
<1>3. PICK r \in Record, a \in Record :
        /\ r = o.dst /\ a = active[d] /\ o.a = a
        /\ Capacity[r] \in Nat /\ Capacity[a] \in Nat /\ Capacity[r] < Capacity[a]
  BY <1>1, LiveFacts, ShrinkTarget, RecordFacts DEF ShrinkPC, CopyPC
<1>4. o.i < o.b /\ StoreNoMark(r, o.i, Load(a, o.i))
  BY <1>3 DEF ShrinkCopy
<1>5. /\ buf'[r].low = buf[r].low
      /\ \A s \in Record \ {r} : SameContent(s)
      /\ \A j \in Int : Load(r, j)' = IF Index(r, j) = Index(r, o.i) THEN Load(a, o.i) ELSE Load(r, j)
  BY <1>t, <1>2, <1>4, StoreNoMarkContent
<1>6. Window(d)' = Window(d) /\ \A i \in Window(d) : ItemAt(d, i)' = ItemAt(d, i)
  BY CopyStays DEF CopyStep, OwnerStep, ShrinkStep
<1>7. /\ holder[r] = d /\ o.t <= o.i
      /\ \A i \in Window(d) : i < o.i => Load(r, i) = ItemAt(d, i)
      /\ \A s \in Record :
           holder[s] = d /\ Capacity[r] <= Capacity[s] /\ Capacity[s] <= Capacity[a] =>
             AsLow(buf[r].low, buf[s].low)
  BY <1>1, <1>3 DEF Contents, CopyUnderWay, CopyPC
<1>8. ASSUME NEW i \in Window(d), i < o.i + 1
      PROVE  Load(r, i)' = ItemAt(d, i)
  <2>1. CASE i = o.i
    BY <1>2, <1>3, <1>5, <2>1 DEF ItemAt
  <2>2. CASE i # o.i
    <3>1. i - o.i < Capacity[r] /\ o.i - i < Capacity[r]
      <4>1. o.t <= top[d] /\ bottom[d] = o.b /\ o.b - o.t < Capacity[r] /\ LogicalBottom(d) = bottom[d]
        BY <1>t, <1>1, <1>3, IndexTypes
           DEF StructureInv, OwnerIndices, ShrinkPC, CopyPC, LogicalBottom, Shifted
      <4>2. i >= top[d] /\ i < o.b
        BY <1>2, <4>1 DEF Window
      <4> QED BY <1>2, <1>3, <1>4, <1>7, <4>1, <4>2
    <3>2. Index(r, i) # Index(r, o.i)
      BY <1>2, <2>2, <3>1, SlotsApart
    <3>3. i < o.i
      BY <1>2, <1>8, <2>2
    <3> QED BY <1>2, <1>5, <1>7, <3>2, <3>3
  <2> QED BY <2>1, <2>2
<1>9. o.t <= o.i + 1
  BY <1>2, <1>7
<1>10. \A s \in Record : buf'[s].low = buf[s].low
  BY <1>5 DEF SameContent
<1> QED BY <1>1, <1>3, <1>6, <1>7, <1>8, <1>9, <1>10 DEF CopyUnderWay, CopyPC

\* Every owner's step keeps what is known of the copy under way.
LEMMA OwnCopy ==
  ASSUME StructureInv, NEW holder \in Holders, ChainsHeld(holder), NEW d \in Deque, OwnerStep(d),
         Live(d), Contents(d, holder), NEW after \in Holders, Handed(d, holder, after)
  PROVE  CopyUnderWay(d, after)'
<1>t. TypeOK
  BY DEF StructureInv
<1>1. CASE owner'[d].pc \notin {"growCopy"} \cup CopyPC
  BY <1>1 DEF CopyUnderWay, CopyPC
<1>2. CASE owner'[d].pc \in {"growCopy"} \cup CopyPC
  <2>1. CopyStep(d)
    BY <1>t, <1>2, CopySteps
  <2>2. ~GrowClaim(d) => after = holder
    BY <2>1, CopyStays DEF Handed
  <2>3. CASE GrowClaim(d)
    BY <2>3, GrowClaimCopy
  <2>4. CASE GrowCopy(d)
    BY <2>4, GrowCopyCopy
  <2>5. CASE PopReadTop(d) /\ ~GrowClaim(d)
    <3>1. owner'[d].pc \in CopyPC
      BY <1>t, <1>2, <2>5, PopReadTopEffect
    <3> QED BY <2>2, <2>5, <3>1, PopReadTopCopy
  <2>6. CASE ShrinkWalk(d) /\ ~GrowClaim(d)
    BY <2>2, <2>6, ShrinkWalkCopy
  <2>7. CASE ShrinkStart(d) /\ ~GrowClaim(d)
    BY <2>2, <2>7, ShrinkStartCopy
  <2>8. CASE ShrinkCopy(d) /\ ~GrowClaim(d)
    BY <2>2, <2>8, ShrinkCopyCopy
  <2> QED BY <2>1, <2>3, <2>4, <2>5, <2>6, <2>7, <2>8 DEF CopyStep
<1> QED BY <1>1, <1>2

-----------------------------------------------------------------------------
(* All of a deque's contents.                                              *)

\* The steps that lead into a push or stay in it, and the only steps that lead
\* to the store of bottom_ and to the race for the last item.
LEMMA PushSteps ==
  ASSUME TypeOK, NEW d \in Deque, OwnerStep(d)
  PROVE  LET o == owner[d]  n == owner'[d]  IN
         /\ n.pc \in PushPC => TryPush(d) \/ (PushStep(d) /\ o.pc \in PushPC)
         /\ n.pc = "pushBottom" => PushSlot(d)
         /\ n.pc = "popCas" => PopReadTop(d)
<1>1. CASE LifeStep(d)
  BY <1>1, ConstructEffect, ConstructClaimEffect, ConstructScanEffect, ConstructFailsEffect,
     DestroyEffect, DestroyReleaseEffect DEF LifeStep, PushPC
<1>2. CASE PushStep(d)
  BY <1>2, TryPushEffect, PushReadTopEffect, GrowClaimEffect, GrowScanEffect, PushFailsEffect,
     GrowCopyEffect, GrowPublishEffect, PushSlotEffect, PushBottomEffect DEF PushStep, PushPC
<1>3. CASE PopStep(d)
  BY <1>3, PopEffect, PopReadTopEffect, PopRestoreEffect, PopCasEffect, PopSettleEffect
     DEF PopStep, PushPC
<1>4. CASE ShrinkStep(d)
  BY <1>4, ShrinkWalkEffect, ShrinkStartEffect, ShrinkCopyEffect, ShrinkPublishEffect,
     ShrinkShiftEffect, ShrinkReadTopEffect, ShrinkCasEffect, ShrinkRestoreEffect,
     ShrinkReleaseEffect DEF ShrinkStep, PushPC
<1> QED BY <1>1, <1>2, <1>3, <1>4 DEF OwnerStep

\* A deque lives through all steps but its construction and destruction.
LEMMA NotLifeStep ==
  ASSUME TypeOK, NEW d \in Deque, OwnerStep(d), ~LifeStep(d)
  PROVE  Live(d) /\ Live(d)'
<1>1. CASE PushStep(d)
  BY <1>1, TryPushEffect, PushReadTopEffect, GrowClaimEffect, GrowScanEffect, PushFailsEffect,
     GrowCopyEffect, GrowPublishEffect, PushSlotEffect, PushBottomEffect DEF PushStep, Live
<1>2. CASE PopStep(d)
  BY <1>2, PopEffect, PopReadTopEffect, PopRestoreEffect, PopCasEffect, PopSettleEffect
     DEF PopStep, Live
<1>3. CASE ShrinkStep(d)
  BY <1>3, ShrinkWalkEffect, ShrinkStartEffect, ShrinkCopyEffect, ShrinkPublishEffect,
     ShrinkShiftEffect, ShrinkReadTopEffect, ShrinkCasEffect, ShrinkRestoreEffect,
     ShrinkReleaseEffect DEF ShrinkStep, Live
<1> QED BY <1>1, <1>2, <1>3 DEF OwnerStep

\* The owner has in hand what it is about to store, or races for.
LEMMA OwnItem ==
  ASSUME StructureInv, NEW holder \in Holders, ChainsHeld(holder), NEW d \in Deque, OwnerStep(d),
         Live(d), OwnersItem(d)
  PROVE  OwnersItem(d)'
<1> DEFINE o == owner[d]
           n == owner'[d]
<1>t. TypeOK /\ BufferTypeOK
  BY DEF StructureInv, TypeOK, PoolTypeOK
<1>f. /\ o \in OwnerType /\ active[d] \in Record /\ o.b \in Int
      /\ pushed[d] \in Nat /\ base[d] \in Nat /\ MaxItems[d] \in Nat
  BY <1>t, LiveFacts, DequeAssumption DEF TypeOK
<1>1. base'[d] <= pushed'[d]
  <2>1. base'[d] = base[d]
    BY <1>t, OwnHistory DEF Live, ConstructClaim, OwnerAt
  <2>2. pushed'[d] \in {pushed[d], pushed[d] + 1}
    BY <1>t, OwnHistory
  <2>3. base[d] <= pushed[d]
    BY DEF OwnersItem
  <2> QED BY <1>f, <2>1, <2>2, <2>3
<1>2. ASSUME n.pc \in PushPC
      PROVE  n.x = <<d, pushed'[d] + 1>> /\ pushed'[d] < MaxItems[d]
  <2>1. ~PushBottom(d)
    BY <1>t, <1>2, PushBottomEffect DEF PushPC
  <2>2. pushed'[d] = pushed[d]
    BY <1>t, <2>1, OwnHistory
  <2>3. CASE TryPush(d)
    <3>1. n.x = <<d, pushed[d] + 1>>
      BY <1>t, <2>3, PushLocals DEF PushStep
    <3> QED BY <2>2, <2>3, <3>1 DEF TryPush
  <2>4. CASE PushStep(d) /\ o.pc \in PushPC
    <3>1. ~TryPush(d) /\ n.pc # "idle"
      BY <1>2, <2>4 DEF TryPush, OwnerAt, PushPC
    <3>2. n.x = o.x
      BY <1>t, <2>4, <3>1, PushLocals
    <3> QED BY <2>2, <2>4, <3>2 DEF OwnersItem
  <2> QED BY <1>t, <1>2, <2>3, <2>4, PushSteps
<1>3. ASSUME n.pc = "pushBottom"
      PROVE  ItemAt(d, owner[d].b)' = n.x /\ buf'[active'[d]].low # NoMark /\ buf'[active'[d]].low <= n.b
  <2>1. PushSlot(d)
    BY <1>t, <1>3, PushSteps
  <2>2. o.pc = "pushSlot" /\ n.b = o.b /\ active'[d] = active[d]
    BY <1>t, <2>1, PushSlotEffect DEF SameArray
  <2>3. n.x = o.x
    BY <1>t, <1>3, <2>1, <2>2, PushLocals DEF PushStep, TryPush, OwnerAt
  <2>4. PICK r \in Record, b \in Nat : r = active[d] /\ o.a = r /\ b = o.b
    BY <1>t, <1>f, <2>2, IndexTypes DEF StructureInv, OwnerPointers, OwnerIndices, PushPC
  <2>5. /\ buf'[r].low = MinMark(buf[r].low, b)
        /\ Load(r, b)' = o.x
    BY <1>t, <2>1, <2>4, StoreContent DEF PushSlot
  <2>6. buf[r].low \in Nat \cup {NoMark}
    BY <1>t, LinkType
  <2>7. MinMark(buf[r].low, b) # NoMark /\ MinMark(buf[r].low, b) <= b
    BY <2>6 DEF MinMark, NoMark
  <2> QED BY <2>2, <2>3, <2>4, <2>5, <2>7 DEF ItemAt
<1>4. ASSUME n.pc = "popCas"
      PROVE  ItemAt(d, owner[d].t)' = n.x
  <2>1. PopReadTop(d)
    BY <1>t, <1>4, PushSteps
  <2>2. o.pc = "popTop" /\ n.t = o.b /\ n.x = Load(o.a, o.b) /\ active'[d] = active[d]
    BY <1>t, <1>4, <2>1, PopReadTopLocals, PopReadTopEffect DEF SameArray
  <2>3. o.a = active[d]
    BY <2>2 DEF StructureInv, OwnerPointers
  <2>4. UNCHANGED buf
    BY <2>1 DEF PopReadTop, poolVars
  <2> QED BY <2>2, <2>3, <2>4, ItemFrame DEF ItemAt
<1> QED BY <1>1, <1>2, <1>3, <1>4 DEF OwnersItem

\* The published array is one of the deque's.
LEMMA OwnActive ==
  ASSUME StructureInv, NEW holder \in Holders, ChainsHeld(holder), NEW d \in Deque, OwnerStep(d),
         Live(d), Contents(d, holder), NEW after \in Holders, Handed(d, holder, after)
  PROVE  after[active'[d]] = d
<1> DEFINE o == owner[d]
<1>t. TypeOK
  BY DEF StructureInv
<1>1. CASE GrowPublish(d)
  <2>1. o.pc = "growCopy" /\ active'[d] = o.dst
    BY <1>t, <1>1, GrowPublishEffect
  <2>2. after = holder
    BY <2>1 DEF Handed, LinkSteps, ConstructClaim, DestroyRelease, GrowClaim, ShrinkRelease, OwnerAt
  <2> QED BY <2>1, <2>2, GrowTarget
<1>2. CASE ShrinkPublish(d)
  <2>1. o.pc = "shrinkCopy" /\ active'[d] = o.dst
    BY <1>t, <1>2, ShrinkPublishEffect
  <2>2. after = holder
    BY <2>1 DEF Handed, LinkSteps, ConstructClaim, DestroyRelease, GrowClaim, ShrinkRelease, OwnerAt
  <2> QED BY <2>1, <2>2 DEF Contents, CopyUnderWay, CopyPC
<1>3. CASE ~GrowPublish(d) /\ ~ShrinkPublish(d)
  <2>1. active'[d] = active[d]
    BY <1>t, <1>3, SameArraySteps DEF SameArray
  <2>2. active[d] \in Record /\ Capacity[active[d]] \in Nat
    BY LiveFacts
  <2>3. Capacity[active[d]] <= Capacity[active[d]]
    BY <2>2
  <2> QED BY <2>1, <2>2, <2>3, OwnRecords DEF Contents
<1> QED BY <1>1, <1>2, <1>3

\* A deque starts empty: what was returned before its construction counts no more.
LEMMA ConstructContents ==
  ASSUME TypeOK, NEW d \in Deque, ConstructClaim(d), NEW after, ChainsHeld(after)',
         ReturnedOnce(d)
  PROVE  Contents(d, after)' /\ ReturnedOnce(d)'
<1>1. /\ owner'[d].pc = "idle" /\ top'[d] = 0 /\ bottom'[d] = 0
      /\ \E r \in owner[d].left : active'[d] = r /\ Claim(r, NoRecord)
  BY ConstructClaimEffect
<1>2. PICK r \in Record : active'[d] = r
  BY <1>1 DEF TypeOK, OwnerType
<1>3. pushed'[d] = pushed[d] /\ base'[d] = pushed[d] /\ UNCHANGED returned /\ pushed[d] \in Nat
  BY DEF ConstructClaim, TypeOK
<1>4. after[r] = d
  <2>1. Root(d)' = r /\ r # NoRecord
    BY <1>1, <1>2, RootCasesNext, RecordFacts
  <2> QED BY <2>1 DEF ChainsHeld
<1>5. Window(d)' = {} /\ Held(d)' = {}
  <2>1. LogicalBottom(d)' = 0
    BY <1>1 DEF LogicalBottom, Shifted
  <2>2. Held(d)' = {}
    BY <1>1, HeldCasesNext DEF HoldPC
  <2> QED BY <1>1, <2>1, <2>2 DEF Window
<1>6. Pending(d)' = {} /\ Present(d)' = {}
  BY <1>3, <1>5 DEF Pending, Present
<1>7. ItemsKept(d)'
  BY <1>5, <1>6 DEF ItemsKept
<1>8. OwnersItem(d)'
  BY <1>1, <1>3 DEF OwnersItem, PushPC
<1>9. MarksSuffice(d, after)' /\ CopyUnderWay(d, after)'
  BY <1>1, <1>5 DEF MarksSuffice, CopyUnderWay, CopyPC
<1>10. ReturnedOnce(d)'
  BY <1>3 DEF ReturnedOnce
<1> QED BY <1>2, <1>4, <1>7, <1>8, <1>9, <1>10 DEF Contents

\* The contents of the deque whose owner takes a step.
LEMMA OwnContents ==
  ASSUME StructureInv, NEW holder \in Holders, ChainsHeld(holder), NEW d \in Deque, OwnerStep(d),
         Contents(d, holder), ReturnedOnce(d),
         NEW after \in Holders, ChainsHeld(after)', Handed(d, holder, after)
  PROVE  Contents(d, after)' /\ ReturnedOnce(d)'
<1>t. TypeOK
  BY DEF StructureInv
<1>1. CASE Live(d) /\ Live(d)'
  <2>1. ItemsKept(d)' /\ ReturnedOnce(d)'
    BY <1>1, OwnItems
  <2>2. OwnersItem(d)'
    BY <1>1, OwnItem DEF Contents
  <2>3. MarksSuffice(d, after)' /\ CopyUnderWay(d, after)'
    BY <1>1, OwnMarks, OwnCopy
  <2>4. after[active'[d]] = d
    BY <1>1, OwnActive
  <2> QED BY <2>1, <2>2, <2>3, <2>4 DEF Contents
<1>2. CASE ConstructClaim(d)
  BY <1>t, <1>2, ConstructContents
<1>3. CASE ~ConstructClaim(d) /\ ~(Live(d) /\ Live(d)')
  <2>1. LifeStep(d)
    BY <1>t, <1>3, NotLifeStep
  <2>2. ~Live(d)'
    BY <1>t, <1>3, <2>1, ConstructEffect, ConstructScanEffect, ConstructFailsEffect,
       DestroyEffect, DestroyReleaseEffect DEF LifeStep, Live
  <2>3. pushed'[d] = pushed[d] /\ UNCHANGED returned
    BY <2>1, <1>3 DEF LifeStep, Construct, ConstructScan, ConstructFails, Destroy, DestroyRelease, history
  <2> QED BY <2>2, <2>3 DEF Contents, ReturnedOnce
<1> QED BY <1>1, <1>2, <1>3

-----------------------------------------------------------------------------
(* The claims of the thieves.                                              *)

\* While the last item is raced for, the owner is inside its pop.
LEMMA ContendedSteps ==
  ASSUME TypeOK, NEW d \in Deque, OwnerStep(d), Contended(d)
  PROVE  PopReadTop(d) \/ PopCas(d)
<1>1. owner[d].pc \in {"popTop", "popCas"}
  BY DEF Contended
<1>2. ~LifeStep(d)
  BY <1>1, ConstructEffect, ConstructClaimEffect, ConstructScanEffect, ConstructFailsEffect,
     DestroyEffect, DestroyReleaseEffect DEF LifeStep
<1>3. ~PushStep(d)
  BY <1>1, TryPushEffect, PushReadTopEffect, GrowClaimEffect, GrowScanEffect, PushFailsEffect,
     GrowCopyEffect, GrowPublishEffect, PushSlotEffect, PushBottomEffect DEF PushStep
<1>4. ~ShrinkStep(d)
  BY <1>1, ShrinkWalkEffect, ShrinkStartEffect, ShrinkCopyEffect, ShrinkPublishEffect,
     ShrinkShiftEffect, ShrinkReadTopEffect, ShrinkCasEffect, ShrinkRestoreEffect,
     ShrinkReleaseEffect DEF ShrinkStep
<1>5. ~Pop(d) /\ ~PopRestore(d) /\ ~PopSettle(d)
  BY <1>1, PopEffect, PopRestoreEffect, PopSettleEffect
<1> QED BY <1>2, <1>3, <1>4, <1>5 DEF OwnerStep, PopStep

\* The steps from the switch of arrays to the CAS of a shrink.
LEMMA ShiftSteps ==
  ASSUME TypeOK, NEW d \in Deque, OwnerStep(d),
         owner[d].pc \in {"shrinkShift", "shrinkTop", "shrinkCas"}
  PROVE  LET o == owner[d]  n == owner'[d]  IN
         /\ UNCHANGED buf
         /\ o.pc = "shrinkShift" => n.pc = "shrinkTop"
         /\ o.pc = "shrinkTop" => n.pc = "shrinkCas" /\ n.snap = top[d]
         /\ o.pc = "shrinkCas" /\ o.snap = top[d] => top'[d] = top[d] + Capacity[o.dst]
<1>1. ~LifeStep(d)
  BY ConstructEffect, ConstructClaimEffect, ConstructScanEffect, ConstructFailsEffect,
     DestroyEffect, DestroyReleaseEffect DEF LifeStep
<1>2. ~PushStep(d)
  BY TryPushEffect, PushReadTopEffect, GrowClaimEffect, GrowScanEffect, PushFailsEffect,
     GrowCopyEffect, GrowPublishEffect, PushSlotEffect, PushBottomEffect DEF PushStep
<1>3. ~PopStep(d)
  BY PopEffect, PopReadTopEffect, PopRestoreEffect, PopCasEffect, PopSettleEffect DEF PopStep
<1>4. ShrinkShift(d) \/ ShrinkReadTop(d) \/ ShrinkCas(d)
  BY <1>1, <1>2, <1>3, ShrinkWalkEffect, ShrinkStartEffect, ShrinkCopyEffect, ShrinkPublishEffect,
     ShrinkRestoreEffect, ShrinkReleaseEffect DEF OwnerStep, ShrinkStep
<1>5. CASE ShrinkShift(d)
  BY <1>5, ShrinkShiftEffect DEF ShrinkShift, poolVars
<1>6. CASE ShrinkReadTop(d)
  BY <1>6, ShrinkReadTopEffect DEF ShrinkReadTop, poolVars
<1>7. CASE ShrinkCas(d)
  <2>1. owner[d].pc = "shrinkCas" /\ UNCHANGED buf
    BY <1>7 DEF ShrinkCas, OwnerAt, poolVars
  <2>2. owner[d].snap = top[d] => top'[d] = top[d] + Capacity[owner[d].dst]
    <3>1. CASE top[d] = owner[d].snap /\ top' = [top EXCEPT ![d] = owner[d].snap + Capacity[owner[d].dst]]
      BY <3>1 DEF TypeOK
    <3>2. CASE top[d] # owner[d].snap
      BY <3>2
    <3> QED BY <1>7, <3>1, <3>2 DEF ShrinkCas, CasTop, CasTopFails
  <2> QED BY <2>1, <2>2
<1> QED BY <1>4, <1>5, <1>6, <1>7

\* The claims on other deques.
LEMMA OtherClaims ==
  ASSUME StructureInv, NEW holder \in Holders, ChainsHeld(holder), NEW d \in Deque, OwnerStep(d),
         \A e \in Deque : Contents(e, holder),
         NEW after \in Holders, Handed(d, holder, after),
         NEW p \in Thief, ClaimSource(p, holder), thief[p].d # d
  PROVE  ClaimSource(p, after)'
<1> DEFINE h == thief[p]
<1>t. TypeOK
  BY DEF StructureInv
<1>1. thief'[p] = h
  BY <1>t, OwnerStepFrame
<1>2. ASSUME h.pc \in {"slot", "cas"}, h.t = top'[h.d]
      PROVE  /\ (IF h.pc = "cas" THEN h.x ELSE Load(h.a, h.t)') = ItemAt(thief[p].d, h.t)'
             /\ h.pc = "slot" =>
                  /\ after[h.a] = h.d
                  /\ \/ Capacity[h.a] <= Capacity[active'[h.d]]
                     \/ owner'[h.d].pc \in {"shrinkShift", "shrinkTop"}
                     \/ owner'[h.d].pc = "shrinkCas" /\ h.t <= owner'[h.d].snap
  <2>1. PICK e \in Deque \ {d} : e = h.d /\ Live(e) /\ h.a \in Record
    BY <1>2 DEF StructureInv, ThiefIndices
  <2>2. /\ owner'[e] = owner[e] /\ active'[e] = active[e] /\ top'[e] = top[e]
    BY <1>t, OwnerStepFrame
  <2>3. PICK r \in Record : r = active[e] /\ holder[r] = e /\ active'[e] = r
    BY <2>1, <2>2, LiveFacts DEF Contents
  <2>4. ASSUME NEW s \in Record, holder[s] = e
        PROVE  Load(s, h.t)' = Load(s, h.t) /\ after[s] = e
    <3>1. holder[s] \notin {d, NoDeque}
      BY <2>4, DequeAssumption
    <3>2. SameContent(s)
      BY <3>1, OthersUntouched
    <3>3. after[s] = e
      BY <2>4, <3>1 DEF Handed
    <3> QED BY <1>t, <1>1, <3>2, <3>3, OwnerStepFrame DEF SameContent, Load, Index
  <2>5. ItemAt(thief[p].d, h.t)' = Load(r, h.t) /\ ItemAt(thief[p].d, h.t) = Load(r, h.t)
    <3>1. ItemAt(thief[p].d, h.t)' = Load(r, h.t)'
      BY <1>1, <2>1, <2>3 DEF ItemAt
    <3> QED BY <2>1, <2>3, <2>4, <3>1 DEF ItemAt
  <2>6. h.t = top[e]
    BY <1>2, <2>1, <2>2
  <2>7. CASE h.pc = "cas"
    BY <2>1, <2>5, <2>6, <2>7 DEF ClaimSource
  <2>8. CASE h.pc = "slot"
    <3>1. /\ Load(h.a, h.t) = ItemAt(thief[p].d, h.t) /\ holder[h.a] = e
          /\ \/ Capacity[h.a] <= Capacity[active[e]]
             \/ owner[e].pc \in {"shrinkShift", "shrinkTop"}
             \/ owner[e].pc = "shrinkCas" /\ h.t <= owner[e].snap
      BY <2>1, <2>6, <2>8 DEF ClaimSource
    <3>2. Load(h.a, h.t)' = Load(h.a, h.t) /\ after[h.a] = e
      <4>1. PICK s \in Record : s = h.a
        BY <2>1
      <4>2. Load(s, h.t)' = Load(s, h.t) /\ after[s] = e
        BY <2>4, <3>1, <4>1
      <4> QED BY <1>1, <4>1, <4>2
    <3> QED BY <2>1, <2>2, <2>5, <2>8, <3>1, <3>2
  <2> QED BY <1>2, <2>7, <2>8
<1> QED BY <1>1, <1>2 DEF ClaimSource

\* What an owner's step does to the item at top_, as long as top_ stays: nothing,
\* wherever a thief may read it.
LEMMA TopItemStays ==
  ASSUME StructureInv, NEW holder \in Holders, ChainsHeld(holder), NEW d \in Deque, OwnerStep(d),
         Live(d), Contents(d, holder), Claimable(d), SameTop(d),
         NEW t, t = top[d]
  PROVE  /\ ItemAt(d, t)' = ItemAt(d, t)
         /\ \A r \in Record :
              /\ holder[r] = d /\ Load(r, t) = ItemAt(d, t)
              /\ \/ Capacity[r] <= Capacity[active[d]]
                 \/ owner[d].pc \in {"shrinkShift", "shrinkTop", "shrinkCas"}
              => Load(r, t)' = ItemAt(d, t)
<1> DEFINE o == owner[d]
<1>t. TypeOK
  BY DEF StructureInv
<1>f. /\ active[d] \in Record /\ Capacity[active[d]] \in Nat /\ top[d] \in Int
      /\ LogicalBottom(d) \in Int /\ holder[active[d]] = d
  BY LiveFacts DEF Contents
<1>1. CASE Contended(d)
  <2>1. PopReadTop(d) \/ PopCas(d)
    BY <1>1, <1>t, ContendedSteps
  <2>2. UNCHANGED buf /\ active'[d] = active[d]
    BY <1>t, <2>1, PopReadTopEffect, PopCasEffect DEF PopReadTop, PopCas, poolVars, SameArray
  <2>3. ItemAt(d, t)' = ItemAt(d, t)
    BY <2>2, ItemFrame
  <2>4. \A r \in Record : Load(r, t)' = Load(r, t)
    BY <2>2 DEF Load, Index
  <2> QED BY <2>3, <2>4
<1>2. CASE top[d] < LogicalBottom(d)
  <2>1. t \in Window(d) /\ t \in Int
    BY <1>2, <1>f DEF Window
  <2>2. ItemAt(d, t)' = ItemAt(d, t)
    BY <2>1, ItemsStay
  <2>3. ASSUME NEW r \in Record, holder[r] = d, Load(r, t) = ItemAt(d, t),
               \/ Capacity[r] <= Capacity[active[d]]
               \/ o.pc \in {"shrinkShift", "shrinkTop", "shrinkCas"}
        PROVE  Load(r, t)' = ItemAt(d, t)
    <3>1. CASE o.pc \in {"shrinkShift", "shrinkTop", "shrinkCas"}
      <4>1. UNCHANGED buf
        BY <1>t, <3>1, ShiftSteps
      <4> QED BY <2>3, <4>1 DEF Load, Index
    <3>2. CASE o.pc \notin {"shrinkShift", "shrinkTop", "shrinkCas"}
      <4>1. Capacity[r] <= Capacity[active[d]] /\ Capacity[r] \in Nat
        BY <2>3, <3>2, RecordFacts
      <4>2. CASE Capacity[r] < Capacity[active[d]]
        BY <2>1, <2>3, <4>1, <4>2, BelowActive
      <4>3. CASE Capacity[r] = Capacity[active[d]]
        <5>1. r = active[d]
          BY <1>f, <2>3, <4>3, DequeAssumption DEF ChainsHeld
        <5>2. (~GrowPublish(d) /\ ~ShrinkPublish(d)) \/ UNCHANGED buf
          BY DEF GrowPublish, ShrinkPublish, poolVars
        <5>3. CASE UNCHANGED buf
          BY <2>3, <5>3 DEF Load, Index
        <5>4. CASE ~GrowPublish(d) /\ ~ShrinkPublish(d)
          <6>1. active'[d] = active[d]
            BY <1>t, <5>4, SameArraySteps DEF SameArray
          <6>2. ItemAt(d, t)' = Load(r, t)'
            BY <5>1, <6>1 DEF ItemAt
          <6> QED BY <2>2, <6>2
        <5> QED BY <5>2, <5>3, <5>4
      <4> QED BY <1>f, <4>1, <4>2, <4>3
    <3> QED BY <3>1, <3>2
  <2> QED BY <2>2, <2>3
<1> QED BY <1>1, <1>2 DEF Claimable

\* The claims on the deque whose owner takes the step.
LEMMA OwnClaims ==
  ASSUME StructureInv, NEW holder \in Holders, ChainsHeld(holder), NEW d \in Deque, OwnerStep(d),
         Contents(d, holder), NEW after \in Holders, Handed(d, holder, after),
         NEW p \in Thief, ClaimSource(p, holder), thief[p].d = d
  PROVE  ClaimSource(p, after)'
<1> DEFINE h == thief[p]
           o == owner[d]
           n == owner'[d]
<1>t. TypeOK
  BY DEF StructureInv
<1>1. thief'[p] = h
  BY <1>t, OwnerStepFrame
<1>2. ASSUME h.pc \in {"slot", "cas"}, h.t = top'[d]
      PROVE  /\ (IF h.pc = "cas" THEN h.x ELSE Load(h.a, h.t)') = ItemAt(thief[p].d, h.t)'
             /\ h.pc = "slot" =>
                  /\ after[h.a] = d
                  /\ \/ Capacity[h.a] <= Capacity[active'[d]]
                     \/ n.pc \in {"shrinkShift", "shrinkTop"}
                     \/ n.pc = "shrinkCas" /\ h.t <= n.snap
  <2>1. /\ Live(d) /\ h.a \in Record /\ h.t <= top[d] /\ (h.t = top[d] => Claimable(d))
        /\ h.t \in Int /\ top[d] \in Int
    BY <1>t, <1>2 DEF StructureInv, ThiefIndices, TypeOK, ThiefType
  <2>2. SameTop(d)
    <3>1. CASE ~SameTop(d)
      <4>1. top'[d] > top[d]
        BY <2>1, <3>1, OwnerMovesTop
      <4> QED BY <1>2, <2>1, <4>1
    <3> QED BY <3>1
  <2>3. PICK t \in Int : t = h.t /\ t = top[d] /\ Claimable(d)
    BY <1>2, <2>1, <2>2 DEF SameTop
  <2>4. ItemAt(d, t)' = ItemAt(d, t)
    BY <2>1, <2>2, <2>3, TopItemStays
  <2>5. ItemAt(thief[p].d, h.t)' = ItemAt(d, t)
    <3>1. ItemAt(thief[p].d, h.t)' = ItemAt(d, t)'
      BY <1>1, <2>3
    <3> QED BY <2>4, <3>1
  <2>6. CASE h.pc = "cas"
    BY <2>3, <2>5, <2>6 DEF ClaimSource
  <2>7. CASE h.pc = "slot"
    <3>1. PICK r \in Record : r = h.a
      BY <2>1
    <3>2. /\ Load(r, t) = ItemAt(d, t) /\ holder[r] = d
          /\ \/ Capacity[r] <= Capacity[active[d]]
             \/ o.pc \in {"shrinkShift", "shrinkTop"}
             \/ o.pc = "shrinkCas" /\ t <= o.snap
      BY <2>3, <2>7, <3>1 DEF ClaimSource
    <3>3. Load(r, t)' = ItemAt(d, t)
      BY <2>1, <2>2, <2>3, <3>2, TopItemStays
    <3>4. Load(h.a, h.t)' = ItemAt(d, t)
      <4>1. Load(h.a, h.t)' = Load(r, t)'
        BY <1>1, <2>3, <3>1
      <4> QED BY <3>3, <4>1
    <3>5. after[r] = d /\ \/ Capacity[r] <= Capacity[active'[d]]
                          \/ n.pc \in {"shrinkShift", "shrinkTop"}
                          \/ n.pc = "shrinkCas" /\ t <= n.snap
      <4>1. CASE Capacity[r] <= Capacity[active[d]]
        <5>1. after[r] = d
          BY <2>1, <3>2, <4>1, OwnRecords
        <5>2. Capacity[r] \in Nat /\ Capacity[active[d]] \in Nat
          BY <2>1, LiveFacts, RecordFacts
        <5>3. CASE GrowPublish(d)
          <6>1. o.pc = "growCopy" /\ active'[d] = o.dst
            BY <1>t, <5>3, GrowPublishEffect
          <6>2. Capacity[o.dst] \in Nat /\ Capacity[active[d]] < Capacity[o.dst]
            BY <6>1, GrowTarget
          <6> QED BY <4>1, <5>1, <5>2, <6>1, <6>2
        <5>4. CASE ShrinkPublish(d)
          BY <1>t, <5>1, <5>4, ShrinkPublishEffect
        <5>5. CASE ~GrowPublish(d) /\ ~ShrinkPublish(d)
          BY <1>t, <2>1, <4>1, <5>1, <5>5, SameArraySteps DEF SameArray
        <5> QED BY <5>3, <5>4, <5>5
      <4>2. CASE o.pc \in {"shrinkShift", "shrinkTop"}
        <5>1. n.pc = "shrinkTop" \/ (n.pc = "shrinkCas" /\ n.snap = top[d])
          BY <1>t, <4>2, ShiftSteps
        <5>2. after = holder
          BY <4>2 DEF Handed, LinkSteps, ConstructClaim, DestroyRelease, GrowClaim, ShrinkRelease, OwnerAt
        <5>3. t <= top[d]
          BY <2>3
        <5> QED BY <3>2, <5>1, <5>2, <5>3
      <4>3. CASE o.pc = "shrinkCas" /\ t <= o.snap
        <5>1. o.snap <= top[d] /\ o.snap \in Int
          BY <1>t, <4>3, IndexTypes DEF StructureInv, OwnerIndices
        <5>2. o.snap = top[d]
          BY <2>3, <4>3, <5>1
        <5>3. top'[d] = top[d] + Capacity[o.dst]
          BY <1>t, <4>3, <5>2, ShiftSteps
        <5>4. Capacity[o.dst] \in Nat \ {0}
          BY <4>3, ShrinkTarget DEF ShrinkPC
        <5> QED BY <2>2, <2>3, <5>3, <5>4 DEF SameTop
      <4> QED BY <3>2, <4>1, <4>2, <4>3
    <3> QED BY <2>3, <2>5, <2>7, <3>1, <3>4, <3>5
  <2> QED BY <1>2, <2>6, <2>7
<1> QED BY <1>1, <1>2 DEF ClaimSource

\* A thief's step changes what its deque holds only by a successful CAS.
LEMMA ThiefEffect ==
  ASSUME StructureInv, NEW p \in Thief, ThiefStep(p)
  PROVE  LET h == thief[p] IN
         /\ UNCHANGED <<pushed, base>>
         /\ \/ UNCHANGED <<top, returned>>
            \/ /\ h.pc = "cas" /\ h.t = top[h.d] /\ top' = [top EXCEPT ![h.d] = @ + 1]
               /\ Deliver(h.d, h.x) /\ thief'[p].pc = "idle"
               /\ h.d \in Deque /\ Live(h.d) /\ Claimable(h.d)
<1> DEFINE h == thief[p]
<1>t. TypeOK
  BY DEF StructureInv
<1>1. UNCHANGED <<pushed, base>>
  BY DEF ThiefStep, StealReadTop, StealReadOld, StealReadBottom, StealReadArray, StealRecheck,
         StealReadSlot, StealCas, history
<1>2. CASE StealCas(p)
  <2>1. h.pc = "cas"
    BY <1>2 DEF StealCas, ThiefAt
  <2>2. h.d \in Deque /\ Live(h.d) /\ (h.t = top[h.d] => Claimable(h.d))
    BY <2>1 DEF StructureInv, ThiefIndices
  <2>3. CASE CasTop(h.d, h.t, h.t + 1) /\ Deliver(h.d, h.x) /\ StealReturns(p, "SUCCESS")
    <3>1. h.t = top[h.d] /\ top' = [top EXCEPT ![h.d] = h.t + 1]
      BY <2>3 DEF CasTop
    <3>2. top' = [top EXCEPT ![h.d] = @ + 1]
      BY <3>1
    <3>3. thief'[p].pc = "idle"
      BY <1>t, <2>3, ThiefGoesFacts DEF StealReturns, IdleThief
    <3> QED BY <1>1, <2>1, <2>2, <2>3, <3>1, <3>2, <3>3
  <2>4. CASE CasTopFails(h.d, h.t) /\ UNCHANGED returned
    BY <1>1, <2>4 DEF CasTopFails
  <2> QED BY <1>2, <2>3, <2>4 DEF StealCas
<1>3. CASE ~StealCas(p)
  BY <1>1, <1>3 DEF ThiefStep, StealReadTop, StealReadOld, StealReadBottom, StealReadArray, StealRecheck,
         StealReadSlot, indexVars, history
<1> QED BY <1>2, <1>3

\* A thief's step links, claims and releases nothing.
LEMMA ThiefKeepsHolders ==
  ASSUME StructureInv, NEW holder \in Holders, ChainsHeld(holder), NEW p \in Thief, ThiefStep(p)
  PROVE  ChainsHeld(holder)'
<1>1. UNCHANGED <<poolVars, owner, active>>
  BY ThiefStepFrame DEF StructureInv
<1>2. \A d \in Deque : Root(d)' = Root(d)
  BY <1>1, RootFrame
<1>3. OwnedRecords' = OwnedRecords /\ \A r \in Record : buf'[r].prev = buf[r].prev
  BY <1>1 DEF OwnedRecords, poolVars
<1> QED BY <1>2, <1>3, SameHolders

\* A deque from which no thief takes an item keeps its contents.
LEMMA UntouchedContents ==
  ASSUME StructureInv, NEW holder \in Holders, NEW d \in Deque,
         UNCHANGED <<poolVars, owner, active, bottom, pushed, base>>,
         top'[d] = top[d], returned'[d] = returned[d],
         Contents(d, holder), ReturnedOnce(d), ChainsHeld(holder)
  PROVE  Contents(d, holder)' /\ ReturnedOnce(d)'
<1>1. UNCHANGED buf
  BY DEF poolVars
<1>2. \A r \in Record : SameContent(r)
  BY <1>1 DEF SameContent
<1>3. Live(d) => active[d] \in Record
  BY LiveFacts
<1>4. owner[d].pc \in {"growCopy"} \cup CopyPC => owner[d].dst \in Record /\ holder[owner[d].dst] = d
  <2>1. CASE owner[d].pc = "growCopy"
    BY <2>1, GrowTarget
  <2>2. CASE owner[d].pc \in CopyPC
    <3>1. Live(d)
      BY <2>2 DEF Live, CopyPC
    <3> QED BY <2>2, <3>1, ShrinkTarget DEF ShrinkPC, Contents, CopyUnderWay
  <2> QED BY <2>1, <2>2
<1>5. Contents(d, holder)'
  BY <1>2, <1>3, <1>4, ContentsFrame
<1>6. ReturnedOnce(d)'
  BY DEF ReturnedOnce
<1> QED BY <1>5, <1>6

\* The window of a deque whose item at top_ is taken, and what a pop still holds.
LEMMA TakenWindow ==
  ASSUME StructureInv, NEW d \in Deque, Live(d), Claimable(d),
         UNCHANGED <<buf, owner, active, bottom>>, top'[d] = top[d] + 1
  PROVE  /\ Window(d)' = Window(d) \ {top[d]}
         /\ \/ top[d] \in Window(d) /\ Held(d)' = Held(d)
            \/ /\ Window(d) = {} /\ Held(d)' = {}
               /\ \/ Held(d) = {ItemAt(d, top[d])}
                  \/ owner[d].pc = "popCas" /\ top[d] = owner[d].t /\ Held(d) = {owner[d].x}
<1> DEFINE o == owner[d]
<1>t. TypeOK
  BY DEF StructureInv
<1>f. top[d] \in Int /\ bottom[d] \in Int /\ LogicalBottom(d) \in Int /\ o.b \in Int /\ o.t \in Int
  BY LiveFacts
<1>b. LogicalBottom(d)' = LogicalBottom(d)
  BY DEF LogicalBottom, Shifted
<1>w. Window(d)' = Window(d) \ {top[d]}
  BY <1>f, <1>b DEF Window
<1>i. \A i : ItemAt(d, i)' = ItemAt(d, i)
  BY ItemFrame
<1>1. CASE o.pc = "popTop"
  <2>1. bottom[d] = o.b /\ LogicalBottom(d) = bottom[d]
    BY <1>1 DEF StructureInv, OwnerIndices, LogicalBottom, Shifted
  <2>2. Held(d) = IF top[d] <= o.b THEN {ItemAt(d, o.b)} ELSE {}
    BY <1>1, HeldCases
  <2>3. Held(d)' = IF top[d] + 1 <= o.b THEN {ItemAt(d, o.b)} ELSE {}
    <3>1. owner'[d].pc = "popTop" /\ owner'[d].b = o.b
      BY <1>1
    <3>2. ItemAt(d, owner[d].b)' = ItemAt(d, o.b)
      BY DEF ItemAt, Load, Index
    <3> QED BY <3>1, <3>2, HeldCasesNext
  <2>4. CASE top[d] < o.b
    BY <1>f, <1>w, <2>1, <2>2, <2>3, <2>4 DEF Window
  <2>5. CASE ~(top[d] < o.b)
    <3>1. top[d] = o.b
      BY <1>1, <2>1, <2>5 DEF Claimable, Contended
    <3>2. Window(d) = {}
      BY <1>f, <2>1, <3>1 DEF Window
    <3>3. Held(d) = {ItemAt(d, top[d])} /\ Held(d)' = {}
      BY <1>f, <2>2, <2>3, <3>1
    <3> QED BY <1>w, <3>2, <3>3
  <2> QED BY <2>4, <2>5
<1>2. CASE o.pc = "popCas"
  <2>1. bottom[d] = o.t /\ LogicalBottom(d) = bottom[d] /\ top[d] \in {o.t, o.t + 1}
    BY <1>2 DEF StructureInv, OwnerIndices, LogicalBottom, Shifted
  <2>2. top[d] = o.t
    BY <1>2, <1>f, <2>1 DEF Claimable, Contended
  <2>3. Held(d) = {o.x}
    BY <1>2, <2>2, HeldCases
  <2>4. Held(d)' = {}
    <3>1. top'[d] # owner'[d].t /\ owner'[d].pc = "popCas"
      BY <1>2, <1>f, <2>2
    <3> QED BY <3>1, HeldCasesNext
  <2>5. Window(d) = {}
    BY <1>f, <2>1, <2>2 DEF Window
  <2> QED BY <1>2, <1>w, <2>2, <2>3, <2>4, <2>5
<1>3. CASE o.pc \notin {"popTop", "popCas"}
  <2>1. top[d] < LogicalBottom(d)
    BY <1>3 DEF Claimable, Contended
  <2>2. top[d] \in Window(d)
    BY <1>f, <2>1 DEF Window
  <2>3. Held(d)' = Held(d)
    <3>1. owner'[d].pc = o.pc /\ owner'[d].x = o.x
      OBVIOUS
    <3> QED BY <1>3, <3>1, HeldCases, HeldCasesNext
  <2> QED BY <1>w, <2>2, <2>3
<1> QED BY <1>1, <1>2, <1>3

\* A thief takes the oldest item, or the one the owner was about to take.
LEMMA TakenItems ==
  ASSUME StructureInv, NEW d \in Deque, Live(d), Claimable(d),
         UNCHANGED <<buf, owner, active, bottom, pushed, base>>, top'[d] = top[d] + 1,
         ItemsKept(d), ReturnedOnce(d), OwnersItem(d),
         NEW x, x = ItemAt(d, top[d]), Deliver(d, x)
  PROVE  ItemsKept(d)' /\ ReturnedOnce(d)'
<1>t. TypeOK
  BY DEF StructureInv
<1>w. Window(d) \subseteq Int /\ top[d] \in Int /\ LogicalBottom(d) \in Int
  BY LiveFacts
<1>1. Window(d)' = Window(d) \ {top[d]}
  BY TakenWindow
<1>2. \A i : ItemAt(d, i)' = ItemAt(d, i)
  BY ItemFrame
<1>3. \/ top[d] \in Window(d) /\ Held(d)' = Held(d)
      \/ Window(d) = {} /\ Held(d)' = {} /\ Held(d) = {x}
  BY TakenWindow DEF OwnersItem
<1>4. x \in Pending(d) \cup Held(d)
  BY <1>3 DEF Pending
<1>5. x \in Present(d) /\ returned[d][x] = 0
  BY <1>4 DEF ItemsKept
<1>6. /\ returned'[d][x] = 1
      /\ \A v \in Present(d) \ {x} : returned'[d][v] = returned[d][v]
      /\ ReturnedOnce(d)'
  BY <1>t, <1>5, OneReturned
<1>7. Pending(d)' = {ItemAt(d, i) : i \in Window(d) \ {top[d]}}
  BY <1>1, <1>2 DEF Pending
<1>8. /\ Pending(d)' \cup Held(d)' = (Pending(d) \cup Held(d)) \ {x}
      /\ \A v \in Pending(d)', w \in Held(d)' : v[2] < w[2]
  <2>1. CASE top[d] \in Window(d) /\ Held(d)' = Held(d)
    <3>1. x \in Pending(d)
      BY <2>1 DEF Pending
    <3>2. \A v \in Held(d) : x[2] < v[2]
      BY <3>1 DEF ItemsKept
    <3>3. \A i \in Window(d) \ {top[d]} : x[2] < ItemAt(d, i)[2]
      <4>1. \A i \in Window(d) \ {top[d]} : top[d] < i
        BY <1>w DEF Window
      <4> QED BY <2>1, <4>1 DEF ItemsKept
    <3>4. x[2] \in Nat
      <4>1. PICK k \in base[d] + 1 .. pushed[d] : x = <<d, k>>
        BY <1>5 DEF Present
      <4>2. k \in Nat
        BY <1>t, <4>1 DEF TypeOK
      <4> QED BY <4>1, <4>2
    <3>5. x \notin Held(d) /\ x \notin Pending(d)'
      BY <1>7, <3>2, <3>3, <3>4
    <3>6. Pending(d) = Pending(d)' \cup {x}
      BY <1>7, <2>1 DEF Pending
    <3>7. \A v \in Pending(d)', w \in Held(d)' : v[2] < w[2]
      BY <2>1, <3>6 DEF ItemsKept
    <3> QED BY <2>1, <3>5, <3>6, <3>7
  <2>2. CASE Window(d) = {} /\ Held(d)' = {} /\ Held(d) = {x}
    BY <1>7, <2>2 DEF Pending
  <2> QED BY <1>3, <2>1, <2>2
<1>9. \A i \in Window(d)' : i - 0 \in Window(d) /\ ItemAt(d, i)' = ItemAt(d, i - 0)
  <2>1. \A i \in Window(d)' : i \in Window(d) /\ i - 0 = i
    BY <1>w, <1>1
  <2> QED BY <1>2, <2>1
<1>10. PICK gone : gone = {x}
  OBVIOUS
<1>11. \A v \in gone : returned'[d][v] = 1
  BY <1>6, <1>10
<1>12. ItemsKept(d)'
  <2>1. Window(d)' \subseteq Int
    BY <1>w, <1>1
  <2>2. pushed'[d] = pushed[d] /\ base'[d] = base[d]
    OBVIOUS
  <2>3. Pending(d)' \cup Held(d)' = (Pending(d) \cup Held(d)) \ gone
    BY <1>8, <1>10
  <2>4. \A v \in Present(d) \ gone : returned'[d][v] = returned[d][v]
    BY <1>6, <1>10
  <2> QED BY <1>w, <1>8, <1>9, <1>11, <2>1, <2>2, <2>3, <2>4, ItemsLess
<1> QED BY <1>6, <1>12

\* A thief that moves top_ on takes one item, and leaves all others.
LEMMA TakenContents ==
  ASSUME StructureInv, NEW holder \in Holders, ChainsHeld(holder), NEW d \in Deque,
         Live(d), Claimable(d), Contents(d, holder), ReturnedOnce(d),
         UNCHANGED <<buf, owner, active, bottom, pushed, base>>, top'[d] = top[d] + 1,
         NEW x, x = ItemAt(d, top[d]), Deliver(d, x)
  PROVE  Contents(d, holder)' /\ ReturnedOnce(d)'
<1> DEFINE o == owner[d]
<1>t. TypeOK
  BY DEF StructureInv
<1>0. /\ holder[active[d]] = d /\ MarksSuffice(d, holder) /\ CopyUnderWay(d, holder)
      /\ ItemsKept(d) /\ OwnersItem(d)
  BY DEF Contents
<1>w. /\ Window(d) \subseteq Int /\ top[d] \in Int /\ active[d] \in Record
      /\ Window(d)' \subseteq Window(d)
  BY LiveFacts, TakenWindow
<1>1. ItemsKept(d)' /\ ReturnedOnce(d)'
  BY <1>0, TakenItems
<1>2. (\A i : ItemAt(d, i)' = ItemAt(d, i)) /\ \A r : \A i : Load(r, i)' = Load(r, i)
  BY ItemFrame DEF Load, Index
<1>3. MarksSuffice(d, holder)'
  BY <1>0, <1>w, <1>2, MarksKept
<1>4. CopyUnderWay(d, holder)'
  <2>1. ASSUME o.pc \in {"growCopy", "shrinkCopy"}, NEW i \in Window(d)', i < o.i
        PROVE  Load(owner[d].dst, i)' = ItemAt(d, i)'
    <3>1. i \in Window(d)
      BY <1>w
    <3>2. Load(o.dst, i) = ItemAt(d, i)
      BY <1>0, <2>1, <3>1 DEF CopyUnderWay
    <3>3. Load(owner[d].dst, i)' = Load(o.dst, i)
      BY DEF Load, Index
    <3> QED BY <1>2, <3>2, <3>3
  <2> QED BY <1>0, <2>1 DEF CopyUnderWay, CopyPC, AsLow
<1>5. OwnersItem(d)'
  <2>1. ASSUME o.pc = "popCas", top'[d] = o.t
        PROVE  FALSE
    <3>1. top[d] \in {o.t, o.t + 1} /\ o.t \in Int
      BY <1>t, <2>1, IndexTypes DEF StructureInv, OwnerIndices
    <3> QED BY <1>w, <2>1, <3>1
  <2>2. ItemAt(d, owner[d].b)' = ItemAt(d, o.b)
    BY DEF ItemAt, Load, Index
  <2> QED BY <1>0, <2>1, <2>2 DEF OwnersItem
<1> QED BY <1>0, <1>1, <1>3, <1>4, <1>5 DEF Contents

-----------------------------------------------------------------------------
(* ItemInv is inductive.                                                   *)

\* The claims of the other thieves: a thief that takes an item ends them.
LEMMA ThiefOtherClaims ==
  ASSUME StructureInv, NEW p \in Thief, ThiefStep(p), NEW q \in Thief \ {p},
         NEW holder, ClaimSource(q, holder)
  PROVE  ClaimSource(q, holder)'
<1> DEFINE h == thief[q]
<1>t. TypeOK
  BY DEF StructureInv
<1>1. UNCHANGED <<poolVars, owner, active>> /\ thief'[q] = h
  BY <1>t, ThiefStepFrame
<1>2. UNCHANGED buf
  BY <1>1 DEF poolVars
<1>3. ASSUME h.pc \in {"slot", "cas"}, h.t = top'[h.d]
      PROVE  h.t = top[h.d]
  <2>1. h.d \in Deque /\ h.t <= top[h.d] /\ h.t \in Int
    BY <1>t, <1>3 DEF StructureInv, ThiefIndices, TypeOK, ThiefType
  <2>2. top[h.d] \in Int /\ top \in [Deque -> Int]
    BY <1>t, <2>1 DEF TypeOK
  <2>3. top'[h.d] \in {top[h.d], top[h.d] + 1}
    <3>1. CASE UNCHANGED top
      BY <3>1
    <3>2. CASE thief[p].d \in Deque /\ top' = [top EXCEPT ![thief[p].d] = @ + 1]
      BY <2>1, <2>2, <3>2
    <3> QED BY <3>1, <3>2, ThiefMovesTop
  <2> QED BY <1>3, <2>1, <2>2, <2>3
<1>4. ItemAt(thief[q].d, thief[q].t)' = ItemAt(h.d, h.t)
  BY <1>1, <1>2 DEF ItemAt, Load, Index
<1>5. Load(thief[q].a, thief[q].t)' = Load(h.a, h.t)
  BY <1>1, <1>2 DEF Load, Index
<1> QED BY <1>1, <1>3, <1>4, <1>5 DEF ClaimSource

\* The claim of the thief itself: it chooses the active array, and reads the slot.
LEMMA ThiefOwnClaims ==
  ASSUME StructureInv, NEW p \in Thief, ThiefStep(p),
         NEW holder, \A d \in Deque : Contents(d, holder), ClaimSource(p, holder)
  PROVE  ClaimSource(p, holder)'
<1> DEFINE h == thief[p]
<1>t. TypeOK
  BY DEF StructureInv
<1>g. \A l : ThiefGoes(p, l) => thief'[p] = l
  BY <1>t, ThiefGoesFacts
<1>1. CASE StealReadArray(p)
  <2>1. h.pc = "array" /\ UNCHANGED <<poolVars, indexVars, owner>>
    BY <1>1 DEF StealReadArray, ThiefAt
  <2>2. h.d \in Deque /\ Live(h.d)
    BY <2>1 DEF StructureInv, ThiefIndices
  <2>3. PICK r \in Record : r = active[h.d] /\ holder[r] = h.d
    BY <2>2, LiveFacts DEF Contents
  <2>4. \/ thief'[p].pc \notin {"slot", "cas"}
        \/ /\ thief'[p].pc = "slot" /\ thief'[p].d = h.d /\ thief'[p].t = h.t /\ thief'[p].a = r
    <3>1. h \in ThiefType
      BY <1>t DEF TypeOK
    <3>2. CASE StealReturns(p, "EMPTY")
      BY <1>g, <3>2 DEF StealReturns, IdleThief
    <3>3. CASE ThiefGoes(p, [[h EXCEPT !.a = active[h.d]] EXCEPT !.pc = "recheck"])
      BY <1>g, <3>1, <3>3 DEF ThiefType
    <3>4. CASE ThiefGoes(p, [[h EXCEPT !.a = active[h.d]] EXCEPT !.pc = "slot"])
      BY <1>g, <2>3, <3>1, <3>4 DEF ThiefType
    <3> QED BY <1>1, <3>2, <3>3, <3>4 DEF StealReadArray
  <2>5. CASE thief'[p].pc \notin {"slot", "cas"}
    BY <2>5 DEF ClaimSource
  <2>6. CASE thief'[p].pc = "slot" /\ thief'[p].d = h.d /\ thief'[p].t = h.t /\ thief'[p].a = r
    <3>1. Load(thief[p].a, thief[p].t)' = Load(r, h.t)'
      BY <2>6
    <3>2. ItemAt(thief[p].d, thief[p].t)' = Load(r, h.t)'
      BY <2>1, <2>3, <2>6 DEF ItemAt, indexVars
    <3>3. Capacity[r] <= Capacity[r]
      BY RecordFacts
    <3>4. active'[h.d] = r
      BY <2>1, <2>3 DEF indexVars
    <3> QED BY <2>3, <2>6, <3>1, <3>2, <3>3, <3>4 DEF ClaimSource
  <2> QED BY <2>4, <2>5, <2>6
<1>2. CASE StealReadSlot(p)
  <2>1. h.pc = "slot" /\ UNCHANGED <<poolVars, indexVars, owner>> /\ UNCHANGED <<buf, top>>
    BY <1>2 DEF StealReadSlot, ThiefAt, poolVars, indexVars
  <2>2. /\ thief'[p].pc = "cas" /\ thief'[p].d = h.d /\ thief'[p].t = h.t
        /\ thief'[p].x = Load(h.a, h.t)
    <3>1. h \in ThiefType
      BY <1>t DEF TypeOK
    <3> QED BY <1>g, <1>2, <3>1 DEF StealReadSlot, ThiefType
  <2>3. h.t = top[h.d] => Load(h.a, h.t) = ItemAt(h.d, h.t)
    BY <2>1 DEF ClaimSource
  <2>4. ItemAt(thief[p].d, thief[p].t)' = ItemAt(h.d, h.t)
    BY <2>1, <2>2 DEF ItemAt, Load, Index, indexVars
  <2> QED BY <2>1, <2>2, <2>3, <2>4 DEF ClaimSource
<1>3. CASE ~StealReadArray(p) /\ ~StealReadSlot(p)
  <2>1. h \in ThiefType
    BY <1>t DEF TypeOK
  <2>2. thief'[p].pc \notin {"slot", "cas"}
    <3>1. CASE \E d \in Deque : StealReadTop(p, d)
      BY <1>g, <3>1 DEF StealReadTop, IdleThief
    <3>2. CASE StealReadOld(p)
      BY <1>g, <2>1, <3>2 DEF StealReadOld, ThiefType
    <3>3. CASE StealReadBottom(p)
      BY <1>g, <2>1, <3>3 DEF StealReadBottom, ThiefType
    <3>4. CASE StealRecheck(p)
      BY <1>g, <3>4 DEF StealRecheck, StealReturns, IdleThief
    <3>5. CASE StealCas(p)
      BY <1>g, <3>5 DEF StealCas, StealReturns, IdleThief
    <3> QED BY <1>3, <3>1, <3>2, <3>3, <3>4, <3>5 DEF ThiefStep
  <2> QED BY <2>2 DEF ClaimSource
<1> QED BY <1>1, <1>2, <1>3

\* A thief's step keeps ItemInv.
LEMMA ThiefStepItems ==
  ASSUME StructureInv, ItemInv, NEW p \in Thief, ThiefStep(p)
  PROVE  ItemInv'
<1> DEFINE h == thief[p]
<1>t. TypeOK
  BY DEF StructureInv
<1>1. PICK holder \in Holders : HeldInv(holder)
  BY DEF ItemInv
<1>2. /\ ChainsHeld(holder) /\ \A d \in Deque : Contents(d, holder) /\ ReturnedOnce(d)
      /\ \A q \in Thief : ClaimSource(q, holder)
  BY <1>1 DEF HeldInv
<1>3. UNCHANGED <<poolVars, owner, active, bottom, cachedTop>> /\ UNCHANGED buf
  BY <1>t, ThiefStepFrame DEF poolVars
<1>4. ASSUME NEW d \in Deque
      PROVE  Contents(d, holder)' /\ ReturnedOnce(d)'
  <2>1. CASE UNCHANGED <<top, returned>>
    <3>1. UNCHANGED <<pushed, base>>
      BY ThiefEffect
    <3> QED BY <1>2, <1>3, <2>1, <3>1, UntouchedContents
  <2>2. CASE ~UNCHANGED <<top, returned>>
    <3>1. /\ h.pc = "cas" /\ h.t = top[h.d] /\ top' = [top EXCEPT ![h.d] = @ + 1]
          /\ Deliver(h.d, h.x) /\ h.d \in Deque /\ Live(h.d) /\ Claimable(h.d)
          /\ UNCHANGED <<pushed, base>>
      BY <2>2, ThiefEffect
    <3>2. CASE d = h.d
      <4>1. h.x = ItemAt(d, top[d])
        BY <1>2, <3>1, <3>2 DEF ClaimSource
      <4>2. top'[d] = top[d] + 1
        BY <1>t, <3>1, <3>2 DEF TypeOK
      <4>3. Deliver(d, h.x) /\ Live(d) /\ Claimable(d)
        BY <3>1, <3>2
      <4> QED BY <1>2, <1>3, <3>1, <4>1, <4>2, <4>3, TakenContents
    <3>3. CASE d # h.d
      <4>1. top'[d] = top[d] /\ returned'[d] = returned[d]
        BY <1>t, <3>1, <3>3 DEF TypeOK, Deliver
      <4> QED BY <1>2, <1>3, <3>1, <4>1, UntouchedContents
    <3> QED BY <3>2, <3>3
  <2> QED BY <2>1, <2>2
<1>5. \A q \in Thief : ClaimSource(q, holder)'
  BY <1>2, ThiefOwnClaims, ThiefOtherClaims
<1>6. ChainsHeld(holder)'
  BY <1>2, ThiefKeepsHolders
<1> QED BY <1>4, <1>5, <1>6 DEF ItemInv, HeldInv, Holders

\* An owner's step keeps ItemInv.
LEMMA OwnerStepItems ==
  ASSUME StructureInv, ItemInv, NEW d \in Deque, OwnerStep(d)
  PROVE  ItemInv'
<1>1. PICK holder \in Holders : HeldInv(holder)
  BY DEF ItemInv
<1>2. /\ ChainsHeld(holder) /\ \A e \in Deque : Contents(e, holder) /\ ReturnedOnce(e)
      /\ \A q \in Thief : ClaimSource(q, holder)
  BY <1>1 DEF HeldInv
<1>3. PICK after \in Holders : ChainsHeld(after)' /\ Handed(d, holder, after)
  BY <1>2, HeldNext
<1>4. ASSUME NEW e \in Deque
      PROVE  Contents(e, after)' /\ ReturnedOnce(e)'
  <2>1. CASE e = d
    BY <1>2, <1>3, <2>1, OwnContents
  <2>2. CASE e # d
    BY <1>2, <1>3, <2>2, OtherContents
  <2> QED BY <2>1, <2>2
<1>5. \A p \in Thief : ClaimSource(p, after)'
  BY <1>2, <1>3, OwnClaims, OtherClaims
<1> QED BY <1>3, <1>4, <1>5 DEF ItemInv, HeldInv, Holders

\* Before anything is constructed, no deque holds an array or an item.
LEMMA InitItems == Init => ItemInv
<1> SUFFICES ASSUME Init PROVE ItemInv
  OBVIOUS
<1>1. PICK holder \in Holders : holder = [r \in Record |-> NoDeque]
  BY DEF Holders
<1>2. OwnedRecords = {}
  BY DEF Init, PoolInit, OwnedRecords, Owned, Available
<1>3. \A d \in Deque : owner[d].pc = "none" /\ ~Live(d) /\ Root(d) = NoRecord
  BY RootCases DEF Init, Live, IdleOwner
<1>4. ChainsHeld(holder)
  BY <1>1, <1>2, <1>3, DequeAssumption DEF ChainsHeld
<1>5. \A d \in Deque : Contents(d, holder) /\ ReturnedOnce(d)
  <2>1. \A d \in Deque : Contents(d, holder)
    BY <1>3 DEF Contents
  <2>2. \A d \in Deque : pushed[d] = 0 /\ MaxItems[d] \in Nat /\ \A v \in Value : returned[d][v] = 0
    BY DequeAssumption DEF Init
  <2> QED BY <2>1, <2>2 DEF ReturnedOnce
<1>6. \A p \in Thief : ClaimSource(p, holder)
  BY DEF Init, IdleThief, ClaimSource
<1> QED BY <1>4, <1>5, <1>6 DEF ItemInv, HeldInv

\* A step that changes nothing keeps ItemInv.
LEMMA StutterItems ==
  ASSUME StructureInv, ItemInv, UNCHANGED vars
  PROVE  ItemInv'
<1>1. PICK holder \in Holders : HeldInv(holder)
  BY DEF ItemInv
<1>2. /\ ChainsHeld(holder) /\ \A d \in Deque : Contents(d, holder) /\ ReturnedOnce(d)
      /\ \A p \in Thief : ClaimSource(p, holder)
  BY <1>1 DEF HeldInv
<1>3. UNCHANGED <<poolVars, buf, state, top, bottom, active, owner, thief, pushed, base, returned>>
  BY DEF vars, poolVars, indexVars, history
<1>4. ChainsHeld(holder)'
  BY <1>2, <1>3 DEF ChainsHeld, OwnedRecords, Root
<1>5. \A d \in Deque : Contents(d, holder)' /\ ReturnedOnce(d)'
  BY <1>2, <1>3, UntouchedContents
<1>6. \A p \in Thief : ClaimSource(p, holder)'
  BY <1>2, <1>3 DEF ClaimSource, ItemAt, Load, Index
<1> QED BY <1>4, <1>5, <1>6 DEF ItemInv, HeldInv, Holders
=============================================================================
