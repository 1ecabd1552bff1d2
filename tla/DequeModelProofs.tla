-------------------------- MODULE DequeModelProofs --------------------------
(***************************************************************************)
(* Theorems about DequeModel, the program of model/deque_model.c, for any  *)
(* number of thieves and items, any pool and any pops of the owner: what   *)
(* main() asserts of the items, of the thieves and of the pool.  ModelInv  *)
(* is inductive once StructureInv and ItemInv are known; main()'s loops of *)
(* pops suffice because the length of the deque bounds the pops it takes   *)
(* to drain it.                                                            *)
(***************************************************************************)
EXTENDS DequeTheorems, DequeModel, FiniteSetTheorems

Length(d) == LogicalBottom(d) - top[d]

ScenarioType ==
  /\ phase \in {"fill", "race", "drain", "return"} /\ pops \in Nat /\ borrows \in BOOLEAN
  /\ batches \in [Thief -> Nat] /\ raw \in [Thief -> Nat]

AllSeen ==
  \A v \in Value : returned[Original][v] = IF v \in {<<Original, k>> : k \in 1..MaxItems[Original]}
                                           THEN 1 ELSE 0

\* The original is filled first, then only popped from and stolen from; while
\* main() drains it, the pops it has left are as many as there are items.
OriginalPhase ==
  LET o == owner[Original] IN
  /\ base[Original] = 0
  /\ phase = "fill" =>
       /\ o.pc \in {"none", "construct", "idle"} \cup PushPC
       /\ o.pc \in {"none", "construct"} => pushed[Original] = 0
  /\ phase \in {"race", "drain"} => o.pc \in {"idle"} \cup PopPC
  /\ phase # "fill" => pushed[Original] = MaxItems[Original]
  /\ phase = "drain" => pops <= MainPops /\ Length(Original) <= MainPops - pops
  /\ phase = "return" => AllSeen

\* The borrower is constructed at most once and pushes its item before main()
\* goes on; the one pop it gets is enough.
BorrowerPhase ==
  LET o == owner[Borrower] IN
  /\ base[Borrower] = 0
  /\ ~borrows => o.pc = "none" /\ pushed[Borrower] = 0
  /\ phase = "fill" => ~borrows
  /\ phase = "race" =>
       /\ o.pc \in {"none", "construct", "idle"} \cup PushPC
       /\ o.pc \in {"none", "construct"} => pushed[Borrower] = 0
  /\ phase = "drain" => o.pc \in {"none", "idle"}
  /\ phase = "return" =>
       /\ o.pc \in {"none", "idle", "destroy"} \cup PopPC
       /\ Live(Borrower) => pops <= 1 /\ Length(Borrower) <= 1 - pops
  /\ phase \in {"drain", "return"} /\ Live(Borrower) => pushed[Borrower] = 1

\* The window after n aborts in a row with the program's configuration.
WindowAfterAborts(n) ==
  CASE n = 0 -> 0
    [] n = 1 -> RetryConfig.initial_window
    [] n = 2 -> 2 * RetryConfig.initial_window
    [] OTHER -> RetryConfig.max_window

WorkerType ==
  [window: Nat, victim: Deque \cup {NoDeque}, pc: {"idle", "steal"}, attempt: 0..2,
   result: {"none", "SUCCESS", "EMPTY", "ABORT"}, aborts: Nat]

\* How far the thief p has come in its batches, all of whose attempts but the
\* last have aborted.
RetryPhase(p) ==
  LET w == worker[p] IN
  /\ batches[p] <= 2
  /\ w.pc = "idle" => thief[p].pc = "idle"
  /\ w.pc = "steal" =>
       /\ w.attempt < 2 /\ batches[p] > 0 /\ w.victim = Original
       /\ raw[p] = 2 * (batches[p] - 1) + w.attempt
       /\ w.window = WindowAfterAborts(raw[p])
  /\ w.pc = "idle" /\ batches[p] = 0 => raw[p] = 0 /\ w.window = 0
  /\ w.pc = "idle" /\ batches[p] > 0 /\ w.result = "ABORT" =>
       /\ raw[p] = 2 * batches[p] /\ w.victim = Original
       /\ w.window = WindowAfterAborts(raw[p])
  /\ w.pc = "idle" /\ batches[p] > 0 /\ w.result # "ABORT" =>
       w.window = 0 /\ raw[p] \in 2 * batches[p] - 1 .. 2 * batches[p]

WorkersPhase == worker \in [Thief -> WorkerType] /\ \A p \in Thief : RetryPhase(p)

ModelInv == ScenarioType /\ OriginalPhase /\ BorrowerPhase /\ WorkersPhase

-----------------------------------------------------------------------------
(* The steps of the two deques.                                            *)

\* Both deques, and what the invariants say of either.
LEMMA TwoDeques ==
  /\ Deque = {Original, Borrower} /\ Original \in Deque /\ Borrower \in Deque
  /\ Original # Borrower
  /\ MaxItems[Original] \in Nat /\ MaxItems[Borrower] = 1
  /\ MainPops \in Nat /\ MainPops >= MaxItems[Original]
BY ScenarioAssumption, BoundsAssumption, DequeAssumption

\* The types of the indices and histories of a deque.
LEMMA LengthType ==
  ASSUME StructureInv, NEW d \in Deque
  PROVE  /\ TypeOK /\ Length(d) \in Int /\ pushed[d] \in Nat /\ base[d] \in Nat
<1>1. TypeOK
  BY DEF StructureInv
<1>2. owner[d].b \in Int
  BY <1>1 DEF TypeOK, OwnerType
<1>3. top[d] \in Int /\ bottom[d] \in Int
  BY <1>1 DEF TypeOK
<1> QED BY <1>1, <1>2, <1>3 DEF Length, LogicalBottom, TypeOK

\* A step of one deque's owner is none of the other deque.
LEMMA OtherDeque ==
  ASSUME StructureInv, NEW d \in Deque, OwnerStep(d), NEW e \in Deque \ {d}
  PROVE  /\ owner'[e] = owner[e] /\ Length(e)' = Length(e)
         /\ pushed'[e] = pushed[e] /\ base'[e] = base[e] /\ returned'[e] = returned[e]
<1>1. TypeOK
  BY DEF StructureInv
<1>2. owner'[e] = owner[e] /\ top'[e] = top[e] /\ bottom'[e] = bottom[e]
  BY <1>1, OwnerStepFrame
<1>3. Length(e)' = Length(e)
  BY <1>2 DEF Length, LogicalBottom, Shifted
<1> QED BY <1>1, <1>2, <1>3, OwnerStepHistory

\* A step of the constructor, before it has claimed its first array or with it.
LEMMA ConstructionStep ==
  ASSUME StructureInv, NEW d \in Deque, pushed[d] = 0, base[d] = 0,
         Construct(d) \/ ConstructClaim(d) \/ ConstructScan(d) \/ ConstructFails(d)
  PROVE  /\ owner[d].pc \in {"none", "construct"}
         /\ owner'[d].pc \in {"none", "construct", "idle"}
         /\ pushed'[d] = 0 /\ base'[d] = 0 /\ UNCHANGED thief
<1>1. TypeOK
  BY DEF StructureInv
<1>2. /\ owner[d].pc \in {"none", "construct"}
      /\ owner'[d].pc \in {"none", "construct", "idle"}
  BY <1>1, ConstructEffect, ConstructClaimEffect, ConstructScanEffect, ConstructFailsEffect
<1>3. base' = base \/ base' = [base EXCEPT ![d] = pushed[d]]
  BY DEF Construct, ConstructClaim, ConstructScan, ConstructFails, history
<1>4. base'[d] = 0
  BY <1>1, <1>3 DEF TypeOK
<1>5. UNCHANGED <<thief, pushed>>
  BY DEF Construct, ConstructClaim, ConstructScan, ConstructFails, history
<1> QED BY <1>2, <1>4, <1>5

\* A step of a push.
LEMMA PushingStep ==
  ASSUME StructureInv, NEW d \in Deque, PushBottomStep(d)
  PROVE  /\ owner[d].pc \in {"idle"} \cup PushPC /\ owner'[d].pc \in {"idle"} \cup PushPC
         /\ UNCHANGED <<base, thief>>
<1>1. TypeOK /\ PushStep(d)
  BY DEF StructureInv, PushBottomStep
<1>2. owner[d].pc \in {"idle"} \cup PushPC /\ owner'[d].pc \in {"idle"} \cup PushPC
  BY <1>1, TryPushEffect, PushReadTopEffect, GrowClaimEffect, GrowScanEffect, PushFailsEffect,
     GrowCopyEffect, GrowPublishEffect, PushSlotEffect, PushBottomEffect DEF PushStep, PushPC
<1>3. UNCHANGED <<base, thief>>
  BY <1>1 DEF PushStep, TryPush, PushReadTop, GrowClaim, GrowScan, PushFails, GrowCopy, GrowPublish,
         PushSlot, PushBottom, history
<1> QED BY <1>2, <1>3

\* A step of a pop.
LEMMA PoppingStep ==
  ASSUME StructureInv, NEW d \in Deque, PopBottomStep(d)
  PROVE  /\ OwnerStep(d)
         /\ owner[d].pc \in {"idle"} \cup PopPC /\ owner'[d].pc \in {"idle"} \cup PopPC
         /\ owner[d].pc = "idle" <=> Pop(d)
         /\ UNCHANGED <<pushed, base, thief, worker>>
BY PopCallStep DEF StructureInv, PopBottomStep

\* A pop shortens the deque as it starts, whether it will find an item or not;
\* after an empty pop or a race for the last item nothing waits.
LEMMA PopShortens ==
  ASSUME StructureInv, StructureInv', NEW d \in Deque, PopBottomStep(d), NEW k \in Nat,
         Length(d) <= IF owner[d].pc = "idle" THEN k + 1 ELSE k
  PROVE  Length(d)' <= k
<1>1. /\ OwnerStep(d) /\ Live(d) /\ ~PushBottom(d)
      /\ owner[d].pc = "idle" <=> Pop(d)
  BY PoppingStep DEF Live, PushBottom, OwnerAt, PopPC, ShrinkPC, CopyPC
<1>2. /\ top[d] \in Int /\ bottom[d] \in Int /\ LogicalBottom(d) \in Int
      /\ Capacity[active[d]] \in Nat \ {0}
  BY <1>1, LiveFacts
<1>3. LogicalBottom(d)' \in Int /\ top'[d] \in Int
  BY LengthType DEF StructureInv, TypeOK, OwnerType, LogicalBottom
<1>4. SameTop(d) => top'[d] = top[d]
  BY DEF SameTop
<1>5. Pop(d) => LogicalBottom(d) = bottom[d]
  BY <1>1 DEF LogicalBottom, Shifted
<1>6. ShrinkCas(d) => ~Pop(d)
  BY DEF ShrinkCas, Pop, OwnerAt
<1>7. \/ Pop(d) /\ top'[d] = top[d] /\ LogicalBottom(d)' = LogicalBottom(d) - 1
      \/ /\ ~Pop(d)
         /\ \E c \in {0, Capacity[active[d]]} :
              top'[d] = top[d] + c /\ LogicalBottom(d)' = LogicalBottom(d) + c
      \/ LogicalBottom(d)' <= top'[d]
  BY <1>1, <1>2, <1>4, <1>5, <1>6, OwnWindow
<1> QED BY <1>1, <1>2, <1>3, <1>7 DEF Length

\* No more items wait than were pushed since the construction: their numbers
\* are different.
LEMMA LengthBound ==
  ASSUME StructureInv, ItemInv, NEW d \in Deque, Live(d)
  PROVE  Length(d) <= pushed[d] - base[d]
<1> DEFINE number == [i \in Window(d) |-> ItemAt(d, i)[2]]
           numbers == base[d] + 1 .. pushed[d]
<1>1. ItemsKept(d) /\ base[d] <= pushed[d]
  BY DEF ItemInv, HeldInv, Contents, OwnersItem
<1>2. /\ top[d] \in Int /\ LogicalBottom(d) \in Int /\ Window(d) \subseteq Int
      /\ base[d] \in Nat /\ pushed[d] \in Nat
  BY LiveFacts, LengthType
<1>3. ASSUME NEW i \in Window(d)  PROVE ItemAt(d, i)[2] \in numbers
  <2>1. ItemAt(d, i) \in Present(d)
    BY <1>1 DEF ItemsKept, Pending
  <2> QED BY <2>1 DEF Present
<1>4. ASSUME NEW i \in Window(d), NEW j \in Window(d), ItemAt(d, i)[2] = ItemAt(d, j)[2]
      PROVE  i = j
  <2>1. i < j => ItemAt(d, i)[2] < ItemAt(d, j)[2]
    BY <1>1 DEF ItemsKept
  <2>2. j < i => ItemAt(d, j)[2] < ItemAt(d, i)[2]
    BY <1>1 DEF ItemsKept
  <2>3. ItemAt(d, i)[2] \in Int /\ i \in Int /\ j \in Int
    BY <1>2, <1>3
  <2> QED BY <1>4, <2>1, <2>2, <2>3
<1>5. number \in Injection(Window(d), numbers)
  BY <1>3, <1>4 DEF Injection, IsInjective
<1>6. /\ IsFiniteSet(numbers)
      /\ Cardinality(numbers) = IF base[d] + 1 > pushed[d] THEN 0 ELSE pushed[d] - (base[d] + 1) + 1
  <2>1. base[d] + 1 \in Int /\ pushed[d] \in Int
    BY <1>2
  <2> QED BY <2>1, FS_Interval, Zenon
<1>7. Cardinality(Window(d)) <= Cardinality(numbers)
  <2> HIDE DEF number, numbers
  <2> QED BY <1>5, <1>6, FS_Injection
<1>8. Cardinality(Window(d)) = IF top[d] > LogicalBottom(d) - 1 THEN 0 ELSE LogicalBottom(d) - 1 - top[d] + 1
  <2>1. LogicalBottom(d) - 1 \in Int
    BY <1>2
  <2> QED BY <1>2, <2>1, FS_Interval, Zenon DEF Window
<1> QED BY <1>1, <1>2, <1>6, <1>7, <1>8 DEF Length

\* If nothing waits and the owner rests, all items were returned.
LEMMA AllItemsReturned ==
  ASSUME StructureInv, ItemInv, NEW d \in Deque, owner[d].pc = "idle", Length(d) <= 0,
         base[d] = 0, NEW v \in Value
  PROVE  returned[d][v] = IF v \in {<<d, k>> : k \in 1..pushed[d]} THEN 1 ELSE 0
<1>1. Live(d)
  BY DEF Live
<1>2. ItemsKept(d) /\ ReturnedOnce(d)
  BY <1>1 DEF ItemInv, HeldInv, Contents
<1>3. top[d] \in Int /\ LogicalBottom(d) \in Int
  BY <1>1, LiveFacts
<1>4. Window(d) = {}
  BY <1>3 DEF Window, Length
<1>5. Pending(d) = {} /\ Held(d) = {}
  BY <1>4 DEF Pending, Held
<1>6. Present(d) = {<<d, k>> : k \in 1..pushed[d]}
  BY DEF Present
<1>7. CASE v \in Present(d)
  BY <1>2, <1>5, <1>6, <1>7 DEF ItemsKept
<1>8. CASE v \notin Present(d)
  <2>1. returned[d][v] <= 0 /\ returned[d][v] \in Nat
    BY <1>2, <1>6, <1>8 DEF ReturnedOnce, StructureInv, TypeOK
  <2> QED BY <1>6, <1>8, <2>1
<1> QED BY <1>7, <1>8

-----------------------------------------------------------------------------
(* The steps of the program.                                               *)

\* In the beginning no deque is constructed and no thief has called.
LEMMA InitModel == ModelInit => ModelInv
<1> SUFFICES ASSUME ModelInit  PROVE ModelInv
  OBVIOUS
<1>1. \A d \in Deque : owner[d].pc = "none" /\ base[d] = 0 /\ pushed[d] = 0
  BY DEF ModelInit, RetryInit, Init, IdleOwner
<1>2. /\ phase = "fill" /\ pops = 0 /\ borrows = FALSE /\ worker = [p \in Thief |-> Fresh]
      /\ batches = [p \in Thief |-> 0] /\ raw = [p \in Thief |-> 0]
  BY DEF ModelInit, RetryInit
<1>3. ScenarioType
  BY <1>2 DEF ScenarioType
<1>4. OriginalPhase /\ BorrowerPhase
  BY <1>1, <1>2, TwoDeques DEF OriginalPhase, BorrowerPhase
<1>5. Fresh \in WorkerType /\ Fresh.pc = "idle" /\ Fresh.window = 0
  BY DEF Fresh, WorkerType
<1>6. ASSUME NEW p \in Thief  PROVE RetryPhase(p)
  <2>1. thief[p].pc = "idle"
    BY DEF ModelInit, RetryInit, Init, IdleThief
  <2> QED BY <1>2, <1>5, <2>1 DEF RetryPhase
<1> QED BY <1>2, <1>3, <1>4, <1>5, <1>6 DEF ModelInv, WorkersPhase

\* Steps of main() and of owners are none of a worker.
LEMMA WorkersFrame ==
  ASSUME ModelInv, UNCHANGED <<worker, thief, batches, raw>>
  PROVE  WorkersPhase'
BY DEF ModelInv, WorkersPhase, RetryPhase, WindowAfterAborts

\* main() fills the original before anybody else starts.
LEMMA FillKept ==
  ASSUME StructureInv, ModelInv, Fill
  PROVE  ModelInv'
<1>1. /\ phase = "fill" /\ base[Original] = 0 /\ UNCHANGED <<worker, phase, pops, batches, raw, borrows>>
      /\ owner[Original].pc \in {"none", "construct", "idle"} \cup PushPC
      /\ owner[Original].pc \in {"none", "construct"} => pushed[Original] = 0
  BY DEF Fill, scenario, ModelInv, OriginalPhase
<1>2. /\ OwnerStep(Original) /\ UNCHANGED thief /\ base'[Original] = 0
      /\ owner'[Original].pc \in {"none", "construct", "idle"} \cup PushPC
      /\ owner'[Original].pc \in {"none", "construct"} => pushed'[Original] = 0
  <2>1. CASE LifeStep(Original) /\ owner[Original].pc # "idle"
    <3>1. \/ Construct(Original) \/ ConstructClaim(Original)
          \/ ConstructScan(Original) \/ ConstructFails(Original)
      BY <1>1, <2>1 DEF LifeStep, Destroy, DestroyRelease, OwnerAt, PushPC
    <3>2. pushed[Original] = 0
      BY <1>1, <3>1 DEF Construct, ConstructClaim, ConstructScan, ConstructFails, OwnerAt
    <3> QED BY <1>1, <2>1, <3>1, <3>2, ConstructionStep, TwoDeques DEF OwnerStep
  <2>2. CASE PushBottomStep(Original)
    BY <1>1, <2>2, PushingStep, TwoDeques DEF PushBottomStep, OwnerStep, PushPC
  <2> QED BY <2>1, <2>2 DEF Fill
<1>3. OriginalPhase'
  BY <1>1, <1>2 DEF OriginalPhase
<1>4. BorrowerPhase'
  <2>1. owner'[Borrower] = owner[Borrower] /\ base'[Borrower] = base[Borrower] /\ pushed'[Borrower] = pushed[Borrower]
    BY <1>2, OtherDeque, TwoDeques
  <2> QED BY <1>1, <2>1 DEF ModelInv, BorrowerPhase, Live
<1> QED BY <1>1, <1>2, <1>3, <1>4, WorkersFrame DEF ModelInv, ScenarioType

\* The steps of main() between its loops touch no deque.
LEMMA MainFrame ==
  ASSUME UNCHANGED vars
  PROVE  /\ UNCHANGED <<owner, thief, pushed, base, returned>>
         /\ \A d \in Deque : Length(d)' = Length(d) /\ (Live(d)' <=> Live(d))
BY DEF vars, indexVars, history, Length, LogicalBottom, Shifted, Live

\* The threads start when all items are pushed.
LEMMA StartKept ==
  ASSUME ModelInv, Start
  PROVE  ModelInv'
<1>1. /\ phase = "fill" /\ phase' = "race" /\ owner[Original].pc = "idle"
      /\ pushed[Original] = MaxItems[Original] /\ UNCHANGED <<worker, pops, batches, raw, borrows>>
      /\ UNCHANGED <<owner, thief, pushed, base, returned>>
  BY MainFrame DEF Start
<1>2. OriginalPhase' /\ BorrowerPhase'
  BY <1>1 DEF ModelInv, OriginalPhase, BorrowerPhase
<1> QED BY <1>1, <1>2, WorkersFrame DEF ModelInv, ScenarioType

\* main() goes on when all threads have ended.  It is left with as many pops as
\* it has made pushes, and the borrower with as many as its own.
LEMMA JoinKept ==
  ASSUME StructureInv, ItemInv, ModelInv, Join
  PROVE  ModelInv'
<1>1. /\ phase = "race" /\ phase' = "drain" /\ pops' = 0 /\ owner[Original].pc = "idle"
      /\ BorrowerDone /\ UNCHANGED <<worker, batches, raw, borrows>>
      /\ UNCHANGED <<owner, thief, pushed, base, returned>> /\ Length(Original)' = Length(Original)
  BY MainFrame, TwoDeques DEF Join
<1>2. Length(Original) <= MainPops
  <2>1. Length(Original) <= pushed[Original] - base[Original]
    BY <1>1, LengthBound, TwoDeques DEF Live
  <2>2. base[Original] = 0 /\ pushed[Original] = MaxItems[Original]
    BY <1>1 DEF ModelInv, OriginalPhase
  <2> QED BY <2>1, <2>2, LengthType, TwoDeques
<1>3. OriginalPhase'
  BY <1>1, <1>2, TwoDeques DEF ModelInv, OriginalPhase
<1>4. BorrowerPhase'
  BY <1>1, TwoDeques DEF ModelInv, BorrowerPhase, BorrowerDone, Live
<1> QED BY <1>1, <1>3, <1>4, WorkersFrame DEF ModelInv, ScenarioType

\* The drain has emptied the original: everything was seen.
LEMMA DrainedKept ==
  ASSUME StructureInv, ItemInv, ModelInv, Drained
  PROVE  ModelInv'
<1>1. /\ phase = "drain" /\ phase' = "return" /\ pops = MainPops /\ pops' = 0
      /\ owner[Original].pc = "idle" /\ UNCHANGED <<worker, batches, raw, borrows>>
      /\ UNCHANGED <<owner, thief, pushed, base, returned>>
      /\ Length(Borrower)' = Length(Borrower) /\ (Live(Borrower)' <=> Live(Borrower))
  BY MainFrame, TwoDeques DEF Drained
<1>2. AllSeen
  <2>1. /\ Length(Original) <= MainPops - MainPops /\ base[Original] = 0
        /\ pushed[Original] = MaxItems[Original]
    BY <1>1 DEF ModelInv, OriginalPhase
  <2>2. Length(Original) <= 0
    BY <2>1, LengthType, TwoDeques
  <2> QED BY <1>1, <2>1, <2>2, AllItemsReturned, TwoDeques DEF AllSeen
<1>3. OriginalPhase'
  BY <1>1, <1>2 DEF ModelInv, OriginalPhase, AllSeen
<1>4. Live(Borrower) => pushed[Borrower] = 1 /\ Length(Borrower) <= 1
  <2>1. base[Borrower] = 0 /\ (Live(Borrower) => pushed[Borrower] = 1)
    BY <1>1 DEF ModelInv, BorrowerPhase
  <2> QED BY <2>1, LengthBound, TwoDeques
<1>5. BorrowerPhase'
  BY <1>1, <1>4 DEF ModelInv, BorrowerPhase
<1> QED BY <1>1, <1>3, <1>5, WorkersFrame DEF ModelInv, ScenarioType

\* What the owner of the original does is none of the borrower,
LEMMA BorrowerFrame ==
  ASSUME StructureInv, ModelInv, OwnerStep(Original), UNCHANGED <<phase, borrows>>,
         phase = "return" => pops' = pops
  PROVE  BorrowerPhase'
<1>1. /\ owner'[Borrower] = owner[Borrower] /\ Length(Borrower)' = Length(Borrower)
      /\ base'[Borrower] = base[Borrower] /\ pushed'[Borrower] = pushed[Borrower]
  BY OtherDeque, TwoDeques
<1> QED BY <1>1 DEF ModelInv, BorrowerPhase, Live

\* and the other way round.
LEMMA OriginalFrame ==
  ASSUME StructureInv, ModelInv, OwnerStep(Borrower), phase' = phase, phase \in {"race", "return"}
  PROVE  OriginalPhase'
<1>1. /\ owner'[Original] = owner[Original] /\ base'[Original] = base[Original]
      /\ pushed'[Original] = pushed[Original] /\ returned'[Original] = returned[Original]
  BY OtherDeque, TwoDeques
<1> QED BY <1>1 DEF ModelInv, OriginalPhase, AllSeen

\* A loop of pops of the original, in the race and in the drain.
LEMMA PopsOfOriginal ==
  ASSUME StructureInv, StructureInv', ModelInv, NEW n \in Nat, PopsOf(Original, n),
         phase \in {"race", "drain"}, phase = "drain" => n = MainPops
  PROVE  ModelInv'
<1>1. /\ PopBottomStep(Original) /\ UNCHANGED <<phase, batches, raw, borrows>>
      /\ owner[Original].pc = "idle" => pops < n
      /\ pops' = IF owner[Original].pc = "idle" THEN pops + 1 ELSE pops
      /\ pops \in Nat
  BY DEF PopsOf, ModelInv, ScenarioType
<1>2. /\ OwnerStep(Original) /\ owner'[Original].pc \in {"idle"} \cup PopPC
      /\ UNCHANGED <<pushed, base, thief, worker>>
  BY <1>1, PoppingStep, TwoDeques
<1>3. ASSUME phase = "drain"
      PROVE  pops' <= MainPops /\ Length(Original)' <= MainPops - pops'
  <2>1. pops <= MainPops /\ Length(Original) <= MainPops - pops
    BY <1>3 DEF ModelInv, OriginalPhase
  <2>2. pops' <= MainPops /\ MainPops - pops' \in Nat
    BY <1>1, <1>3, <2>1, TwoDeques
  <2>3. Length(Original) <= IF owner[Original].pc = "idle" THEN (MainPops - pops') + 1 ELSE MainPops - pops'
    BY <1>1, <2>1, <2>2, TwoDeques, LengthType
  <2> DEFINE k == MainPops - pops'
  <2>4. k \in Nat /\ Length(Original) <= IF owner[Original].pc = "idle" THEN k + 1 ELSE k
    BY <2>2, <2>3
  <2>5. Length(Original)' <= k
    <3> HIDE DEF k
    <3> QED BY <1>1, <2>4, PopShortens, TwoDeques
  <2> QED BY <2>2, <2>5
<1>4. OriginalPhase'
  BY <1>1, <1>2, <1>3 DEF ModelInv, OriginalPhase
<1>5. BorrowerPhase'
  BY <1>1, <1>2, BorrowerFrame
<1>6. ScenarioType'
  BY <1>1 DEF ModelInv, ScenarioType
<1> QED BY <1>1, <1>2, <1>4, <1>5, <1>6, WorkersFrame DEF ModelInv

\* The borrower's claim and its push, while the original is raced for.
LEMMA BorrowerMainKept ==
  ASSUME StructureInv, ModelInv, BorrowerMain
  PROVE  ModelInv'
<1>1. /\ phase = "race" /\ borrows' = TRUE /\ UNCHANGED <<worker, phase, pops, batches, raw>>
      /\ base[Borrower] = 0
      /\ owner[Borrower].pc \in {"none", "construct"} => pushed[Borrower] = 0
  BY DEF BorrowerMain, ModelInv, BorrowerPhase
<1>2. /\ OwnerStep(Borrower) /\ UNCHANGED thief /\ base'[Borrower] = 0
      /\ owner'[Borrower].pc \in {"none", "construct", "idle"} \cup PushPC
      /\ owner'[Borrower].pc \in {"none", "construct"} => pushed'[Borrower] = 0
  <2>1. CASE \/ Construct(Borrower) \/ ConstructClaim(Borrower)
             \/ ConstructScan(Borrower) \/ ConstructFails(Borrower)
    <3>1. pushed[Borrower] = 0
      BY <1>1, <2>1 DEF Construct, ConstructClaim, ConstructScan, ConstructFails, OwnerAt
    <3> QED BY <1>1, <2>1, <3>1, ConstructionStep, TwoDeques DEF OwnerStep, LifeStep
  <2>2. CASE PushBottomStep(Borrower)
    BY <1>1, <2>2, PushingStep, TwoDeques DEF PushBottomStep, OwnerStep, PushPC
  <2> QED BY <2>1, <2>2 DEF BorrowerMain
<1>3. BorrowerPhase'
  BY <1>1, <1>2 DEF BorrowerPhase
<1>4. OriginalPhase'
  BY <1>1, <1>2, OriginalFrame
<1> QED BY <1>1, <1>2, <1>3, <1>4, WorkersFrame DEF ModelInv, ScenarioType

\* main() pops the borrower's item and destroys both deques.
LEMMA ReturnAllKept ==
  ASSUME StructureInv, StructureInv', ModelInv, ReturnAll
  PROVE  ModelInv'
<1>1. /\ phase = "return" /\ base[Borrower] = 0
      /\ owner[Borrower].pc \in {"none", "idle", "destroy"} \cup PopPC
      /\ Live(Borrower) => pops <= 1 /\ Length(Borrower) <= 1 - pops /\ pushed[Borrower] = 1
      /\ pops \in Nat
  BY DEF ReturnAll, ModelInv, BorrowerPhase, ScenarioType
<1>2. CASE PopsOf(Borrower, 1)
  <2>1. /\ PopBottomStep(Borrower) /\ UNCHANGED <<phase, batches, raw, borrows>>
        /\ owner[Borrower].pc = "idle" => pops < 1
        /\ pops' = IF owner[Borrower].pc = "idle" THEN pops + 1 ELSE pops
    BY <1>2 DEF PopsOf
  <2>2. /\ OwnerStep(Borrower) /\ owner'[Borrower].pc \in {"idle"} \cup PopPC
        /\ UNCHANGED <<pushed, base, thief, worker>>
        /\ owner[Borrower].pc \in {"idle"} \cup PopPC
    BY <2>1, PoppingStep, TwoDeques
  <2>3. Live(Borrower) /\ borrows
    BY <1>1, <2>2 DEF Live, PopPC, ShrinkPC, CopyPC, ModelInv, BorrowerPhase
  <2>4. pops' <= 1 /\ 1 - pops' \in Nat
    BY <1>1, <2>1, <2>3
  <2> DEFINE k == 1 - pops'
  <2>5. k \in Nat /\ Length(Borrower) <= IF owner[Borrower].pc = "idle" THEN k + 1 ELSE k
    BY <1>1, <2>1, <2>3, <2>4, LengthType, TwoDeques
  <2>6. Length(Borrower)' <= k
    <3> HIDE DEF k
    <3> QED BY <2>1, <2>5, PopShortens, TwoDeques
  <2>7. BorrowerPhase'
    BY <1>1, <2>1, <2>2, <2>3, <2>4, <2>6 DEF BorrowerPhase
  <2>8. OriginalPhase'
    BY <1>1, <2>1, <2>2, OriginalFrame
  <2>9. ScenarioType'
    BY <1>1, <2>1 DEF ModelInv, ScenarioType
  <2> QED BY <2>1, <2>2, <2>7, <2>8, <2>9, WorkersFrame DEF ModelInv
<1>3. ASSUME NEW d \in Deque, Destroy(d) \/ DestroyRelease(d), UNCHANGED <<worker, scenario>>
      PROVE  ModelInv'
  <2>1. UNCHANGED <<worker, phase, pops, batches, raw, borrows, thief, pushed, base>> /\ OwnerStep(d)
    BY <1>3 DEF scenario, Destroy, DestroyRelease, history, OwnerStep, LifeStep
  <2>2. CASE d = Original
    <3>1. BorrowerPhase'
      BY <2>1, <2>2, BorrowerFrame
    <3>2. returned' = returned
      BY <1>3 DEF Destroy, DestroyRelease, history
    <3>3. OriginalPhase'
      BY <1>1, <2>1, <3>2 DEF ModelInv, OriginalPhase, AllSeen
    <3> QED BY <2>1, <3>1, <3>3, WorkersFrame DEF ModelInv, ScenarioType
  <2>3. CASE d = Borrower
    <3>1. OriginalPhase'
      BY <1>1, <2>1, <2>3, OriginalFrame
    <3>2. owner[Borrower].pc \in {"idle", "destroy"} /\ owner'[Borrower].pc \in {"none", "destroy"}
      BY <1>3, <2>3, DestroyEffect, DestroyReleaseEffect DEF StructureInv
    <3>3. borrows
      BY <3>2 DEF ModelInv, BorrowerPhase
    <3>4. BorrowerPhase'
      BY <1>1, <2>1, <3>2, <3>3 DEF BorrowerPhase, Live
    <3> QED BY <2>1, <3>1, <3>4, WorkersFrame DEF ModelInv, ScenarioType
  <2> QED BY <2>2, <2>3, TwoDeques
<1> QED BY <1>2, <1>3 DEF ReturnAll

-----------------------------------------------------------------------------
(* The steps of the thieves.                                               *)

\* The program's configuration.
LEMMA ConfigFacts ==
  /\ RetryConfig.max_attempts = 2
  /\ RetryConfig.initial_window \in Nat /\ RetryConfig.max_window = 4 * RetryConfig.initial_window
  /\ AbortBound \in Nat
BY RetryAssumption, BoundsAssumption

\* The window doubles up to the maximal one.
LEMMA DoubledWindow ==
  ASSUME NEW p \in Thief, NEW n \in Nat
  PROVE  /\ WindowAfterAborts(n) \in Nat
         /\ Backoff(p)!Doubled(WindowAfterAborts(n)) = WindowAfterAborts(n + 1)
         /\ \A w \in Nat : Backoff(p)!Doubled(w) \in Nat
         /\ \A a \in Nat : Backoff(p)!OneMore(a) \in Nat
BY ConfigFacts DEF WindowAfterAborts, Backoff!Doubled, Backoff!Smaller, Backoff!OneMore

\* What an attempt makes of its worker.
LEMMA AfterAttempt ==
  ASSUME NEW p \in Thief, worker[p] \in WorkerType, worker[p].attempt < 2,
         worker[p].pc = "steal",
         NEW r \in {"SUCCESS", "EMPTY", "ABORT"}
  PROVE  LET w == worker[p]  n == After(p, r)  IN
         /\ n \in WorkerType /\ n.victim = w.victim /\ n.attempt = w.attempt + 1
         /\ r # "ABORT" => n.pc = "idle" /\ n.result = r /\ n.window = 0 /\ n.aborts = 0
         /\ r = "ABORT" =>
              /\ n.window = Backoff(p)!Doubled(w.window) /\ n.aborts = Backoff(p)!OneMore(w.aborts)
              /\ IF n.attempt = 2 THEN n.pc = "idle" /\ n.result = "ABORT"
                                  ELSE n.pc = "steal" /\ n.result = w.result
<1> DEFINE w == worker[p]
           v == [w EXCEPT !.attempt = @ + 1]
<1>1. /\ w.window \in Nat /\ w.victim \in Deque \cup {NoDeque} /\ w.attempt \in 0..1
      /\ w.result \in {"none", "SUCCESS", "EMPTY", "ABORT"} /\ w.aborts \in Nat
  BY DEF WorkerType
<1>2. v = [window |-> w.window, victim |-> w.victim, pc |-> "steal", attempt |-> w.attempt + 1,
           result |-> w.result, aborts |-> w.aborts]
  BY DEF WorkerType
<1>3. CASE r # "ABORT"
  <2>1. After(p, r) = [v EXCEPT !.pc = "idle", !.result = r, !.window = 0, !.aborts = 0]
    BY <1>3 DEF After
  <2> HIDE DEF v
  <2>2. After(p, r) = [window |-> 0, victim |-> w.victim, pc |-> "idle", attempt |-> w.attempt + 1,
                       result |-> r, aborts |-> 0]
    <3> DEFINE a == w.attempt + 1
    <3>1. v = [window |-> w.window, victim |-> w.victim, pc |-> "steal", attempt |-> a,
               result |-> w.result, aborts |-> w.aborts]
      BY <1>2
    <3> HIDE DEF w, a
    <3>2. After(p, r) = [window |-> 0, victim |-> w.victim, pc |-> "idle", attempt |-> a,
                         result |-> r, aborts |-> 0]
      BY <2>1, <3>1
    <3> QED BY <3>2 DEF a
  <2> QED BY <1>1, <1>3, <2>2 DEF WorkerType
<1>4. CASE r = "ABORT"
  <2> DEFINE last == v.attempt = 2
             next == Backoff(p)!Doubled(w.window)
             more == Backoff(p)!OneMore(w.aborts)
             z == [window |-> next, victim |-> w.victim, pc |-> IF last THEN "idle" ELSE "steal",
                   attempt |-> w.attempt + 1, result |-> IF last THEN "ABORT" ELSE w.result,
                   aborts |-> more]
  <2>1. After(p, r) = [v EXCEPT !.pc = IF last THEN "idle" ELSE v.pc,
                                !.result = IF last THEN "ABORT" ELSE v.result,
                                !.window = Backoff(p)!Doubled(v.window),
                                !.aborts = Backoff(p)!OneMore(v.aborts)]
    BY <1>4, ConfigFacts DEF After
  <2>2. next \in Nat /\ more \in Nat
    BY <1>1, DoubledWindow
  <2>3. /\ v.pc = "steal" /\ v.result = w.result /\ v.window = w.window /\ v.aborts = w.aborts
        /\ v.attempt = w.attempt + 1
    BY <1>2
  <2>4. After(p, r) = [v EXCEPT !.pc = IF last THEN "idle" ELSE "steal",
                                !.result = IF last THEN "ABORT" ELSE w.result,
                                !.window = next, !.aborts = more]
    BY <2>1, <2>3
  <2>5. After(p, r) = z
    <3> DEFINE a == w.attempt + 1
               c == IF last THEN "idle" ELSE "steal"
               s == IF last THEN "ABORT" ELSE w.result
    <3>1. /\ v = [window |-> w.window, victim |-> w.victim, pc |-> "steal", attempt |-> a,
                  result |-> w.result, aborts |-> w.aborts]
          /\ After(p, r) = [v EXCEPT !.pc = c, !.result = s, !.window = next, !.aborts = more]
      BY <1>2, <2>4
    <3> HIDE DEF v, w, a, c, s, next, more, last
    <3>2. After(p, r) = [window |-> next, victim |-> w.victim, pc |-> c, attempt |-> a,
                         result |-> s, aborts |-> more]
      BY <3>1
    <3> QED BY <3>2 DEF a, c, s
  <2>6. /\ z.window = next /\ z.aborts = more /\ z.victim = w.victim /\ z.attempt = w.attempt + 1
        /\ z.pc = (IF last THEN "idle" ELSE "steal")
        /\ z.result = (IF last THEN "ABORT" ELSE w.result)
    OBVIOUS
  <2>7. z \in WorkerType
    <3> HIDE DEF next, more, v
    <3> QED BY <1>1, <2>2 DEF WorkerType
  <2> HIDE DEF z
  <2> QED BY <1>4, <2>3, <2>5, <2>6, <2>7
<1> QED BY <1>3, <1>4

\* A worker calls, goes on to its next attempt, or makes a step of one.
LEMMA ThiefMainSteps ==
  ASSUME StructureInv, ModelInv, NEW p \in Thief, ThiefMain(p)
  PROVE  /\ ThiefStep(p) /\ phase = "race" /\ UNCHANGED <<phase, pops, borrows>>
         /\ \A q \in Thief \ {p} :
              worker'[q] = worker[q] /\ batches'[q] = batches[q] /\ raw'[q] = raw[q]
         /\ batches' \in [Thief -> Nat] /\ raw' \in [Thief -> Nat]
<1>1. /\ worker \in [Thief -> WorkerType] /\ batches \in [Thief -> Nat] /\ raw \in [Thief -> Nat]
  BY DEF ModelInv, WorkersPhase, ScenarioType
<1>2. phase = "race" /\ UNCHANGED <<phase, pops, borrows>>
  BY DEF ThiefMain
<1>3. CASE RetryCall(p, Original) /\ batches' = [batches EXCEPT ![p] = @ + 1] /\ UNCHANGED raw
  <2>1. ThiefStep(p)
    BY <1>3, TwoDeques DEF RetryCall, ThiefStep
  <2>2. PICK w : WorkerGoes(p, w)
    BY <1>3 DEF RetryCall
  <2> QED BY <1>1, <1>2, <1>3, <2>1, <2>2 DEF WorkerGoes
<1>4. CASE RetryAgain(p) /\ UNCHANGED <<batches, raw>>
  <2>1. worker[p].pc = "steal" /\ worker[p].victim = Original
    BY <1>4 DEF RetryAgain, ModelInv, WorkersPhase, RetryPhase
  <2>2. ThiefStep(p)
    BY <1>4, <2>1, TwoDeques DEF RetryAgain, ThiefStep
  <2> QED BY <1>1, <1>2, <1>4, <2>2 DEF RetryAgain
<1>5. CASE /\ Attempt(p) /\ UNCHANGED batches
           /\ raw' = [raw EXCEPT ![p] = IF thief'[p].pc = "idle" THEN @ + 1 ELSE @]
  <2>1. ThiefStep(p)
    BY <1>5 DEF Attempt, ThiefStep
  <2>2. PICK w : WorkerGoes(p, w)
    BY <1>5 DEF Attempt
  <2> QED BY <1>1, <1>2, <1>5, <2>1, <2>2 DEF WorkerGoes
<1> QED BY <1>3, <1>4, <1>5 DEF ThiefMain

\* What a call makes of its worker: it keeps the window if the victim is the
\* same again.
LEMMA CalledWorker ==
  ASSUME NEW p \in Thief, RetryCall(p, Original)
  PROVE  LET w == worker[p]
             same == w.victim = Original
         IN worker' = [worker EXCEPT ![p] =
              [window |-> IF same THEN w.window ELSE 0, victim |-> Original, pc |-> "steal",
               attempt |-> 0, result |-> "none", aborts |-> IF same THEN w.aborts ELSE 0]]
<1> DEFINE w == worker[p]
           same == w.victim = Original
           a == IF same THEN w.window ELSE 0
           b == IF same THEN w.aborts ELSE 0
           f == [Fresh EXCEPT !.victim = Original, !.pc = "steal", !.window = a, !.aborts = b]
<1>1. worker' = [worker EXCEPT ![p] = f]
  BY DEF RetryCall, WorkerGoes
<1>2. f = [window |-> a, victim |-> Original, pc |-> "steal", attempt |-> 0, result |-> "none",
           aborts |-> b]
  <2> HIDE DEF a, b
  <2>1. f \in [window: {a}, victim: {Original}, pc: {"steal"}, attempt: {0}, result: {"none"},
               aborts: {b}]
    BY DEF Fresh
  <2> HIDE DEF f
  <2> QED BY <2>1
<1> HIDE DEF f
<1>3. worker' = [worker EXCEPT ![p] =
        [window |-> a, victim |-> Original, pc |-> "steal", attempt |-> 0, result |-> "none",
         aborts |-> b]]
  BY <1>1, <1>2
<1> QED BY <1>3

\* The first attempt of a call: the window is that of the last batch, if there
\* was one.
LEMMA CallRetries ==
  ASSUME StructureInv, ModelInv, NEW p \in Thief, RetryCall(p, Original), MoreBatches(p),
         batches' = [batches EXCEPT ![p] = @ + 1], UNCHANGED raw
  PROVE  worker' \in [Thief -> WorkerType] /\ RetryPhase(p)'
<1> DEFINE w == worker[p]
           same == w.victim = Original
           n == [window |-> IF same THEN w.window ELSE 0, victim |-> Original, pc |-> "steal",
                 attempt |-> 0, result |-> "none", aborts |-> IF same THEN w.aborts ELSE 0]
<1>1. w \in WorkerType /\ w.pc = "idle" /\ RetryPhase(p) /\ batches[p] \in Nat /\ raw[p] \in Nat
  BY DEF ModelInv, WorkersPhase, ScenarioType, RetryCall
<1>2. worker' = [worker EXCEPT ![p] = n]
  BY CalledWorker
<1>3. n \in WorkerType
  BY <1>1, TwoDeques DEF WorkerType
<1>4. worker' \in [Thief -> WorkerType] /\ worker'[p] = n
  BY <1>2, <1>3 DEF ModelInv, WorkersPhase
<1>5. batches'[p] = batches[p] + 1 /\ raw'[p] = raw[p]
  BY DEF ModelInv, ScenarioType
<1>6. CASE batches[p] = 0
  <2>1. raw[p] = 0 /\ n.window = 0
    BY <1>1, <1>6 DEF RetryPhase
  <2> QED BY <1>4, <1>5, <1>6, <2>1 DEF RetryPhase, WindowAfterAborts
<1>7. CASE batches[p] # 0
  <2>1. w.result = "ABORT" /\ batches[p] = 1
    BY <1>1, <1>7, BoundsAssumption DEF MoreBatches
  <2>2. raw[p] = 2 /\ same /\ w.window = WindowAfterAborts(2)
    BY <1>1, <2>1 DEF RetryPhase
  <2> QED BY <1>4, <1>5, <2>1, <2>2 DEF RetryPhase, WindowAfterAborts
<1> QED BY <1>4, <1>6, <1>7

\* An attempt goes on or ends, and with it the call unless another one follows.
LEMMA AttemptRetries ==
  ASSUME StructureInv, StructureInv', ModelInv, NEW p \in Thief, Attempt(p), UNCHANGED batches,
         raw' = [raw EXCEPT ![p] = IF thief'[p].pc = "idle" THEN @ + 1 ELSE @]
  PROVE  worker' \in [Thief -> WorkerType] /\ RetryPhase(p)'
<1> DEFINE w == worker[p]
           r == thief'[p].res
<1>1. /\ w \in WorkerType /\ RetryPhase(p) /\ batches[p] \in Nat /\ raw[p] \in Nat
      /\ ThiefStep(p) /\ thief[p].pc # "idle"
  BY DEF ModelInv, WorkersPhase, ScenarioType, Attempt, ThiefStep, StealReadOld, StealReadBottom,
     StealReadArray, StealRecheck, StealReadSlot, StealCas, ThiefAt
<1>2. /\ w.pc = "steal" /\ w.attempt \in 0..1 /\ w.victim = Original /\ batches[p] \in 1..2
      /\ raw[p] = 2 * (batches[p] - 1) + w.attempt
      /\ w.window = WindowAfterAborts(raw[p])
  BY <1>1 DEF RetryPhase, WorkerType
<1>3. CASE thief'[p].pc # "idle"
  <2>1. worker' = [worker EXCEPT ![p] = w] /\ raw'[p] = raw[p]
    BY <1>3 DEF Attempt, WorkerGoes, ModelInv, ScenarioType
  <2>2. worker' = worker
    BY <2>1 DEF ModelInv, WorkersPhase
  <2> QED BY <1>1, <1>2, <2>1, <2>2 DEF RetryPhase, ModelInv, WorkersPhase, WindowAfterAborts
<1>4. CASE thief'[p].pc = "idle"
  <2> DEFINE n == After(p, r)
  <2>1. r \in {"SUCCESS", "EMPTY", "ABORT"}
    BY <1>1, <1>4, CallResults DEF StructureInv
  <2>2. /\ n \in WorkerType /\ n.victim = Original /\ n.attempt = w.attempt + 1
        /\ r # "ABORT" => n.pc = "idle" /\ n.result = r /\ n.window = 0
        /\ r = "ABORT" =>
             /\ n.window = Backoff(p)!Doubled(w.window)
             /\ IF n.attempt = 2 THEN n.pc = "idle" /\ n.result = "ABORT" ELSE n.pc = "steal"
    <3> HIDE DEF r
    <3>1. w.attempt < 2
      BY <1>2
    <3> QED BY <1>1, <1>2, <2>1, <3>1, AfterAttempt
  <2>3. worker' = [worker EXCEPT ![p] = n] /\ raw'[p] = raw[p] + 1
    BY <1>4 DEF Attempt, WorkerGoes, ModelInv, ScenarioType
  <2> HIDE DEF n
  <2>4. worker' \in [Thief -> WorkerType] /\ worker'[p] = n
    BY <2>2, <2>3 DEF ModelInv, WorkersPhase
  <2>5. r = "ABORT" => n.window = WindowAfterAborts(raw[p] + 1)
    BY <1>1, <1>2, <2>2, DoubledWindow
  <2>6. n.pc = "idle" => thief'[p].pc = "idle"
    BY <1>4
  <2>7. \A k : WindowAfterAborts(k)' = WindowAfterAborts(k)
    BY DEF WindowAfterAborts
  <2>8. /\ batches'[p] = batches[p] /\ n.attempt \in 1..2
        /\ raw'[p] = 2 * (batches[p] - 1) + n.attempt
    BY <1>2, <2>2, <2>3
  <2> HIDE DEF r
  <2>9. CASE r # "ABORT"
    <3>1. n.pc = "idle" /\ n.result # "ABORT" /\ n.window = 0
      BY <2>2, <2>9
    <3>2. batches'[p] \in 1..2 /\ raw'[p] \in 2 * batches'[p] - 1 .. 2 * batches'[p]
      BY <1>2, <2>8
    <3> QED BY <1>4, <2>4, <3>1, <3>2 DEF RetryPhase
  <2>10. CASE r = "ABORT" /\ n.attempt = 2
    <3>1. n.window = WindowAfterAborts(raw[p])' /\ n.pc = "idle" /\ n.result = "ABORT"
      BY <2>2, <2>3, <2>5, <2>7, <2>10
    <3> QED BY <1>2, <1>4, <2>2, <2>3, <2>4, <2>8, <2>10, <3>1 DEF RetryPhase
  <2>11. CASE r = "ABORT" /\ n.attempt # 2
    <3>1. n.window = WindowAfterAborts(raw[p])' /\ n.pc = "steal" /\ n.attempt = 1
      BY <2>2, <2>3, <2>5, <2>7, <2>8, <2>11
    <3> QED BY <1>2, <1>4, <2>2, <2>3, <2>4, <2>8, <2>11, <3>1 DEF RetryPhase
  <2> QED BY <2>4, <2>9, <2>10, <2>11
<1> QED BY <1>3, <1>4

\* A step of a thief is none of a deque's owner, nor of another thief's batches.
LEMMA ThiefMainKept ==
  ASSUME StructureInv, StructureInv', ModelInv, NEW p \in Thief, ThiefMain(p)
  PROVE  ModelInv'
<1>1. /\ ThiefStep(p) /\ phase = "race" /\ UNCHANGED <<phase, pops, borrows>>
      /\ \A q \in Thief \ {p} :
           worker'[q] = worker[q] /\ batches'[q] = batches[q] /\ raw'[q] = raw[q]
      /\ batches' \in [Thief -> Nat] /\ raw' \in [Thief -> Nat]
  BY ThiefMainSteps
<1>2. UNCHANGED owner /\ \A q \in Thief \ {p} : thief'[q] = thief[q]
  BY <1>1, ThiefStepFrame DEF StructureInv
<1>3. UNCHANGED <<pushed, base>>
  BY <1>1 DEF ThiefStep, StealReadTop, StealReadOld, StealReadBottom, StealReadArray, StealRecheck,
     StealReadSlot, StealCas, history
<1>4. OriginalPhase' /\ BorrowerPhase' /\ ScenarioType'
  BY <1>1, <1>2, <1>3 DEF ModelInv, OriginalPhase, BorrowerPhase, ScenarioType
<1>5. worker' \in [Thief -> WorkerType] /\ RetryPhase(p)'
  <2>1. CASE RetryAgain(p) /\ UNCHANGED <<batches, raw>>
    <3>1. worker[p].pc = "steal" /\ UNCHANGED worker
      BY <2>1 DEF RetryAgain
    <3> QED BY <2>1, <3>1 DEF ModelInv, WorkersPhase, RetryPhase, WindowAfterAborts
  <2> QED BY <2>1, CallRetries, AttemptRetries DEF ThiefMain
<1>6. ASSUME NEW q \in Thief \ {p}  PROVE RetryPhase(q)'
  BY <1>1, <1>2 DEF ModelInv, WorkersPhase, RetryPhase, WindowAfterAborts
<1> QED BY <1>4, <1>5, <1>6 DEF ModelInv, WorkersPhase

-----------------------------------------------------------------------------
(* The program uses the deques as WorkStealingDeque allows.                *)

\* Everything that is known of a state of the program.
ProgramInv == StructureInv /\ ItemInv /\ ModelInv

\* Every step of the program is a step of one deque's owner, of a thief, or none
\* of the deques'.
LEMMA ProgramStep ==
  ASSUME StructureInv, ModelInv, ModelNext
  PROVE  [Next]_vars
<1>1. ASSUME Fill  PROVE \E d \in Deque : OwnerStep(d)
  BY <1>1, TwoDeques DEF Fill, PushBottomStep, OwnerStep
<1>2. ASSUME NEW n, NEW d \in Deque, PopsOf(d, n)  PROVE OwnerStep(d)
  BY <1>2 DEF PopsOf, PopBottomStep, OwnerStep
<1>3. ASSUME BorrowerMain  PROVE \E d \in Deque : OwnerStep(d)
  BY <1>3, TwoDeques DEF BorrowerMain, PushBottomStep, OwnerStep, LifeStep
<1>4. ASSUME ReturnAll  PROVE \E d \in Deque : OwnerStep(d)
  BY <1>2, <1>4, TwoDeques DEF ReturnAll, OwnerStep, LifeStep
<1>5. ASSUME Start \/ Join \/ Drained  PROVE UNCHANGED vars
  BY <1>5 DEF Start, Join, Drained
<1>6. OwnerMain \/ Drain => \E d \in Deque : OwnerStep(d)
  BY <1>2, TwoDeques DEF OwnerMain, Drain
<1>7. ASSUME NEW p \in Thief, ThiefMain(p)  PROVE ThiefStep(p)
  BY <1>7, ThiefMainSteps
<1> QED BY <1>1, <1>3, <1>4, <1>5, <1>6, <1>7 DEF ModelNext, Next

\* The invariants of the deques are kept by any of their steps.
LEMMA DequesKept ==
  ASSUME StructureInv, ItemInv, [Next]_vars
  PROVE  StructureInv' /\ ItemInv'
<1>1. ASSUME NEW d \in Deque, OwnerStep(d)
      PROVE  StructureInv' /\ ItemInv'
  BY <1>1, OwnerStepInv, OwnerStepItems
<1>2. ASSUME NEW p \in Thief, ThiefStep(p)
      PROVE  StructureInv' /\ ItemInv'
  BY <1>2, ThiefStepInv, ThiefStepItems
<1>3. CASE UNCHANGED vars
  BY <1>3, StutterInv, StutterItems
<1> QED BY <1>1, <1>2, <1>3 DEF Next

\* One step of the program, or a stutter.
LEMMA ProgramKept ==
  ASSUME ProgramInv, [ModelNext]_modelVars
  PROVE  ProgramInv' /\ [Next]_vars
<1>1. StructureInv /\ ItemInv /\ ModelInv
  BY DEF ProgramInv
<1>2. [Next]_vars
  BY <1>1, ProgramStep DEF modelVars
<1>3. StructureInv' /\ ItemInv'
  BY <1>1, <1>2, DequesKept
<1>4. ModelInv'
  <2>1. OwnerPops \in Nat /\ MainPops \in Nat
    BY ScenarioAssumption
  <2>2. CASE OwnerMain \/ Drain
    BY <1>1, <1>3, <2>1, <2>2, PopsOfOriginal DEF OwnerMain, Drain
  <2>3. CASE UNCHANGED modelVars
    <3>1. UNCHANGED <<vars, worker, phase, pops, batches, raw, borrows>>
      BY <2>3 DEF modelVars, scenario
    <3>2. /\ UNCHANGED <<owner, thief, pushed, base, returned>>
          /\ \A d \in Deque : Length(d)' = Length(d) /\ (Live(d)' <=> Live(d))
      BY <3>1, MainFrame
    <3>3. OriginalPhase' /\ BorrowerPhase'
      BY <1>1, <3>1, <3>2, TwoDeques DEF ModelInv, OriginalPhase, BorrowerPhase, AllSeen
    <3> QED BY <1>1, <3>1, <3>2, <3>3, WorkersFrame DEF ModelInv, ScenarioType
  <2> QED BY <1>1, <1>3, <2>2, <2>3, FillKept, StartKept, ThiefMainKept, BorrowerMainKept, JoinKept,
             DrainedKept, ReturnAllKept DEF ModelNext
<1> QED BY <1>2, <1>3, <1>4 DEF ProgramInv

\* What holds of every state of the program.
LEMMA ProgramForever == ModelSpec => []ProgramInv /\ [][Next]_vars
<1>1. ModelInit => ProgramInv
  BY InitModel, InitInv, InitItems DEF ModelInit, RetryInit, ProgramInv
<1>2. ProgramInv /\ [ModelNext]_modelVars => ProgramInv'
  BY ProgramKept
<1>3. ProgramInv /\ [ModelNext]_modelVars => [Next]_vars
  BY ProgramKept
<1> QED BY <1>1, <1>2, <1>3, PTL DEF ModelSpec

\* The program is a user of the deques: its behaviours are some of those of
\* WorkStealingDeque, so whatever is proved of them holds in it.
THEOREM ProgramUsesDeques == ModelSpec => Spec
<1>1. ModelInit => Init
  BY DEF ModelInit, RetryInit
<1> QED BY <1>1, ProgramForever, PTL DEF ModelSpec, Spec

-----------------------------------------------------------------------------
(* What main() and thief_main() assert.                                    *)

\* Whatever the interleaving, each item that the owner pushed is seen once when
\* main() has drained the deque, by its MaxItems pops at the latest, and the
\* borrower gets back the item that it pushed into the array it borrowed.
THEOREM ProgramSeesAllOnce == ModelSpec => []SeenOnce
<1>1. ProgramInv => SeenOnce
  <2> SUFFICES ASSUME ProgramInv  PROVE SeenOnce
    OBVIOUS
  <2>1. StructureInv /\ ItemInv /\ ModelInv
    BY DEF ProgramInv
  <2>2. phase = "return" => AllSeen
    BY <2>1 DEF ModelInv, OriginalPhase
  <2>3. ASSUME phase = "return", owner[Borrower].pc = "idle", pops = 1, NEW k \in 1..pushed[Borrower]
        PROVE  returned[Borrower][<<Borrower, k>>] = 1
    <3>1. base[Borrower] = 0 /\ Length(Borrower) <= 1 - pops /\ pushed[Borrower] = 1
      BY <2>1, <2>3 DEF ModelInv, BorrowerPhase, Live
    <3>2. Length(Borrower) <= 0
      BY <2>1, <2>3, <3>1, LengthType, TwoDeques
    <3>3. <<Borrower, k>> \in Value
      BY <2>3, <3>1, TwoDeques, ValueAssumption DEF Item
    <3> QED BY <2>1, <2>3, <3>1, <3>2, <3>3, AllItemsReturned, TwoDeques
  <2> QED BY <2>2, <2>3 DEF SeenOnce, AllSeen
<1> QED BY <1>1, ProgramForever, PTL

\* Whatever the other threads do to its attempts, a thief gives up only after
\* two batches of two attempts that have all aborted, and takes its window from
\* the first batch into the second.
THEOREM ThievesKeepContract == ModelSpec => []RetryContract
<1>1. ModelInv => RetryContract
  <2> SUFFICES ASSUME ModelInv, NEW p \in Thief
               PROVE  /\ worker[p].pc = "idle" /\ worker[p].result = "ABORT" /\ batches[p] = 1 =>
                           worker[p].window = 2 * RetryConfig.initial_window
                      /\ ThiefDone(p) =>
                           /\ batches[p] \in 1..Batches
                           /\ raw[p] \in batches[p] .. batches[p] * RetryConfig.max_attempts
                           /\ worker[p].window = IF worker[p].result = "ABORT"
                                                 THEN RetryConfig.max_window ELSE 0
    BY DEF RetryContract
  <2>1. RetryPhase(p) /\ batches[p] \in Nat /\ raw[p] \in Nat
    BY DEF ModelInv, WorkersPhase, ScenarioType
  <2>2. CASE worker[p].pc = "idle" /\ worker[p].result = "ABORT" /\ batches[p] = 1
    <3>1. raw[p] = 2 /\ worker[p].window = WindowAfterAborts(2)
      BY <2>1, <2>2 DEF RetryPhase
    <3> QED BY <2>2, <3>1, BoundsAssumption DEF WindowAfterAborts, ThiefDone, MoreBatches
  <2>3. CASE ThiefDone(p) /\ worker[p].result = "ABORT"
    <3>1. worker[p].pc = "idle" /\ batches[p] = 2
      BY <2>1, <2>3, BoundsAssumption DEF ThiefDone, MoreBatches, RetryPhase
    <3>2. raw[p] = 4 /\ worker[p].window = WindowAfterAborts(4)
      BY <2>1, <2>3, <3>1 DEF RetryPhase
    <3> QED BY <2>3, <3>1, <3>2, BoundsAssumption DEF WindowAfterAborts
  <2>4. CASE ThiefDone(p) /\ worker[p].result # "ABORT"
    <3>1. /\ worker[p].pc = "idle" /\ batches[p] \in 1..2 /\ worker[p].window = 0
          /\ raw[p] \in 2 * batches[p] - 1 .. 2 * batches[p]
      BY <2>1, <2>4 DEF ThiefDone, RetryPhase
    <3> QED BY <2>1, <2>4, <3>1, BoundsAssumption
  <2> QED BY <2>2, <2>3, <2>4
<1>2. ProgramInv => ModelInv
  BY DEF ProgramInv
<1> QED BY <1>1, <1>2, ProgramForever, PTL

\* The pool has all its buffers back when both deques are gone, the one that a
\* shrink released and the borrower took among them.
THEOREM ProgramReturnsAll == ModelSpec => []AllReturned
<1>1. ProgramInv => AllReturned
  <2> SUFFICES ASSUME ProgramInv, \A d \in Deque : owner[d].pc = "none"
               PROVE  OwnedRecords = {}
    BY DEF AllReturned
  <2>1. PICK holder \in Holders : ChainsHeld(holder)
    BY DEF ProgramInv, ItemInv, HeldInv
  <2>2. \A d \in Deque : Root(d) = NoRecord
    BY DEF Root
  <2>3. ASSUME NEW r \in OwnedRecords  PROVE FALSE
    <3>1. r \in Record /\ holder[r] # NoDeque
      BY <2>1 DEF ChainsHeld, OwnedRecords
    <3>2. Root(holder[r]) # NoRecord /\ holder[r] \in Deque
      BY <2>1, <3>1 DEF ChainsHeld, Holders
    <3> QED BY <2>2, <3>2
  <2> QED BY <2>3
<1> QED BY <1>1, ProgramForever, PTL

\* The wrapper in the hands of a thief, among all other threads, makes the steps
\* that StealBackoff allows one worker by itself.
LEMMA BackoffStep ==
  ASSUME ProgramInv, ProgramInv', ModelNext, NEW p \in Thief, worker'[p] # worker[p]
  PROVE  Backoff(p)!Next
<1>1. StructureInv /\ StructureInv' /\ ModelInv /\ worker \in [Thief -> WorkerType]
  BY DEF ProgramInv, ModelInv, WorkersPhase
<1>2. ThiefMain(p)
  <2>1. ASSUME NEW q \in Thief \ {p}, ThiefMain(q)  PROVE FALSE
    BY <1>1, <2>1, ThiefMainSteps
  <2>2. ASSUME Fill \/ Start \/ OwnerMain \/ BorrowerMain \/ Join \/ Drain \/ Drained \/ ReturnAll
        PROVE  FALSE
    BY <2>2 DEF Fill, Start, OwnerMain, BorrowerMain, Join, Drain, Drained, ReturnAll, PopsOf,
       PopBottomStep
  <2> QED BY <2>1, <2>2 DEF ModelNext
<1>3. CASE RetryCall(p, Original)
  <2> DEFINE w == worker[p]
             same == w.victim = Original
             n == [window |-> IF same THEN w.window ELSE 0, victim |-> Original, pc |-> "steal",
                   attempt |-> 0, result |-> "none", aborts |-> IF same THEN w.aborts ELSE 0]
  <2>1. worker'[p] = n
    BY <1>1, <1>3, CalledWorker
  <2>2. w.pc = "idle"
    BY <1>3 DEF RetryCall
  <2>3. Backoff(p)!Call(Original)
    BY <2>1, <2>2 DEF Backoff!Call, Backoff!SelectVictim
  <2> QED BY <2>3, TwoDeques DEF Backoff!Next
<1>4. CASE Attempt(p)
  <2> DEFINE w == worker[p]
             r == thief'[p].res
             n == After(p, r)
  <2>1. thief'[p].pc = "idle" /\ worker'[p] = n
    BY <1>1, <1>4 DEF Attempt, WorkerGoes
  <2>2. /\ ThiefStep(p) /\ thief[p].pc # "idle"
    BY <1>4 DEF Attempt, ThiefStep, StealReadOld, StealReadBottom, StealReadArray, StealRecheck,
       StealReadSlot, StealCas, ThiefAt
  <2>3. r \in {"SUCCESS", "EMPTY", "ABORT"}
    BY <1>1, <2>1, <2>2, CallResults DEF StructureInv
  <2>4. w \in WorkerType /\ w.pc = "steal" /\ w.attempt < 2
    BY <1>1, <2>2 DEF ModelInv, WorkersPhase, RetryPhase, WorkerType
  <2>5. /\ n.victim = w.victim /\ n.attempt = w.attempt + 1
        /\ r # "ABORT" => n.pc = "idle" /\ n.result = r /\ n.window = 0 /\ n.aborts = 0
        /\ r = "ABORT" =>
             /\ n.window = Backoff(p)!Doubled(w.window) /\ n.aborts = Backoff(p)!OneMore(w.aborts)
             /\ IF n.attempt = 2 THEN n.pc = "idle" /\ n.result = "ABORT"
                                 ELSE n.pc = "steal" /\ n.result = w.result
    <3> HIDE DEF r
    <3> QED BY <2>3, <2>4, AfterAttempt
  <2> HIDE DEF n, r
  <2>6. CASE r # "ABORT"
    <3>1. Backoff(p)!Settle(r)
      BY <2>1, <2>4, <2>5, <2>6 DEF Backoff!Settle
    <3> QED BY <2>3, <3>1 DEF Backoff!Next, Backoff!Outcome
  <2>7. CASE r = "ABORT"
    <3>1. n.attempt = 2 <=> ~(w.attempt + 1 < RetryConfig.max_attempts)
      BY <2>4, <2>5, ConfigFacts DEF WorkerType
    <3>2. Backoff(p)!RecordAbort
      BY <2>1, <2>4, <2>5, <2>7, <3>1 DEF Backoff!RecordAbort, Backoff!AttemptsLeft
    <3> QED BY <3>2 DEF Backoff!Next
  <2> QED BY <2>6, <2>7
<1>5. ~RetryAgain(p)
  BY DEF RetryAgain
<1> QED BY <1>2, <1>3, <1>4, <1>5 DEF ThiefMain

\* So does every thief, from a constructor that accepts the configuration on.
THEOREM ThievesBackOff == ModelSpec => Backoffs
<1>1. ModelInit => \A p \in Thief : Backoff(p)!Init
  <2> SUFFICES ASSUME ModelInit, NEW p \in Thief  PROVE Backoff(p)!Init
    OBVIOUS
  <2>1. worker[p] = Fresh
    BY DEF ModelInit, RetryInit
  <2>2. Backoff(p)!ValidConfig(RetryConfig)
    BY RetryAssumption DEF Backoff!ValidConfig, Backoff!PowersOfTwo
  <2> QED BY <2>1, <2>2 DEF Fresh, Backoff!Init
<1>2. ProgramInv /\ ProgramInv' /\ [ModelNext]_modelVars =>
        [\A p \in Thief : [Backoff(p)!Next]_(Backoff(p)!vars)]_worker
  <2> SUFFICES ASSUME ProgramInv, ProgramInv', ModelNext, NEW p \in Thief
               PROVE  [Backoff(p)!Next]_(Backoff(p)!vars)
    BY DEF modelVars
  <2>1. CASE worker'[p] = worker[p]
    BY <2>1 DEF Backoff!vars
  <2> QED BY <2>1, BackoffStep
<1> QED BY <1>1, <1>2, ProgramForever, PTL DEF ModelSpec, Backoffs
=============================================================================
