---------------------- MODULE BenchmarkWorkloadProofs ----------------------
(***************************************************************************)
(* Theorems about BenchmarkWorkload, for any number of workers, none       *)
(* included, of items and of buffers: no worker leaves while an item       *)
(* waits, and at the end each item was counted once.  BenchmarkInv is      *)
(* inductive once StructureInv is known.                                   *)
(***************************************************************************)
EXTENDS DequeTheorems, BenchmarkWorkload

WorkloadType ==
  /\ phase \in {"push", "pushed", "join", "drain", "finished"} /\ done \in BOOLEAN
  /\ at \in [Thief -> {"none", "check", "steal", "left"}] /\ saw \in [Thief -> BOOLEAN]

\* The owner pushes only before done is set and pops only when all workers
\* have left; it has finished when nothing waits any more.
OwnerPhase ==
  LET o == owner[Shared] IN
  /\ done <=> phase \in {"join", "drain", "finished"}
  /\ phase = "push" => o.pc \in {"none", "construct", "idle"} \cup PushPC
  /\ phase \in {"pushed", "join", "finished"} => o.pc = "idle"
  /\ phase = "drain" => o.pc \in {"idle"} \cup PopPC
  /\ phase \in {"drain", "finished"} => \A p \in Thief : at[p] \in {"none", "left"}
  /\ phase = "finished" => Window(Shared) = {}
  /\ base[Shared] = 0
  /\ ~Live(Shared) => pushed[Shared] = 0

\* A steal before which done was seen reads a bottom_ and an array that no
\* longer change: what it finds to be a multiple of the capacity is one.
LastSteal(h) ==
  /\ h.pc \in {"array", "recheck"} => h.b = bottom[Shared]
  /\ h.pc = "recheck" =>
       h.a = active[Shared] /\ h.t < h.b /\ Ambiguous(h.b - h.t, h.a)

WorkerPhase(p) ==
  /\ saw[p] => done /\ LastSteal(thief[p])
  /\ at[p] # "steal" => thief[p].pc = "idle"
  /\ at[p] = "left" => saw[p] /\ Window(Shared) = {}

BenchmarkInv ==
  /\ WorkloadType /\ OwnerPhase /\ \A p \in Thief : WorkerPhase(p)

-----------------------------------------------------------------------------
(* What the invariants say of the one deque.                               *)

\* The types of its indices.
LEMMA SharedFacts ==
  ASSUME StructureInv
  PROVE  /\ Shared \in Deque /\ TypeOK
         /\ top[Shared] \in Int /\ bottom[Shared] \in Int
         /\ owner[Shared].b \in Int /\ owner[Shared].t \in Int
         /\ OwnerIndices(Shared) /\ OwnerPointers(Shared)
<1>1. Shared \in Deque
  BY WorkloadAssumption
<1> QED BY <1>1, IndexTypes DEF StructureInv

\* It is empty if top_ has reached bottom_.
LEMMA EmptyWindow ==
  ASSUME StructureInv, owner[Shared].pc = "idle"
  PROVE  Window(Shared) = {} <=> bottom[Shared] <= top[Shared]
<1>1. Window(Shared) = top[Shared] .. bottom[Shared] - 1
  BY DEF Window, LogicalBottom, Shifted
<1> QED BY <1>1, SharedFacts

\* Every thief in a call steals from it.
LEMMA StealsShared ==
  ASSUME StructureInv, NEW p \in Thief, thief[p].pc # "idle"
  PROVE  /\ thief[p].d = Shared /\ Live(Shared)
         /\ thief[p].t \in Int /\ thief[p].b \in Int /\ thief[p].t <= top[Shared]
<1>1. thief[p].d \in Deque /\ Live(thief[p].d) /\ thief[p].t <= top[thief[p].d]
  BY DEF StructureInv, ThiefIndices
<1>2. thief[p] \in ThiefType
  BY DEF StructureInv, TypeOK
<1> QED BY <1>1, <1>2, WorkloadAssumption DEF ThiefType

\* Before done is set no worker has seen it, and none has left.
LEMMA NobodyLeaves ==
  ASSUME BenchmarkInv, ~done, NEW p \in Thief
  PROVE  ~saw[p] /\ at[p] \in {"none", "check", "steal"}
<1>1. WorkerPhase(p) /\ at[p] \in {"none", "check", "steal", "left"}
  BY DEF BenchmarkInv, WorkloadType
<1> QED BY <1>1 DEF WorkerPhase

-----------------------------------------------------------------------------
(* The owner's steps.                                                      *)

\* In the beginning the deque is not constructed and every worker waits.
LEMMA InitBenchmark == BenchmarkInit => BenchmarkInv
<1> SUFFICES ASSUME BenchmarkInit  PROVE BenchmarkInv
  OBVIOUS
<1>1. Shared \in Deque
  BY WorkloadAssumption
<1>2. owner[Shared].pc = "none" /\ base[Shared] = 0 /\ pushed[Shared] = 0
  BY <1>1 DEF BenchmarkInit, Init, IdleOwner
<1>3. \A p \in Thief : thief[p].pc = "idle" /\ at[p] \in {"none", "check"} /\ saw[p] = FALSE
  BY DEF BenchmarkInit, Init, IdleThief
<1>4. phase = "push" /\ done = FALSE /\ WorkloadType
  BY DEF BenchmarkInit, WorkloadType
<1>5. OwnerPhase
  BY <1>2, <1>4 DEF OwnerPhase
<1>6. \A p \in Thief : WorkerPhase(p)
  BY <1>3 DEF WorkerPhase
<1> QED BY <1>4, <1>5, <1>6 DEF BenchmarkInv

\* While done is not set, a step of the owner concerns no worker.
LEMMA WorkersBeforeDone ==
  ASSUME BenchmarkInv, ~done, UNCHANGED <<thief, done, at, saw>>
  PROVE  \A p \in Thief : WorkerPhase(p)'
<1> SUFFICES ASSUME NEW p \in Thief  PROVE WorkerPhase(p)'
  OBVIOUS
<1>1. WorkerPhase(p) /\ ~saw[p] /\ at[p] # "left"
  BY NobodyLeaves DEF BenchmarkInv
<1> QED BY <1>1 DEF WorkerPhase

\* The constructor runs before anything was pushed.
LEMMA SetupKept ==
  ASSUME StructureInv, BenchmarkInv, Setup
  PROVE  BenchmarkInv'
<1>1. /\ phase = "push" /\ ~done /\ base[Shared] = 0 /\ UNCHANGED benchmark
      /\ owner[Shared].pc \in {"none", "construct"}
  BY DEF Setup, BenchmarkInv, OwnerPhase
<1>2. pushed[Shared] = 0
  BY <1>1 DEF BenchmarkInv, OwnerPhase, Live
<1>3. Construct(Shared) \/ ConstructClaim(Shared) \/ ConstructScan(Shared) \/ ConstructFails(Shared)
  BY <1>1 DEF Setup, LifeStep, Destroy, DestroyRelease, OwnerAt
<1>4. /\ owner'[Shared].pc \in {"none", "construct", "idle"}
      /\ UNCHANGED <<thief, pushed>> /\ base'[Shared] = 0
  <2>1. Shared \in Deque /\ TypeOK
    BY SharedFacts
  <2>2. base' = base \/ base' = [base EXCEPT ![Shared] = pushed[Shared]]
    BY <1>3 DEF Construct, ConstructClaim, ConstructScan, ConstructFails, history
  <2>3. base'[Shared] = 0
    BY <1>1, <1>2, <2>1, <2>2 DEF TypeOK
  <2>4. owner'[Shared].pc \in {"none", "construct", "idle"} /\ UNCHANGED <<thief, pushed>>
    BY <1>3, <2>1, ConstructEffect, ConstructClaimEffect, ConstructScanEffect, ConstructFailsEffect
       DEF Construct, ConstructClaim, ConstructScan, ConstructFails, history
  <2> QED BY <2>3, <2>4
<1>5. OwnerPhase'
  BY <1>1, <1>2, <1>4 DEF OwnerPhase, benchmark, BenchmarkInv
<1> QED BY <1>1, <1>4, <1>5, WorkersBeforeDone DEF BenchmarkInv, WorkloadType, benchmark

\* A push leaves the deque live, and a failed one ends the loop outside a call.
LEMMA PushAllKept ==
  ASSUME StructureInv, BenchmarkInv, PushAll
  PROVE  BenchmarkInv'
<1>1. /\ phase = "push" /\ ~done /\ base[Shared] = 0 /\ UNCHANGED <<done, at, saw>>
      /\ phase' = IF PushFails(Shared) THEN "pushed" ELSE "push"
      /\ PushStep(Shared) /\ Shared \in Deque /\ TypeOK
  BY SharedFacts DEF PushAll, BenchmarkInv, OwnerPhase
<1>2. /\ owner'[Shared].pc \in {"idle"} \cup PushPC
      /\ PushFails(Shared) => owner'[Shared].pc = "idle"
      /\ UNCHANGED <<thief, base>>
  <2>1. CASE TryPush(Shared) \/ PushReadTop(Shared)
    <3>1. UNCHANGED <<thief, base>> /\ ~PushFails(Shared)
      BY <2>1 DEF TryPush, PushReadTop, PushFails, OwnerAt, history
    <3>2. owner'[Shared].pc \in {"pushTop", "pushSlot", "grow"}
      BY <1>1, <2>1, TryPushEffect, PushReadTopEffect
    <3> QED BY <3>1, <3>2 DEF PushPC
  <2>2. CASE GrowClaim(Shared) \/ GrowScan(Shared) \/ PushFails(Shared)
    <3>1. UNCHANGED <<thief, base>>
      BY <2>2 DEF GrowClaim, GrowScan, PushFails, history
    <3>2. owner'[Shared].pc \in {"growCopy", "grow", "idle"} /\ (PushFails(Shared) => owner'[Shared].pc = "idle")
      BY <1>1, <2>2, GrowClaimEffect, GrowScanEffect, PushFailsEffect
    <3> QED BY <3>1, <3>2 DEF PushPC
  <2>3. CASE GrowCopy(Shared) \/ GrowPublish(Shared) \/ PushSlot(Shared) \/ PushBottom(Shared)
    <3>1. UNCHANGED <<thief, base>> /\ ~PushFails(Shared)
      BY <2>3 DEF GrowCopy, GrowPublish, PushSlot, PushBottom, PushFails, OwnerAt, history
    <3>2. owner'[Shared].pc \in {"growCopy", "pushSlot", "pushBottom", "idle"}
      BY <1>1, <2>3, GrowCopyEffect, GrowPublishEffect, PushSlotEffect, PushBottomEffect
    <3> QED BY <3>1, <3>2 DEF PushPC
  <2> QED BY <1>1, <2>1, <2>2, <2>3 DEF PushStep
<1>3. OwnerPhase'
  BY <1>1, <1>2 DEF OwnerPhase, PushPC, Live
<1> QED BY <1>1, <1>2, <1>3, WorkersBeforeDone DEF BenchmarkInv, WorkloadType

\* The flag is set between two calls of the owner.
LEMMA SetDoneKept ==
  ASSUME StructureInv, BenchmarkInv, SetDone
  PROVE  BenchmarkInv'
<1>1. /\ phase \in {"push", "pushed"} /\ owner[Shared].pc = "idle" /\ ~done
      /\ done' = TRUE /\ phase' = "join" /\ UNCHANGED <<vars, at, saw>>
  BY DEF SetDone, BenchmarkInv, OwnerPhase
<1>2. UNCHANGED <<owner, thief, top, bottom, active, base, pushed>>
  BY <1>1 DEF vars, indexVars, history
<1>3. OwnerPhase'
  BY <1>1, <1>2 DEF BenchmarkInv, OwnerPhase, Live
<1>4. ASSUME NEW p \in Thief  PROVE WorkerPhase(p)'
  <2>1. WorkerPhase(p) /\ ~saw[p] /\ at[p] # "left"
    BY <1>1, NobodyLeaves DEF BenchmarkInv
  <2> QED BY <1>1, <1>2, <2>1 DEF WorkerPhase
<1> QED BY <1>1, <1>3, <1>4 DEF BenchmarkInv, WorkloadType

\* A step that leaves the deque and the flag alone keeps what a worker knows.
LEMMA WorkerPhaseSame ==
  ASSUME NEW p \in Thief, WorkerPhase(p), at'[p] = at[p], saw'[p] = saw[p], done' = done,
         UNCHANGED <<owner, thief, top, bottom, active>>
  PROVE  WorkerPhase(p)'
BY DEF WorkerPhase, LastSteal, Ambiguous, Window, LogicalBottom, Shifted

\* The join lets the owner go on when all workers have left.
LEMMA JoinKept ==
  ASSUME StructureInv, BenchmarkInv, Join
  PROVE  BenchmarkInv'
<1>1. /\ phase = "join" /\ \A p \in Thief : at[p] \in {"none", "left"}
      /\ phase' = "drain" /\ UNCHANGED <<vars, done, at, saw>>
  BY DEF Join
<1>2. UNCHANGED <<owner, thief, top, bottom, active, base, pushed>>
  BY <1>1 DEF vars, indexVars, history
<1>3. OwnerPhase'
  BY <1>1, <1>2 DEF BenchmarkInv, OwnerPhase, Live
<1>4. \A p \in Thief : WorkerPhase(p)'
  BY <1>1, <1>2, WorkerPhaseSame DEF BenchmarkInv
<1> QED BY <1>1, <1>3, <1>4 DEF BenchmarkInv, WorkloadType

\* No step of a pop or a shrink puts an item into an empty deque, although a
\* shrink moves the indices.
LEMMA PopAddsNothing ==
  ASSUME StructureInv, PopStep(Shared) \/ ShrinkStep(Shared)
  PROVE  Window(Shared) = {} => Window(Shared)' = {}
<1>1. Shared \in Deque /\ TypeOK
  BY SharedFacts
<1>2. OwnerStep(Shared) /\ owner[Shared].pc \in {"idle"} \cup PopPC
  BY <1>1, PopCallStep
<1>3. Live(Shared) /\ ~PushBottom(Shared)
  BY <1>2 DEF Live, PushBottom, OwnerAt, PopPC, ShrinkPC, CopyPC
<1>4. \/ Pop(Shared) /\ Window(Shared)' = Window(Shared) \ {bottom[Shared] - 1}
      \/ Window(Shared)' = Window(Shared)
      \/ Window(Shared)' = {i + Capacity[active[Shared]] : i \in Window(Shared)}
  BY <1>1, <1>2, <1>3, OwnWindows
<1>5. {i + Capacity[active[Shared]] : i \in {}} = {}
  OBVIOUS
<1> QED BY <1>4, <1>5

\* A pop returns nullopt only if nothing waits: it has found top_ past its
\* bottom_, or has lost the race for the last item.
LEMMA NulloptMeansEmpty ==
  ASSUME StructureInv, StructureInv', PopStep(Shared) \/ ShrinkStep(Shared),
         owner'[Shared].pc = "idle", returned' = returned
  PROVE  Window(Shared)' = {}
<1> DEFINE o == owner[Shared]
<1>1. /\ Shared \in Deque /\ TypeOK /\ OwnerIndices(Shared)
      /\ o \in OwnerType /\ top[Shared] \in Int
  BY SharedFacts DEF TypeOK
<1>2. ASSUME NEW v \in Value  PROVE ~Deliver(Shared, v)
  BY <1>1 DEF Deliver, TypeOK
<1>3. ~PopReadTop(Shared)
  <2> SUFFICES ASSUME PopReadTop(Shared)  PROVE FALSE
    OBVIOUS
  <2>1. Deliver(Shared, Load(o.a, o.b))
    BY <1>1, PopReadTopLocals
  <2>2. o.a \in Record /\ o.b \in Int /\ BufferTypeOK
    BY <1>1, PopReadTopEffect DEF StructureInv, OwnerPointers, OwnerType, TypeOK, PoolTypeOK
  <2> QED BY <1>2, <2>1, <2>2, LoadType
<1>4. ~ShrinkRelease(Shared)
  BY <1>1, <1>2, OwnHistory, ShrinkReleaseEffect, OwnerGoesFacts DEF ShrinkRelease, OwnerType
<1>5. PopRestore(Shared) \/ PopSettle(Shared)
  BY <1>1, <1>3, <1>4, PopEffect, PopCasEffect, ShrinkWalkEffect, ShrinkStartEffect,
     ShrinkCopyEffect, ShrinkPublishEffect, ShrinkShiftEffect, ShrinkReadTopEffect,
     ShrinkCasEffect, ShrinkRestoreEffect DEF PopStep, ShrinkStep
<1>6. top'[Shared] = top[Shared] /\ bottom'[Shared] = top[Shared]
  <2>1. CASE PopRestore(Shared)
    BY <1>1, <2>1, PopRestoreEffect DEF OwnerIndices, SameTop
  <2>2. CASE PopSettle(Shared)
    BY <1>1, <2>2, PopSettleEffect DEF OwnerIndices, SameTop
  <2> QED BY <1>5, <2>1, <2>2
<1>7. Window(Shared)' = top'[Shared] .. bottom'[Shared] - 1
  BY DEF Window, LogicalBottom, Shifted
<1> QED BY <1>1, <1>6, <1>7

\* The owner drains what nobody stole; what a worker found empty it leaves so.
LEMMA DrainKept ==
  ASSUME StructureInv, StructureInv', BenchmarkInv, Drain
  PROVE  BenchmarkInv'
<1>1. /\ phase = "drain" /\ done /\ UNCHANGED <<done, at, saw>> /\ base[Shared] = 0
      /\ PopStep(Shared) \/ ShrinkStep(Shared)
      /\ phase' = IF owner'[Shared].pc = "idle" /\ returned' = returned THEN "finished" ELSE "drain"
      /\ \A p \in Thief : at[p] \in {"none", "left"}
  BY DEF Drain, BenchmarkInv, OwnerPhase
<1>2. /\ owner'[Shared].pc \in {"idle"} \cup PopPC
      /\ UNCHANGED <<thief, base>>
  BY <1>1, SharedFacts, PopCallStep
<1>3. phase' = "finished" => Window(Shared)' = {}
  BY <1>1, NulloptMeansEmpty
<1>4. Live(Shared)'
  BY <1>2 DEF Live, PopPC, ShrinkPC, CopyPC
<1>5. OwnerPhase'
  BY <1>1, <1>2, <1>3, <1>4 DEF OwnerPhase
<1>6. ASSUME NEW p \in Thief  PROVE WorkerPhase(p)'
  <2>1. WorkerPhase(p) /\ thief[p].pc = "idle"
    BY <1>1 DEF BenchmarkInv, WorkerPhase
  <2>2. Window(Shared) = {} => Window(Shared)' = {}
    BY <1>1, PopAddsNothing
  <2> QED BY <1>1, <1>2, <2>1, <2>2 DEF WorkerPhase, LastSteal
<1> QED BY <1>1, <1>5, <1>6 DEF BenchmarkInv, WorkloadType

-----------------------------------------------------------------------------
(* The workers' steps.                                                     *)

\* A worker copies the flag between two steals.
LEMMA LoadDoneKept ==
  ASSUME StructureInv, BenchmarkInv, NEW p \in Thief, LoadDone(p)
  PROVE  BenchmarkInv'
<1>1. /\ at[p] = "check" /\ UNCHANGED <<vars, phase, done>>
      /\ at' = [at EXCEPT ![p] = "steal"] /\ saw' = [saw EXCEPT ![p] = done]
  BY DEF LoadDone
<1>2. UNCHANGED <<owner, thief, top, bottom, active, base, pushed>>
  BY <1>1 DEF vars, indexVars, history
<1>3. WorkloadType /\ WorkloadType'
  BY <1>1 DEF BenchmarkInv, WorkloadType
<1>4. OwnerPhase'
  BY <1>1, <1>2 DEF BenchmarkInv, OwnerPhase, Live
<1>5. ASSUME NEW q \in Thief  PROVE WorkerPhase(q)'
  <2>1. WorkerPhase(q)
    BY DEF BenchmarkInv
  <2>2. CASE q = p
    <3>1. thief[p].pc = "idle" /\ at'[p] = "steal" /\ saw'[p] = done
      BY <1>1, <1>3, <2>1, <2>2 DEF WorkerPhase, WorkloadType
    <3> QED BY <1>1, <1>2, <2>2, <3>1 DEF WorkerPhase, LastSteal
  <2>3. CASE q # p
    BY <1>1, <1>2, <1>3, <2>1, <2>3, WorkerPhaseSame DEF WorkloadType
  <2> QED BY <2>2, <2>3
<1> QED BY <1>3, <1>4, <1>5 DEF BenchmarkInv

\* A step of a steal before which done was seen: bottom_ and the array it reads
\* are final, so that an EMPTY is genuine.
LEMMA LastStealStep ==
  ASSUME StructureInv, NEW p \in Thief, ThiefStep(p), owner[Shared].pc = "idle",
         LastSteal(thief[p])
  PROVE  /\ LastSteal(thief[p])'
         /\ thief'[p].pc = "idle" /\ thief'[p].res = "EMPTY" => Window(Shared) = {}
<1> DEFINE h == thief[p]
<1>t. TypeOK /\ h \in ThiefType /\ UNCHANGED <<owner, active, bottom>>
  BY ThiefStepFrame DEF StructureInv, TypeOK
<1>s. /\ top[Shared] \in Int /\ bottom[Shared] \in Int
      /\ bottom[Shared] - top[Shared] < Capacity[active[Shared]]
      /\ active[Shared] \in Record
  <2>1. Live(Shared) /\ LogicalBottom(Shared) = bottom[Shared]
    BY DEF Live, LogicalBottom, Shifted
  <2> QED BY <2>1, SharedFacts DEF OwnerIndices, OwnerPointers
<1>1. CASE h.pc = "idle"
  <2>1. PICK d \in Deque : StealReadTop(p, d)
    BY <1>1 DEF ThiefStep, StealReadOld, StealReadBottom, StealReadArray, StealRecheck,
       StealReadSlot, StealCas, ThiefAt
  <2>2. thief'[p].pc = "old"
    BY <1>t, <2>1, CallLocals
  <2> QED BY <2>2 DEF LastSteal
<1> SUFFICES ASSUME h.pc # "idle"
             PROVE  /\ LastSteal(h)'
                    /\ thief'[p].pc = "idle" /\ thief'[p].res = "EMPTY" => Window(Shared) = {}
  BY <1>1
<1>2. h.d = Shared /\ h.t \in Int /\ h.b \in Int /\ h.t <= top[Shared]
  BY StealsShared
<1>3. ASSUME thief'[p].pc = "array"  PROVE thief'[p].b = bottom[Shared]
  <2>1. StealReadBottom(p)
    BY <1>t, <1>3, CallLocals
       DEF ThiefStep, StealRecheck, StealCas, StealReturns, IdleThief, ThiefGoes, TypeOK
  <2> QED BY <1>t, <1>2, <2>1, CallLocals
<1>4. ASSUME thief'[p].pc = "recheck"
      PROVE  /\ thief'[p].b = bottom[Shared] /\ thief'[p].a = active[Shared]
             /\ thief'[p].t < thief'[p].b
             /\ Ambiguous(thief'[p].b - thief'[p].t, active[Shared])
  <2>1. StealReadArray(p)
    BY <1>t, <1>4, CallLocals, SMTT(30)
       DEF ThiefStep, StealRecheck, StealCas, StealReturns, IdleThief, ThiefGoes, TypeOK
  <2> QED BY <1>t, <1>2, <1>4, <2>1, CallLocals DEF LastSteal
<1>5. LastSteal(h)'
  BY <1>t, <1>3, <1>4 DEF LastSteal, Ambiguous
<1>6. ASSUME thief'[p].pc = "idle", thief'[p].res = "EMPTY"
      PROVE  Window(Shared) = {}
  <2>1. CASE h.pc = "array" /\ h.b - h.t <= 0
    <3>1. bottom[Shared] <= top[Shared]
      BY <1>s, <1>2, <2>1 DEF LastSteal
    <3> QED BY <3>1, EmptyWindow
  <2>2. CASE h.pc = "recheck" /\ SnapshotsAgree(h)
    <3> DEFINE n == bottom[Shared] - top[Shared]
               c == Capacity[active[Shared]]
    <3>1. h.t = top[Shared] /\ h.t < bottom[Shared] /\ n % c = 0
      BY <1>2, <2>2 DEF LastSteal, SnapshotsAgree, Ambiguous
    <3>2. n < c /\ n > 0 /\ n \in Int
      BY <1>s, <3>1
    <3>3. c \in Nat \ {0}
      BY <1>s, RecordFacts
    <3> HIDE DEF n, c
    <3>4. n % c = n
      BY <3>2, <3>3
    <3> QED BY <3>1, <3>2, <3>4
  <2> QED BY <1>t, <1>6, <2>1, <2>2, CallResults
<1> QED BY <1>5, <1>6

\* A steal leaves the owner where it is; a worker that leaves has found the
\* deque empty, and it stays empty for those who left before.
LEMMA WorkerStealKept ==
  ASSUME StructureInv, StructureInv', BenchmarkInv, NEW p \in Thief, WorkerSteal(p)
  PROVE  BenchmarkInv'
<1>1. /\ at[p] = "steal" /\ ThiefStep(p) /\ UNCHANGED <<phase, done, saw>>
      /\ WorkloadType /\ OwnerPhase /\ \A q \in Thief : WorkerPhase(q)
  BY DEF WorkerSteal, BenchmarkInv
<1>2. PICK next \in {"check", "steal", "left"} :
        /\ at' = [at EXCEPT ![p] = next]
        /\ thief'[p].pc # "idle" => next = "steal"
        /\ thief'[p].pc = "idle" /\ next = "left" => thief'[p].res = "EMPTY" /\ saw[p]
  BY DEF WorkerSteal, MayLeave
<1>3. /\ UNCHANGED <<owner, active, bottom, base, pushed>>
      /\ \A q \in Thief \ {p} : thief'[q] = thief[q]
      /\ Shared \in Deque
  BY <1>1, ThiefStepFrame, SharedFacts
     DEF ThiefStep, StealReadTop, StealReadOld, StealReadBottom, StealReadArray, StealRecheck,
         StealReadSlot, StealCas, history
<1>4. phase \notin {"drain", "finished"}
  BY <1>1 DEF OwnerPhase
<1>5. done => owner[Shared].pc = "idle"
  BY <1>1, <1>4 DEF OwnerPhase
<1>6. WorkloadType'
  BY <1>1, <1>2 DEF WorkloadType
<1>7. OwnerPhase'
  BY <1>1, <1>3, <1>4 DEF OwnerPhase, Live
<1>8. ASSUME done, Window(Shared) = {}  PROVE Window(Shared)' = {}
  <2>1. Live(Shared)
    BY <1>5, <1>8 DEF Live
  <2>2. top'[Shared] >= top[Shared]
    BY <1>1, <1>3, <2>1, TopForward DEF Next
  <2>3. bottom[Shared] <= top[Shared]
    BY <1>5, <1>8, EmptyWindow
  <2>4. top'[Shared] \in Int
    BY <1>3 DEF StructureInv, TypeOK
  <2>5. Window(Shared)' = top'[Shared] .. bottom[Shared] - 1
    BY <1>3, <1>5, <1>8 DEF Window, LogicalBottom, Shifted
  <2> QED BY <2>2, <2>3, <2>4, <2>5, SharedFacts
<1>9. ASSUME NEW q \in Thief  PROVE WorkerPhase(q)'
  <2>1. WorkerPhase(q)
    BY <1>1
  <2>2. CASE q # p
    <3>1. at'[q] = at[q] /\ thief'[q] = thief[q]
      BY <1>1, <1>2, <1>3, <2>2 DEF WorkloadType
    <3> QED BY <1>1, <1>3, <1>8, <2>1, <3>1 DEF WorkerPhase, LastSteal, Ambiguous
  <2>3. CASE q = p
    <3>1. at'[p] = next
      BY <1>1, <1>2 DEF WorkloadType
    <3>2. saw[p] => LastSteal(thief[p])'
      BY <1>1, <1>5, LastStealStep DEF WorkerPhase
    <3>3. at'[p] = "left" => saw[p] /\ Window(Shared) = {}
      BY <1>1, <1>2, <1>5, <3>1, LastStealStep DEF WorkerPhase
    <3>4. saw[p] => done
      BY <1>1 DEF WorkerPhase
    <3> QED BY <1>1, <1>2, <1>8, <2>3, <3>1, <3>2, <3>3, <3>4 DEF WorkerPhase
  <2> QED BY <2>2, <2>3
<1> QED BY <1>6, <1>7, <1>9 DEF BenchmarkInv

-----------------------------------------------------------------------------
(* The theorems.                                                           *)

\* What the benchmark does to its deque, the deque allows.
LEMMA BenchmarkIsSpec == BenchmarkSpec => Spec
<1>1. BenchmarkInit => Init
  BY DEF BenchmarkInit
<1>2. [BenchmarkNext]_benchmarkVars => [Next]_vars
  BY WorkloadAssumption
     DEF BenchmarkNext, OwnerThread, WorkerThread, Setup, PushAll, SetDone, Join, Drain, LoadDone,
         WorkerSteal, benchmarkVars, Next, OwnerStep
<1> QED BY <1>1, <1>2, PTL DEF BenchmarkSpec, Spec

\* Every phase of the benchmark keeps the invariant.
LEMMA BenchmarkKept == BenchmarkSpec => [](StructureInv /\ ItemInv /\ BenchmarkInv)
<1>1. /\ StructureInv /\ StructureInv' /\ BenchmarkInv /\ [BenchmarkNext]_benchmarkVars
      => BenchmarkInv'
  <2> SUFFICES ASSUME StructureInv, StructureInv', BenchmarkInv, [BenchmarkNext]_benchmarkVars
               PROVE  BenchmarkInv'
    OBVIOUS
  <2>1. CASE OwnerThread
    BY <2>1, SetupKept, PushAllKept, SetDoneKept, JoinKept, DrainKept DEF OwnerThread
  <2>2. ASSUME NEW p \in Thief, WorkerThread(p)  PROVE BenchmarkInv'
    BY <2>2, LoadDoneKept, WorkerStealKept DEF WorkerThread
  <2>3. CASE UNCHANGED benchmarkVars
    <3>1. UNCHANGED <<phase, done, at, saw, owner, thief, top, bottom, active, base, pushed>>
      BY <2>3 DEF benchmarkVars, benchmark, vars, indexVars, history
    <3>2. OwnerPhase' /\ WorkloadType'
      BY <3>1 DEF BenchmarkInv, OwnerPhase, WorkloadType, Live, Window, LogicalBottom, Shifted
    <3>3. \A p \in Thief : WorkerPhase(p)'
      BY <3>1, WorkerPhaseSame DEF BenchmarkInv
    <3> QED BY <3>2, <3>3 DEF BenchmarkInv
  <2> QED BY <2>1, <2>2, <2>3 DEF BenchmarkNext
<1>2. BenchmarkSpec => BenchmarkInit /\ [][BenchmarkNext]_benchmarkVars
  BY DEF BenchmarkSpec
<1> QED BY <1>1, <1>2, InitBenchmark, BenchmarkIsSpec, ItemsForever, PTL

\* A worker leaves only when nothing waits and nothing will be pushed, since
\* it had read done before the steal that came back EMPTY.
THEOREM WorkersLeaveNothing == BenchmarkSpec => []LeftMeansEmpty
<1>1. BenchmarkInv => LeftMeansEmpty
  BY DEF BenchmarkInv, WorkerPhase, LeftMeansEmpty
<1> QED BY <1>1, BenchmarkKept, PTL

\* What contains_each_value() tests at the end of the benchmark: each pushed
\* item was counted once, whoever got it and however often a push failed.
THEOREM BenchmarkCounts == BenchmarkSpec => []EachCounted
<1>1. StructureInv /\ ItemInv /\ BenchmarkInv => EachCounted
  <2> SUFFICES ASSUME StructureInv, ItemInv, BenchmarkInv, phase = "finished", NEW v \in Value
               PROVE  returned[Shared][v] = IF v \in Present(Shared) THEN 1 ELSE 0
    BY DEF EachCounted
  <2>1. Shared \in Deque /\ owner[Shared].pc = "idle" /\ base[Shared] = 0
    BY WorkloadAssumption DEF BenchmarkInv, OwnerPhase
  <2>3. Window(Shared) = {}
    BY DEF BenchmarkInv, OwnerPhase
  <2>4. Pending(Shared) = {} /\ Held(Shared) = {}
    BY <2>1, <2>3 DEF Pending, Held
  <2>5. ItemsKept(Shared) /\ ReturnedOnce(Shared)
    BY <2>1 DEF ItemInv, HeldInv, Contents, Live
  <2>6. CASE v \in Present(Shared)
    BY <2>4, <2>5, <2>6 DEF ItemsKept
  <2>7. CASE v \notin Present(Shared)
    <3>1. Present(Shared) = {<<Shared, k>> : k \in 1..pushed[Shared]}
      BY <2>1 DEF Present
    <3>2. returned[Shared][v] <= 0 /\ returned[Shared][v] \in Nat
      BY <2>1, <2>5, <2>7, <3>1 DEF ReturnedOnce, StructureInv, TypeOK
    <3> QED BY <2>7, <3>2
  <2> QED BY <2>6, <2>7
<1> QED BY <1>1, BenchmarkKept, PTL
=============================================================================
