------------------------- MODULE WorkStealingDeque -------------------------
(***************************************************************************)
(* The lock-free work-stealing deques of src/work_stealing_deque.h, any    *)
(* number of them sharing one buffer pool.  Each deque has one owner       *)
(* thread, which constructs it, pushes and pops at the bottom and destroys *)
(* it; any thief may steal at the top of any live deque.                   *)
(*                                                                         *)
(* Every access to a location that another thread can write, or that       *)
(* another thread can read while it changes, is a step of its own.  What   *)
(* a thread does with its own locals, with its own last value of bottom_   *)
(* and active_array_, and with the slots and metadata of buffers it owns   *)
(* and only reads, belongs to the step before or after it.                 *)
(*                                                                         *)
(* The deque's shared accesses are all memory_order_seq_cst, so steps      *)
(* interleave over one memory.  The pool flags are acquire/release; each   *)
(* hands over one record, and a claim reads the latest flag.               *)
(***************************************************************************)
EXTENDS BufferPool

CONSTANTS
  Deque,         \* the deques, each with its owner thread
  Thief,         \* the threads that steal
  InitCapacity,  \* InitCapacity[d]: capacity of the deque's first buffer
  K,             \* shrink factor
  MaxItems,      \* bound: MaxItems[d] items are ever pushed into d
  Ephemeral,     \* bound: the deques that are destroyed, and perhaps built again
  NoDeque        \* a thief that is in no call

ASSUME DequeAssumption ==
  /\ InitCapacity \in [Deque -> Nat \ {0}]
  /\ K \in Nat /\ K >= 3
  /\ MaxItems \in [Deque -> Nat]
  /\ Ephemeral \subseteq Deque
  /\ NoDeque \notin Deque

\* An item is the k-th successful push into d: all items are distinct.
Item == UNION {{d} \X (1..MaxItems[d]) : d \in Deque}

ASSUME ValueAssumption == Value = Item \cup {Zero} /\ Zero \notin Item

VARIABLES
  top, bottom,  \* the atomic indices top_ and bottom_
  active,       \* the atomic pointer active_array_
  cachedTop,    \* cached_top_, owner only
  owner,        \* owner[d]: pc and locals of the owner thread
  thief,        \* thief[p]: pc and locals of a thief
  pushed,       \* history: items ever pushed into d
  base,         \* history: items pushed into d before this construction
  returned      \* history: how often a call on d returned the value v

indexVars == <<top, bottom, active, cachedTop>>
history == <<pushed, base, returned>>
vars == <<poolVars, indexVars, owner, thief, history>>

IdleOwner == [pc |-> "idle", a |-> NoRecord, b |-> 0, t |-> 0, dst |-> NoRecord,
              i |-> 0, mark |-> NoMark, snap |-> 0, x |-> Zero, left |-> {}]

IdleThief == [pc |-> "idle", d |-> NoDeque, t |-> 0, old |-> NoRecord,
              b |-> 0, a |-> NoRecord, x |-> Zero, res |-> "none"]

Init ==
  /\ PoolInit
  /\ top = [d \in Deque |-> 0]
  /\ bottom = [d \in Deque |-> 0]
  /\ active = [d \in Deque |-> NoRecord]
  /\ cachedTop = [d \in Deque |-> 0]
  /\ owner = [d \in Deque |-> [IdleOwner EXCEPT !.pc = "none"]]
  /\ thief = [p \in Thief |-> IdleThief]
  /\ pushed = [d \in Deque |-> 0]
  /\ base = [d \in Deque |-> 0]
  /\ returned = [d \in Deque |-> [v \in Value |-> 0]]

\* Constructed, and its destructor not yet called.
Live(d) == owner[d].pc \notin {"none", "construct", "destroy"}

\* The owner moves on without returning from its call.
OwnerAt(d, from) == owner[d].pc = from
OwnerGoes(d, locals) == owner' = [owner EXCEPT ![d] = locals]
OwnerReturns(d) == OwnerGoes(d, IdleOwner)

Deliver(d, v) == returned' = [returned EXCEPT ![d][v] = @ + 1]

\* Faulty variant: a load and a store in place of the compare-and-swap.
CasTopBlind(d, expected, desired) == top' = [top EXCEPT ![d] = desired]

\* cas_top(): the compare-and-swap as seen by its caller.
CasTop(d, expected, desired) ==
  /\ top[d] = expected
  /\ top' = [top EXCEPT ![d] = desired]
CasTopFails(d, expected) ==
  /\ top[d] # expected
  /\ UNCHANGED top

-----------------------------------------------------------------------------
(* Construction and destruction.                                           *)

Construct(d) ==
  /\ OwnerAt(d, "none")
  /\ OwnerGoes(d, [IdleOwner EXCEPT !.pc = "construct", !.left = SizeClass(InitCapacity[d])])
  /\ UNCHANGED <<poolVars, indexVars, thief, history>>

ConstructClaim(d) ==
  /\ OwnerAt(d, "construct")
  /\ \E r \in owner[d].left :
       /\ IsNext(r, owner[d].left)
       /\ Claim(r, NoRecord)
       /\ active' = [active EXCEPT ![d] = r]
  /\ top' = [top EXCEPT ![d] = 0]
  /\ bottom' = [bottom EXCEPT ![d] = 0]
  /\ cachedTop' = [cachedTop EXCEPT ![d] = 0]
  /\ base' = [base EXCEPT ![d] = pushed[d]]
  /\ OwnerReturns(d)
  /\ UNCHANGED <<thief, pushed, returned>>

ConstructScan(d) ==
  /\ OwnerAt(d, "construct")
  /\ \E r \in owner[d].left :
       /\ IsNext(r, owner[d].left)
       /\ ClaimFails(r)
       /\ OwnerGoes(d, [owner[d] EXCEPT !.left = @ \ {r}])
  /\ UNCHANGED <<indexVars, thief, history>>

\* std::bad_alloc: no record of the initial class could be claimed.
ConstructFails(d) ==
  /\ OwnerAt(d, "construct")
  /\ owner[d].left = {}
  /\ OwnerGoes(d, [IdleOwner EXCEPT !.pc = "none"])
  /\ UNCHANGED <<poolVars, indexVars, thief, history>>

\* The documented shutdown order: every thief has left this deque for good.
Destroy(d) ==
  /\ OwnerAt(d, "idle")
  /\ d \in Ephemeral
  /\ \A p \in Thief : thief[p].d # d
  /\ OwnerGoes(d, [IdleOwner EXCEPT !.pc = "destroy", !.dst = active[d]])
  /\ UNCHANGED <<poolVars, indexVars, thief, history>>

\* Faulty variant: only the active buffer is returned.
DestroyReleaseActive(d) ==
  /\ OwnerAt(d, "destroy")
  /\ Release(owner[d].dst)
  /\ OwnerGoes(d, [IdleOwner EXCEPT !.pc = "none"])
  /\ active' = [active EXCEPT ![d] = NoRecord]
  /\ UNCHANGED <<top, bottom, cachedTop, thief, history>>

\* release_chain(): one buffer per step, prev_ read before the release.
DestroyRelease(d) ==
  /\ OwnerAt(d, "destroy")
  /\ LET r == owner[d].dst IN
       /\ Release(r)
       /\ OwnerGoes(d, IF buf[r].prev = NoRecord
                       THEN [IdleOwner EXCEPT !.pc = "none"]
                       ELSE [owner[d] EXCEPT !.dst = buf[r].prev])
       /\ active' = [active EXCEPT ![d] = IF buf[r].prev = NoRecord THEN NoRecord ELSE @]
  /\ UNCHANGED <<top, bottom, cachedTop, thief, history>>

-----------------------------------------------------------------------------
(* try_push_bottom().                                                      *)

\* Faulty variant: an array may become full.
NeedsRoomLate(r, b, t) == b - t >= Capacity[r]

\* At most one slot short of full, seen from a lower bound t of top_.
NeedsRoom(r, b, t) == b - t >= Capacity[r] - 1

TryPush(d) ==
  /\ OwnerAt(d, "idle")
  /\ pushed[d] < MaxItems[d]
  /\ OwnerGoes(d, [IdleOwner EXCEPT
       !.pc = IF NeedsRoom(active[d], bottom[d], cachedTop[d]) THEN "pushTop" ELSE "pushSlot",
       !.a = active[d], !.b = bottom[d], !.x = <<d, pushed[d] + 1>>])
  /\ UNCHANGED <<poolVars, indexVars, thief, history>>

PushReadTop(d) ==
  /\ OwnerAt(d, "pushTop")
  /\ cachedTop' = [cachedTop EXCEPT ![d] = top[d]]
  /\ LET o == [owner[d] EXCEPT !.t = top[d]] IN
       OwnerGoes(d, IF NeedsRoom(o.a, o.b, o.t)
                    THEN [o EXCEPT !.pc = "grow", !.left = SizeClass(2 * Capacity[o.a])]
                    ELSE [o EXCEPT !.pc = "pushSlot"])
  /\ UNCHANGED <<poolVars, top, bottom, active, thief, history>>

\* The claimed record is linked in front of the active one (grow_into).
GrowClaim(d) ==
  /\ OwnerAt(d, "grow")
  /\ \E r \in owner[d].left :
       /\ IsNext(r, owner[d].left)
       /\ Claim(r, owner[d].a)
       /\ OwnerGoes(d, [owner[d] EXCEPT !.pc = "growCopy", !.dst = r, !.i = owner[d].t, !.left = {}])
  /\ UNCHANGED <<indexVars, thief, history>>

GrowScan(d) ==
  /\ OwnerAt(d, "grow")
  /\ \E r \in owner[d].left :
       /\ IsNext(r, owner[d].left)
       /\ ClaimFails(r)
       /\ OwnerGoes(d, [owner[d] EXCEPT !.left = @ \ {r}])
  /\ UNCHANGED <<indexVars, thief, history>>

\* PushResult::NO_BUFFER_ACQUIRED: the caller keeps the item.
PushFails(d) ==
  /\ OwnerAt(d, "grow")
  /\ owner[d].left = {}
  /\ OwnerReturns(d)
  /\ UNCHANGED <<poolVars, indexVars, thief, history>>

GrowCopy(d) ==
  /\ OwnerAt(d, "growCopy")
  /\ LET o == owner[d] IN
       /\ o.i < o.b
       /\ StoreNoMark(o.dst, o.i, Load(o.a, o.i))
       /\ OwnerGoes(d, [o EXCEPT !.i = @ + 1])
  /\ UNCHANGED <<state, indexVars, thief, history>>

\* Faulty variant: the new array is published before the copy is complete.
GrowPublishEarly(d) ==
  /\ OwnerAt(d, "growCopy")
  /\ LET o == owner[d] IN
       /\ active' = [active EXCEPT ![d] = o.dst]
       /\ OwnerGoes(d, [o EXCEPT !.pc = "pushSlot", !.a = o.dst])
  /\ UNCHANGED <<poolVars, top, bottom, cachedTop, thief, history>>

GrowPublish(d) ==
  /\ OwnerAt(d, "growCopy")
  /\ LET o == owner[d] IN
       /\ o.i >= o.b
       /\ active' = [active EXCEPT ![d] = o.dst]
       /\ OwnerGoes(d, [o EXCEPT !.pc = "pushSlot", !.a = o.dst])
  /\ UNCHANGED <<poolVars, top, bottom, cachedTop, thief, history>>

PushSlot(d) ==
  /\ OwnerAt(d, "pushSlot")
  /\ Store(owner[d].a, owner[d].b, owner[d].x)
  /\ OwnerGoes(d, [owner[d] EXCEPT !.pc = "pushBottom"])
  /\ UNCHANGED <<state, indexVars, thief, history>>

PushBottom(d) ==
  /\ OwnerAt(d, "pushBottom")
  /\ bottom' = [bottom EXCEPT ![d] = owner[d].b + 1]
  /\ pushed' = [pushed EXCEPT ![d] = @ + 1]
  /\ OwnerReturns(d)
  /\ UNCHANGED <<poolVars, top, active, cachedTop, thief, base, returned>>

-----------------------------------------------------------------------------
(* pop_bottom().                                                           *)

Pop(d) ==
  /\ OwnerAt(d, "idle")
  /\ bottom' = [bottom EXCEPT ![d] = @ - 1]
  /\ OwnerGoes(d, [IdleOwner EXCEPT !.pc = "popTop", !.a = active[d], !.b = bottom[d] - 1])
  /\ UNCHANGED <<poolVars, top, active, cachedTop, thief, history>>

\* Faulty variant: shrinks as soon as the array is not full.
CanShrinkTight(d, cursor, b, t) ==
  /\ Capacity[cursor] > InitCapacity[d]
  /\ b - t < Capacity[cursor]
  /\ buf[cursor].prev # NoRecord

\* One more array of the chain may be skipped: the loop of perhaps_shrink().
CanShrink(d, cursor, b, t) ==
  /\ Capacity[cursor] > InitCapacity[d]
  /\ b - t < Capacity[cursor] \div K
  /\ buf[cursor].prev # NoRecord

\* The owner compares its new bottom with top_.  A shrink starts with the
\* first array it can skip.
PopReadTop(d) ==
  /\ OwnerAt(d, "popTop")
  /\ cachedTop' = [cachedTop EXCEPT ![d] = top[d]]
  /\ LET o == [owner[d] EXCEPT !.t = top[d]]
         x == Load(o.a, o.b)
         prev == buf[o.a].prev
     IN \/ /\ o.b < o.t
           /\ OwnerGoes(d, [o EXCEPT !.pc = "popRestore"])
           /\ UNCHANGED returned
        \/ /\ o.b = o.t
           /\ OwnerGoes(d, [o EXCEPT !.pc = "popCas", !.x = x])
           /\ UNCHANGED returned
        \/ /\ o.b > o.t
           /\ ~CanShrink(d, o.a, o.b, o.t)
           /\ Deliver(d, x)
           /\ OwnerReturns(d)
        \/ /\ o.b > o.t
           /\ CanShrink(d, o.a, o.b, o.t)
           /\ OwnerGoes(d, [o EXCEPT !.pc = "shrinkWalk", !.x = x, !.dst = prev,
                                     !.mark = MinMark(buf[o.a].low, buf[prev].low)])
           /\ UNCHANGED returned
  /\ UNCHANGED <<poolVars, top, bottom, active, thief, pushed, base>>

\* Faulty variant: an empty pop leaves bottom_ lowered.
PopRestoreSkipped(d) ==
  /\ OwnerAt(d, "popRestore")
  /\ OwnerReturns(d)
  /\ UNCHANGED <<poolVars, indexVars, thief, history>>

\* Empty: bottom_ catches up with top_, nullopt.
PopRestore(d) ==
  /\ OwnerAt(d, "popRestore")
  /\ bottom' = [bottom EXCEPT ![d] = owner[d].t]
  /\ OwnerReturns(d)
  /\ UNCHANGED <<poolVars, top, active, cachedTop, thief, history>>

\* The race for the last item.
PopCas(d) ==
  /\ OwnerAt(d, "popCas")
  /\ LET t == owner[d].t IN
       \/ /\ CasTop(d, t, t + 1)
          /\ OwnerGoes(d, [owner[d] EXCEPT !.pc = "popWon"])
       \/ /\ CasTopFails(d, t)
          /\ OwnerGoes(d, [owner[d] EXCEPT !.pc = "popLost"])
  /\ UNCHANGED <<poolVars, bottom, active, cachedTop, thief, history>>

\* Faulty variant: bottom_ does not follow top_ past the last item.
PopSettleLow(d) ==
  /\ bottom' = [bottom EXCEPT ![d] = owner[d].t]
  /\ \/ /\ OwnerAt(d, "popWon")
        /\ Deliver(d, owner[d].x)
     \/ /\ OwnerAt(d, "popLost")
        /\ UNCHANGED returned
  /\ OwnerReturns(d)
  /\ UNCHANGED <<poolVars, top, active, cachedTop, thief, pushed, base>>

PopSettle(d) ==
  /\ bottom' = [bottom EXCEPT ![d] = owner[d].t + 1]
  /\ \/ /\ OwnerAt(d, "popWon")
        /\ Deliver(d, owner[d].x)
     \/ /\ OwnerAt(d, "popLost")
        /\ UNCHANGED returned
  /\ OwnerReturns(d)
  /\ UNCHANGED <<poolVars, top, active, cachedTop, thief, pushed, base>>

-----------------------------------------------------------------------------
(* perhaps_shrink(): only the owner walks the chain and copies; the switch *)
(* of arrays is made safe by moving both indices by the new capacity.      *)

\* One array further down the chain, with the lowest mark so far.
ShrinkWalk(d) ==
  /\ OwnerAt(d, "shrinkWalk")
  /\ LET o == owner[d]
         next == buf[o.dst].prev
     IN /\ CanShrink(d, o.dst, o.b, o.t)
        /\ OwnerGoes(d, [o EXCEPT !.dst = next, !.mark = MinMark(@, buf[next].low)])
  /\ UNCHANGED <<poolVars, indexVars, thief, history>>

ShrinkStart(d) ==
  /\ OwnerAt(d, "shrinkWalk")
  /\ LET o == owner[d] IN
       /\ ~CanShrink(d, o.dst, o.b, o.t)
       /\ LowerMark(o.dst, o.mark)
       /\ OwnerGoes(d, [o EXCEPT !.pc = "shrinkCopy", !.i = CopyStart(o.t, o.b, o.mark)])
  /\ UNCHANGED <<state, indexVars, thief, history>>

ShrinkCopy(d) ==
  /\ OwnerAt(d, "shrinkCopy")
  /\ LET o == owner[d] IN
       /\ o.i < o.b
       /\ StoreNoMark(o.dst, o.i, Load(o.a, o.i))
       /\ OwnerGoes(d, [o EXCEPT !.i = @ + 1])
  /\ UNCHANGED <<state, indexVars, thief, history>>

ShrinkPublish(d) ==
  /\ OwnerAt(d, "shrinkCopy")
  /\ LET o == owner[d] IN
       /\ o.i >= o.b
       /\ active' = [active EXCEPT ![d] = o.dst]
       /\ OwnerGoes(d, [o EXCEPT !.pc = "shrinkShift"])
  /\ UNCHANGED <<poolVars, top, bottom, cachedTop, thief, history>>

\* Faulty variant: the owner waits until no thief is in a call.
ShrinkShiftWaiting(d) ==
  /\ OwnerAt(d, "shrinkShift")
  /\ \A p \in Thief : thief[p].d # d
  /\ bottom' = [bottom EXCEPT ![d] = owner[d].b + Capacity[owner[d].dst]]
  /\ OwnerGoes(d, [owner[d] EXCEPT !.pc = "shrinkTop"])
  /\ UNCHANGED <<poolVars, top, active, cachedTop, thief, history>>

ShrinkShift(d) ==
  /\ OwnerAt(d, "shrinkShift")
  /\ bottom' = [bottom EXCEPT ![d] = owner[d].b + Capacity[owner[d].dst]]
  /\ OwnerGoes(d, [owner[d] EXCEPT !.pc = "shrinkTop"])
  /\ UNCHANGED <<poolVars, top, active, cachedTop, thief, history>>

ShrinkReadTop(d) ==
  /\ OwnerAt(d, "shrinkTop")
  /\ OwnerGoes(d, [owner[d] EXCEPT !.pc = "shrinkCas", !.snap = top[d]])
  /\ UNCHANGED <<poolVars, indexVars, thief, history>>

\* Faulty variant: the indices return to their old range, top_ is not moved.
ShrinkCasSkipped(d) ==
  /\ OwnerAt(d, "shrinkCas")
  /\ OwnerGoes(d, [owner[d] EXCEPT !.pc = "shrinkRestore"])
  /\ UNCHANGED <<poolVars, indexVars, thief, history>>

ShrinkCas(d) ==
  /\ OwnerAt(d, "shrinkCas")
  /\ LET o == owner[d] IN
       \/ /\ CasTop(d, o.snap, o.snap + Capacity[o.dst])
          /\ OwnerGoes(d, [o EXCEPT !.pc = "shrinkRelease"])
       \/ /\ CasTopFails(d, o.snap)
          /\ OwnerGoes(d, [o EXCEPT !.pc = "shrinkRestore"])
  /\ UNCHANGED <<poolVars, bottom, active, cachedTop, thief, history>>

\* Faulty variant: bottom_ stays shifted after a lost CAS.
ShrinkRestoreSkipped(d) ==
  /\ OwnerAt(d, "shrinkRestore")
  /\ OwnerGoes(d, [owner[d] EXCEPT !.pc = "shrinkRelease"])
  /\ UNCHANGED <<poolVars, indexVars, thief, history>>

ShrinkRestore(d) ==
  /\ OwnerAt(d, "shrinkRestore")
  /\ bottom' = [bottom EXCEPT ![d] = owner[d].b]
  /\ OwnerGoes(d, [owner[d] EXCEPT !.pc = "shrinkRelease"])
  /\ UNCHANGED <<poolVars, top, active, cachedTop, thief, history>>

\* Faulty variant: only the first of the discarded arrays is returned.
ShrinkReleaseFirst(d) ==
  /\ OwnerAt(d, "shrinkRelease")
  /\ Release(owner[d].a)
  /\ Deliver(d, owner[d].x)
  /\ OwnerReturns(d)
  /\ UNCHANGED <<indexVars, thief, pushed, base>>

\* The discarded arrays go back to the pool from the active end; the pop
\* returns its item after the last one.
ShrinkRelease(d) ==
  /\ OwnerAt(d, "shrinkRelease")
  /\ LET o == owner[d]
         next == buf[o.a].prev
     IN /\ Release(o.a)
        /\ \/ /\ next = o.dst
              /\ Deliver(d, o.x)
              /\ OwnerReturns(d)
           \/ /\ next # o.dst
              /\ OwnerGoes(d, [o EXCEPT !.a = next])
              /\ UNCHANGED returned
  /\ UNCHANGED <<indexVars, thief, pushed, base>>

-----------------------------------------------------------------------------
(* steal().                                                                *)

ThiefAt(p, from) == thief[p].pc = from
ThiefGoes(p, locals) == thief' = [thief EXCEPT ![p] = locals]

\* steal() returns a StealState; the thief keeps nothing else of its attempt.
StealReturns(p, result) == ThiefGoes(p, [IdleThief EXCEPT !.res = result])

StealReadTop(p, d) ==
  /\ ThiefAt(p, "idle")
  /\ Live(d)
  /\ ThiefGoes(p, [IdleThief EXCEPT !.pc = "old", !.d = d, !.t = top[d]])
  /\ UNCHANGED <<poolVars, indexVars, owner, history>>

StealReadOld(p) ==
  /\ ThiefAt(p, "old")
  /\ ThiefGoes(p, [thief[p] EXCEPT !.pc = "bottom", !.old = active[thief[p].d]])
  /\ UNCHANGED <<poolVars, indexVars, owner, history>>

StealReadBottom(p) ==
  /\ ThiefAt(p, "bottom")
  /\ ThiefGoes(p, [thief[p] EXCEPT !.pc = "array", !.b = bottom[thief[p].d]])
  /\ UNCHANGED <<poolVars, indexVars, owner, history>>

\* Faulty variants: the shifted bottom_ is forgotten; off by one.
NeverAmbiguous(size, r) == FALSE
AmbiguousAboveZero(size, r) == size % Capacity[r] <= 1

\* A shrink leaves bottom_ one capacity ahead for a while: a size that is a
\* multiple of the capacity may stand for an empty deque.
Ambiguous(size, r) == size % Capacity[r] = 0

\* The second array snapshot, and the size test on the three snapshots.
StealReadArray(p) ==
  /\ ThiefAt(p, "array")
  /\ LET h == [thief[p] EXCEPT !.a = active[thief[p].d]]
         size == h.b - h.t
     IN \/ size <= 0 /\ StealReturns(p, "EMPTY")
        \/ /\ size > 0
           /\ Ambiguous(size, h.a)
           /\ ThiefGoes(p, [h EXCEPT !.pc = "recheck"])
        \/ /\ size > 0
           /\ ~Ambiguous(size, h.a)
           /\ ThiefGoes(p, [h EXCEPT !.pc = "slot"])
  /\ UNCHANGED <<poolVars, indexVars, owner, history>>

\* Faulty variants: without the first array snapshot; with the test inverted.
TopUnmoved(h) == h.t = top[h.d]
TopMoved(h) == h.a = h.old /\ h.t # top[h.d]

SnapshotsAgree(h) == h.a = h.old /\ h.t = top[h.d]

StealRecheck(p) ==
  /\ ThiefAt(p, "recheck")
  /\ \/ SnapshotsAgree(thief[p]) /\ StealReturns(p, "EMPTY")
     \/ ~SnapshotsAgree(thief[p]) /\ StealReturns(p, "ABORT")
  /\ UNCHANGED <<poolVars, indexVars, owner, history>>

\* The speculative read: the buffer may already belong to another deque.
StealReadSlot(p) ==
  /\ ThiefAt(p, "slot")
  /\ ThiefGoes(p, [thief[p] EXCEPT !.pc = "cas", !.x = Load(thief[p].a, thief[p].t)])
  /\ UNCHANGED <<poolVars, indexVars, owner, history>>

StealCas(p) ==
  /\ ThiefAt(p, "cas")
  /\ LET h == thief[p] IN
       \/ /\ CasTop(h.d, h.t, h.t + 1)
          /\ Deliver(h.d, h.x)
          /\ StealReturns(p, "SUCCESS")
       \/ /\ CasTopFails(h.d, h.t)
          /\ StealReturns(p, "ABORT")
          /\ UNCHANGED returned
  /\ UNCHANGED <<poolVars, bottom, active, cachedTop, owner, pushed, base>>

-----------------------------------------------------------------------------
LifeStep(d) ==
  \/ Construct(d) \/ ConstructClaim(d) \/ ConstructScan(d) \/ ConstructFails(d)
  \/ Destroy(d) \/ DestroyRelease(d)

PushStep(d) ==
  \/ TryPush(d) \/ PushReadTop(d) \/ GrowClaim(d) \/ GrowScan(d) \/ PushFails(d)
  \/ GrowCopy(d) \/ GrowPublish(d) \/ PushSlot(d) \/ PushBottom(d)

PopStep(d) ==
  \/ Pop(d) \/ PopReadTop(d) \/ PopRestore(d) \/ PopCas(d) \/ PopSettle(d)

ShrinkStep(d) ==
  \/ ShrinkWalk(d) \/ ShrinkStart(d) \/ ShrinkCopy(d) \/ ShrinkPublish(d)
  \/ ShrinkShift(d) \/ ShrinkReadTop(d) \/ ShrinkCas(d) \/ ShrinkRestore(d)
  \/ ShrinkRelease(d)

OwnerStep(d) == LifeStep(d) \/ PushStep(d) \/ PopStep(d) \/ ShrinkStep(d)

ThiefStep(p) ==
  \/ \E d \in Deque : StealReadTop(p, d)
  \/ StealReadOld(p) \/ StealReadBottom(p) \/ StealReadArray(p)
  \/ StealRecheck(p) \/ StealReadSlot(p) \/ StealCas(p)

Next == (\E d \in Deque : OwnerStep(d)) \/ (\E p \in Thief : ThiefStep(p))

Spec == Init /\ [][Next]_vars
=============================================================================
