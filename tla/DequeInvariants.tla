--------------------------- MODULE DequeInvariants ---------------------------
(***************************************************************************)
(* What makes the deques of WorkStealingDeque correct, as invariants.      *)
(***************************************************************************)
EXTENDS WorkStealingDeque

\* Between the shifted store of bottom_ and the outcome of the shrink CAS,
\* bottom_ is one capacity ahead of the deque's real end.
Shifted(d) == owner[d].pc \in {"shrinkTop", "shrinkCas", "shrinkRestore"}

LogicalBottom(d) == IF Shifted(d) THEN owner[d].b ELSE bottom[d]

\* The logical indices of the items that wait in the deque.
Window(d) == top[d] .. LogicalBottom(d) - 1

ItemAt(d, i) == Load(active[d], i)

\* A pop that has lowered bottom_ to b and not yet seen top_, or that races
\* for the item at b, may still lose that item to a thief.
Contended(d) ==
  \/ owner[d].pc = "popTop" /\ top[d] = owner[d].b
  \/ owner[d].pc = "popCas" /\ top[d] = owner[d].t

\* The item a pop in progress will return unless a thief gets it first.
Held(d) ==
  LET o == owner[d] IN
  CASE o.pc = "popTop" -> IF top[d] <= o.b THEN {ItemAt(d, o.b)} ELSE {}
    [] o.pc = "popCas" -> IF top[d] = o.t THEN {o.x} ELSE {}
    [] o.pc \in {"popWon", "shrinkWalk", "shrinkCopy", "shrinkShift", "shrinkTop",
                 "shrinkCas", "shrinkRestore", "shrinkRelease"} -> {o.x}
    [] OTHER -> {}

Pending(d) == {ItemAt(d, i) : i \in Window(d)}

\* The items pushed since the deque's construction.
Present(d) == {<<d, k>> : k \in base[d] + 1 .. pushed[d]}
-----------------------------------------------------------------------------
OwnerPC ==
  {"none", "construct", "destroy", "idle",
   "pushTop", "grow", "growCopy", "pushSlot", "pushBottom",
   "popTop", "popRestore", "popCas", "popWon", "popLost",
   "shrinkWalk", "shrinkCopy", "shrinkShift", "shrinkTop", "shrinkCas",
   "shrinkRestore", "shrinkRelease"}

OwnerType ==
  [pc: OwnerPC, a: Record \cup {NoRecord}, b: Int, t: Int, dst: Record \cup {NoRecord},
   i: Int, mark: Nat \cup {NoMark}, snap: Int, x: Value, left: SUBSET Record]

ThiefType ==
  [pc: {"idle", "old", "bottom", "array", "recheck", "slot", "cas"},
   d: Deque \cup {NoDeque}, t: Int, old: Record \cup {NoRecord}, b: Int,
   a: Record \cup {NoRecord}, x: Value, res: {"none", "SUCCESS", "EMPTY", "ABORT"}]

\* Every variable has its type: buffers keep their capacity, indices are
\* integers (bottom_ is -1 while the pop of a new deque is under way).
TypeOK ==
  /\ PoolTypeOK
  /\ top \in [Deque -> Int]
  /\ bottom \in [Deque -> Int]
  /\ active \in [Deque -> Record \cup {NoRecord}]
  /\ cachedTop \in [Deque -> Int]
  /\ owner \in [Deque -> OwnerType]
  /\ thief \in [Thief -> ThiefType]
  /\ pushed \in [Deque -> Nat]
  /\ base \in [Deque -> Nat]
  /\ returned \in [Deque -> [Value -> Nat]]
-----------------------------------------------------------------------------
\* No item is returned twice, by two thieves, by a thief and the owner, or
\* again after a shrink moved the indices; and a deque returns only items
\* that were pushed into it, never a slot's initial value, a leftover of an
\* earlier use of the buffer or an item of another deque.
AtMostOnce ==
  \A d \in Deque, v \in Value :
    returned[d][v] <= IF \E k \in 1..pushed[d] : v = <<d, k>> THEN 1 ELSE 0

\* Every pushed item is returned, still in the deque, or in the hands of a
\* pop: growing, shrinking and losing a race lose nothing.
NothingLost ==
  \A d \in Deque : Live(d) =>
    \A v \in Present(d) : v \in Pending(d) \cup Held(d) \/ returned[d][v] = 1

\* The deque holds its items in push order, none that was returned or that a
\* pop has taken: steals take the oldest, pops the newest.
InPushOrder ==
  \A d \in Deque : Live(d) =>
    /\ Pending(d) \cup Held(d) \subseteq {v \in Present(d) : returned[d][v] = 0}
    /\ \A i, j \in Window(d) : i < j => ItemAt(d, i)[2] < ItemAt(d, j)[2]
    /\ \A v \in Pending(d), w \in Held(d) : v[2] < w[2]

\* A thief whose CAS would succeed claims an index at which an item waits, or
\* for which the owner still has to compete: neither the shifted bottom_ of a
\* shrink nor a stale array makes a thief claim past the end.
ClaimIsThere ==
  \A p \in Thief :
    LET h == thief[p] IN
    (h.pc \in {"slot", "cas"} /\ h.t = top[h.d]) => h.t \in Window(h.d) \/ Contended(h.d)

\* What such a thief read, or is about to read, is the item at that index,
\* however stale its array pointer: a buffer that another deque borrowed is
\* never the source of a claim that succeeds.
ClaimIsCurrent ==
  \A p \in Thief :
    LET h == thief[p] IN
    (h.pc \in {"slot", "cas"} /\ h.t = top[h.d]) =>
      (IF h.pc = "cas" THEN h.x ELSE Load(h.a, h.t)) = ItemAt(h.d, h.t)

\* cached_top_ never passes top_, and the live range never fills the array:
\* a push overwrites no waiting item, and only a shrink makes bottom - top a
\* multiple of the capacity.
IndicesInRange ==
  \A d \in Deque : Live(d) =>
    /\ cachedTop[d] <= top[d]
    /\ LogicalBottom(d) - top[d] < Capacity[active[d]]
    /\ owner[d].pc = "idle" => top[d] <= bottom[d]

\* While a deque lives, no step moves top_ back: no index at which a thief's
\* snapshot was taken comes up a second time, although a shrink moves both
\* indices and a rolled back shrink moves bottom_ back.
TopNeverFalls ==
  [][\A d \in Deque : Live(d) => top'[d] >= top[d]]_vars

\* The array from which the deque's owner reaches the rest of its chain.
Root(d) ==
  LET o == owner[d] IN
  CASE o.pc \in {"none", "construct"} -> NoRecord
    [] o.pc \in {"growCopy", "destroy"} -> o.dst
    [] o.pc \in {"shrinkShift", "shrinkTop", "shrinkCas", "shrinkRestore", "shrinkRelease"} -> o.a
    [] OTHER -> active[d]

OwnedRecords == {r \in Record : state[r] = Owned}

\* Every owned record is in exactly one chain, at one place, and an available
\* one in none: no buffer has two owners, none leaks, none is freed twice.
RecordsAccounted ==
  /\ \A r \in Record :
       r \in OwnedRecords <=> \/ \E d \in Deque : Root(d) = r
                             \/ \E s \in OwnedRecords : buf[s].prev = r
  /\ \A d, e \in Deque : Root(d) = Root(e) /\ d # e => Root(d) = NoRecord
  /\ \A d \in Deque, s \in OwnedRecords : Root(d) = buf[s].prev => Root(d) = NoRecord
  /\ \A r, s \in OwnedRecords : buf[r].prev = buf[s].prev /\ r # s => buf[r].prev = NoRecord
-----------------------------------------------------------------------------
(* The inductive invariant behind TypeOK, RecordsAccounted, IndicesInRange *)
(* and ClaimIsThere: what the owner's locals and the thieves' snapshots    *)
(* still say about the chains and the indices at each program counter.     *)

PushPC == {"pushTop", "grow", "growCopy", "pushSlot", "pushBottom"}
CopyPC == {"shrinkWalk", "shrinkCopy"}
ShrinkPC == CopyPC \cup {"shrinkShift", "shrinkTop", "shrinkCas", "shrinkRestore"}

\* Each array of a chain has twice the capacity of the next one.
ChainHalves ==
  \A r \in Record : buf[r].prev # NoRecord => Capacity[r] = 2 * Capacity[buf[r].prev]

\* The records a thread is about to dereference are records.
OwnerPointers(d) ==
  LET o == owner[d] IN
  /\ o.pc \notin {"none", "construct"} => active[d] \in Record
  /\ o.pc \in {"growCopy", "destroy"} => o.dst \in Record
  /\ o.pc \in PushPC \cup {"popTop"} \cup CopyPC => o.a = active[d]
  /\ o.pc \in {"shrinkShift", "shrinkTop", "shrinkCas", "shrinkRestore", "shrinkRelease"} =>
       o.dst = active[d]
  /\ o.pc = "grow" => o.left \subseteq SizeClass(2 * Capacity[active[d]])
  /\ o.pc = "growCopy" => Capacity[o.dst] = 2 * Capacity[active[d]]

\* The arrays that a shrink discards, from o.a down to but without o.dst:
\* owned, larger than o.dst, each but the first one linked from another.
Discarded(d, arrays) ==
  LET o == owner[d] IN
  /\ o.a \in arrays
  /\ o.dst \in OwnedRecords
  /\ \A s \in arrays :
       Capacity[s] > Capacity[o.dst] /\ buf[s].prev \in arrays \cup {o.dst}
  /\ \A s \in arrays \cup {o.dst} : s = o.a \/ \E q \in arrays : buf[q].prev = s

ShrinkChain(d) ==
  owner[d].pc \in ShrinkPC \cup {"shrinkRelease"} =>
    \E arrays \in SUBSET OwnedRecords : Discarded(d, arrays)

\* top_ is never behind what the owner knows of it, bottom_ is where the
\* owner's call has brought it, and the live range fits into the array.
OwnerIndices(d) ==
  LET o == owner[d]
      c == Capacity[active[d]]
  IN
  /\ 0 <= cachedTop[d] /\ cachedTop[d] <= top[d]
  /\ Live(d) => LogicalBottom(d) - top[d] < c
  /\ o.pc \in PushPC \cup {"idle", "shrinkRelease"} => top[d] <= bottom[d]
  /\ o.pc \in PushPC \cup {"popTop"} \cup CopyPC \cup {"shrinkShift"} => bottom[d] = o.b
  /\ o.pc \in {"grow", "growCopy"} => o.t = cachedTop[d] /\ o.b - o.t < c
  /\ o.pc \in {"pushSlot", "pushBottom"} => o.b - cachedTop[d] < c - 1
  /\ o.pc = "popTop" => top[d] <= bottom[d] + 1
  /\ o.pc = "popRestore" => top[d] = bottom[d] + 1 /\ o.t = top[d]
  /\ o.pc = "popCas" => bottom[d] = o.t /\ top[d] \in {o.t, o.t + 1}
  /\ o.pc \in {"popWon", "popLost"} => bottom[d] = o.t /\ top[d] = o.t + 1
  /\ o.pc \in ShrinkPC =>
       /\ o.t < o.b /\ o.b - o.t < Capacity[o.dst]
       /\ o.t = cachedTop[d] /\ top[d] <= o.b
  /\ Shifted(d) => bottom[d] = o.b + c
  /\ o.pc = "shrinkCas" => o.snap <= top[d]

\* The item at top_ waits, or the owner competes for it.
Claimable(d) == top[d] < LogicalBottom(d) \/ Contended(d)

\* A thief read the shifted bottom_ of an empty deque: the size it computes is
\* the capacity of the array it is going to read.  The owner has not resized
\* the deque since, nor decided to: it would have seen an empty deque.
ShiftedEmpty(d, size) ==
  /\ size = Capacity[active[d]] /\ size > 1
  /\ owner[d].pc \notin {"grow", "growCopy", "shrinkShift"} \cup CopyPC

ThiefIndices(p) ==
  LET h == thief[p] IN
  h.pc # "idle" =>
    /\ h.d \in Deque /\ Live(h.d)
    /\ h.t <= top[h.d]
    /\ h.pc = "array" /\ h.t = top[h.d] /\ h.b > h.t =>
         Claimable(h.d) \/ ShiftedEmpty(h.d, h.b - h.t)
    /\ h.pc \in {"slot", "cas"} => h.a \in Record /\ (h.t = top[h.d] => Claimable(h.d))

StructureInv ==
  /\ TypeOK
  /\ ChainHalves
  /\ RecordsAccounted
  /\ \A d \in Deque : OwnerPointers(d) /\ ShrinkChain(d) /\ OwnerIndices(d)
  /\ \A p \in Thief : ThiefIndices(p)
-----------------------------------------------------------------------------
(* The inductive invariant behind AtMostOnce, NothingLost, InPushOrder and *)
(* ClaimIsCurrent: which deque holds which record, what the low-water      *)
(* marks say about the arrays below the active one, how far a copy is, and *)
(* from which arrays a claim that can still succeed may have been read.    *)

\* Assignments of the records to the deques in whose chains they are.
Holders == [Record -> Deque \cup {NoDeque}]

\* Every chain is linear: from its root down, each array links to the next
\* smaller one it holds, whose capacity divides its own.
ChainsHeld(holder) ==
  /\ \A r \in Record : r \in OwnedRecords <=> holder[r] # NoDeque
  /\ \A d \in Deque : Root(d) # NoRecord => holder[Root(d)] = d
  /\ \A r \in Record : holder[r] # NoDeque =>
       /\ Root(holder[r]) # NoRecord /\ Capacity[r] <= Capacity[Root(holder[r])]
       /\ buf[r].prev # NoRecord => holder[buf[r].prev] = holder[r]
  /\ \A r, s \in Record : holder[r] = holder[s] /\ holder[r] # NoDeque =>
       /\ Capacity[r] = Capacity[s] => r = s
       /\ Capacity[r] < Capacity[s] =>
            /\ buf[s].prev # NoRecord /\ Capacity[r] <= Capacity[buf[s].prev]
            /\ Capacity[s] % Capacity[r] = 0

\* By the mark m, no index from i on was stored; a mark as low as n.
Unstored(i, m) == m = NoMark \/ i < m
AsLow(m, n) == n = NoMark \/ (m # NoMark /\ m <= n)

\* An item that was stored in no array above r is in r too.
MarksSuffice(d, holder) ==
  \A r \in Record, i \in Window(d) :
    /\ holder[r] = d /\ Capacity[r] < Capacity[active[d]]
    /\ \A s \in Record :
         holder[s] = d /\ Capacity[r] < Capacity[s] /\ Capacity[s] <= Capacity[active[d]] =>
           Unstored(i, buf[s].low)
    => Load(r, i) = ItemAt(d, i)

\* The target of a shrink is held, the items below o.i are in both arrays of a
\* copy, and a shrink has the lowest mark of all arrays from the active one to
\* its target.
CopyUnderWay(d, holder) ==
  LET o == owner[d] IN
  /\ o.pc \in CopyPC => holder[o.dst] = d
  /\ o.pc = "growCopy" => buf[o.dst].low = NoMark
  /\ o.pc \in {"growCopy", "shrinkCopy"} =>
       /\ o.t <= o.i
       /\ \A i \in Window(d) : i < o.i => Load(o.dst, i) = ItemAt(d, i)
  /\ o.pc \in CopyPC =>
       \A s \in Record :
         holder[s] = d /\ Capacity[o.dst] <= Capacity[s] /\ Capacity[s] <= Capacity[active[d]] =>
           AsLow(IF o.pc = "shrinkWalk" THEN o.mark ELSE buf[o.dst].low, buf[s].low)

\* The items of d, as AtMostOnce, NothingLost and InPushOrder have them.
ItemsKept(d) ==
  /\ Pending(d) \cup Held(d) \subseteq {v \in Present(d) : returned[d][v] = 0}
  /\ \A i, j \in Window(d) : i < j => ItemAt(d, i)[2] < ItemAt(d, j)[2]
  /\ \A v \in Pending(d), w \in Held(d) : v[2] < w[2]
  /\ \A v \in Present(d) : v \in Pending(d) \cup Held(d) \/ returned[d][v] = 1

\* The item the owner is about to store, has stored, or races for.
OwnersItem(d) ==
  LET o == owner[d] IN
  /\ base[d] <= pushed[d]
  /\ o.pc \in PushPC => o.x = <<d, pushed[d] + 1>> /\ pushed[d] < MaxItems[d]
  /\ o.pc = "pushBottom" =>
       ItemAt(d, o.b) = o.x /\ buf[active[d]].low # NoMark /\ buf[active[d]].low <= o.b
  /\ o.pc = "popCas" /\ top[d] = o.t => ItemAt(d, o.t) = o.x

Contents(d, holder) ==
  Live(d) =>
    /\ holder[active[d]] = d
    /\ MarksSuffice(d, holder) /\ CopyUnderWay(d, holder)
    /\ ItemsKept(d) /\ OwnersItem(d)

ReturnedOnce(d) ==
  /\ pushed[d] <= MaxItems[d]
  /\ \A v \in Value :
       returned[d][v] <= IF \E k \in 1..pushed[d] : v = <<d, k>> THEN 1 ELSE 0

\* An array that p may still read a claim from is held by the deque, at or
\* below the active one; a shrink discards arrays only after its CAS, or the
\* step that made the CAS fail, has put an end to all older claims.
ClaimSource(p, holder) ==
  LET h == thief[p]
      o == owner[h.d]
  IN
  h.pc \in {"slot", "cas"} /\ h.t = top[h.d] =>
    /\ (IF h.pc = "cas" THEN h.x ELSE Load(h.a, h.t)) = ItemAt(h.d, h.t)
    /\ h.pc = "slot" =>
         /\ holder[h.a] = h.d
         /\ \/ Capacity[h.a] <= Capacity[active[h.d]]
            \/ o.pc \in {"shrinkShift", "shrinkTop"}
            \/ o.pc = "shrinkCas" /\ h.t <= o.snap

HeldInv(holder) ==
  /\ ChainsHeld(holder)
  /\ \A d \in Deque : Contents(d, holder) /\ ReturnedOnce(d)
  /\ \A p \in Thief : ClaimSource(p, holder)

ItemInv == \E holder \in Holders : HeldInv(holder)
=============================================================================
