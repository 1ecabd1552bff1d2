# Bounded lock-free work-stealing deque: specification, checks and proofs

TLA+ modules for the C++ library in `src/` (paths below are relative to the
repository): a Chase-Lev work-stealing deque whose ring buffers come from a
shared pool of permanent records. The modules model every operation of the
deque step by step, and with them the pool, the retry wrapper and the programs around
the deque. TLC checks them on small instances. For all instances, TLAPS proves
every invariant that TLC checks and both refinements: that the deques, lock-free and with a
mutex, lose, repeat and reorder nothing and implement atomic deques,
what EMPTY and ABORT mean, the wrapper's window and generator, the assertions of
the GenMC program, that the benchmark counts each item once, which pools can
be built, and that a record's metadata has no data race.

## 1. The system

| Component | State | Operations | Used by |
|---|---|---|---|
| Ring buffer, `src/circular_array.h` | atomic slots; `low_water_mark_` and `prev_`, touched by the owning thread only | load, store, store without mark, `grow_into`, `shrink`, reset | pool, deque |
| Buffer pool, `src/buffer_pool.h` | one atomic ownership flag per record; records of one capacity are contiguous | constructor (checks and lays out the size classes), `try_acquire` (one CAS per record, in order), `release` | owners of deques |
| Deque, `src/work_stealing_deque.h` | `top_`, `bottom_`, `active_array_` (atomic), `cached_top_` (owner only), the chain of retained arrays | constructor, `try_push_bottom`, `pop_bottom` (which shrinks), `steal`, destructor | one owner and any number of thieves |
| Retry wrapper, `src/steal_backoff.h` | per worker: pause window, last victim, random state | `steal_with_retry`, `begin_search` | thieves |
| Mutex baseline, `src/mutex/work_stealing_deque.h` | a vector, `top_`, `size_` under one mutex | push, pop, steal | benchmark |
| Benchmark, `test/benchmark_deque.cpp` | `done` flag, worker results | `run`: push, steal, join, drain, validate | - |
| GenMC model, `model/deque_model.c` | a C11 copy of the deque, two retrying thieves, an owner, a borrower | a bounded program with assertions | - |

Owners and thieves share only the indices, the active pointer and the slots;
owners of different deques share only the pool. There are no locks, messages or
callbacks (the test hooks are compiled out). Nothing is persisted, so there is
no crash recovery; what takes its place is an owner that is suspended for ever
in the middle of a call.

What is hard here:

* the last item, for which a pop and several thieves compete with one CAS;
* a resize under the eyes of thieves. A shrink switches the array, moves
  `bottom_` up by the new capacity and then moves `top_` by CAS, three separate
  stores; if the CAS loses, only `bottom_` is rolled back. A thief that sees a
  size which is a multiple of the capacity must treat it as ambiguous;
* a thief reads its slot *before* it claims the index, from a buffer that may
  already be back in the pool and borrowed by another deque;
* the copy of a shrink starts at a low-water mark inherited along a chain of
  arrays, with indices that wrap around in each of them;
* the pool can run dry in the middle of a push;
* a record's plain metadata changes hands through one flag only, while thieves
  still read its slots;
* a worker leaves on an EMPTY only if it knew before that nothing more comes, and
  retries meet all of the above.

What makes it correct: a buffer has one owner; every item pushed is returned at
most once, by this deque, and is not lost while the deque lives; steals take the
oldest and pops the newest item; a steal claims only what is there; EMPTY and
ABORT mean something; and a stopped owner stops nobody else. The hazards are
listed, each at its line and with the properties aimed at it, in `PROJECT.json`.

## 2. Modules

| Module | What it is |
|---|---|
| `CircularArray` | ring buffers: slots, mark, link, masking, where a shrink starts to copy |
| `BufferPool` | ownership flags; claim, failed claim, release |
| `WorkStealingDeque` | the deques: the state machine of owners and thieves |
| `DequeInvariants` | type invariant, safety invariants, the inductive invariants `StructureInv` and `ItemInv` |
| `StealProgress` | fairness, the drained deque, calls that return |
| `StealOutcomes` | a history of each steal call; what EMPTY and ABORT mean; the inductive invariant `OutcomeInv` |
| `AbstractDeque` | what a deque promises: a sequence, push / pop / steal |
| `DequeRefinement` | the mapping from the deque to `AbstractDeque` |
| `PoolSetup` | the pool's constructor: which requests it accepts, where the classes lie |
| `PoolHandover` | the memory orders by which one record passes from owner to owner |
| `StealBackoff` | a worker's configuration and pause window, and `steal_with_retry` over arbitrary results |
| `Xorshift` | the jitter generators of the workers, on 32-bit words |
| `JitteredWorker` | a worker of `StealBackoff` together with its generator and those of its colleagues |
| `RetryingThieves` | `steal_with_retry` over the steps of the real `steal()`; each worker is an instance of `StealBackoff` |
| `DequeModel` | the program of the GenMC model, over `RetryingThieves` |
| `BenchmarkWorkload` | the benchmark's `run()`, over the deque |
| `MutexDeque` | the mutex baseline, and its mapping to `AbstractDeque` |
| `MC...` | instances and bounds for TLC |
| `DequeInvariantProofs` | lemmas, in three parts: types, what each step leaves alone, chains and indices (`StructureInv`); remainders and slots, which deque holds which record; `ItemInv` is inductive |
| `DequeTheorems` | the theorems about the deques, the refinement step by step, the outcomes of a steal |
| `DequeModelProofs` | what the GenMC program asserts, over the theorems about the deques |
| `JitteredWorkerProofs`, `BenchmarkWorkloadProofs`, `MutexDequeProofs`, `PoolSetupProofs`, `PoolHandoverProofs` | the theorems about the module of that name |

### State

`buf[r] = [slots, low, prev]` is record `r`; `Capacity[r]` is its size (the code
keeps the logarithm and shifts it). `state[r]` is its flag. `top`, `bottom`,
`active`, `cachedTop` are the fields of deque `d`. `owner[d]` and `thief[p]` hold
a program counter and the locals of the call in progress, under the names of
the code where it has them (`a`, `b`, `t`, `x`, `old`, `snap` for
`top_snapshot`, `dst` for `destination` / `cursor` / `new_array`, `i` for the
copy index, `mark` for `min_low_water`, `left` for the records a scan has yet to
try). `pushed`, `base` and `returned` are history: how many items were pushed,
how many of them before the current construction, and how often each value was
returned. Items are distinct, so "twice" and "lost" are visible.

### Steps

An access to memory that another thread can change, or can see changing, is a
step of its own: each load of an index or pointer by a thief, each slot read and
write, each CAS and each store of the owner, each flag. What a thread does with
its locals, with its own last value of `bottom_` and `active_array_`, and with
metadata of buffers it owns is part of a neighbouring step.

| Code | Actions |
|---|---|
| constructor | `Construct`, `ConstructScan`, `ConstructClaim`, `ConstructFails` (`bad_alloc`) |
| destructor, `release_chain` | `Destroy`, `DestroyRelease` |
| `try_push_bottom` | `TryPush`, `PushReadTop`, `GrowScan`, `GrowClaim`, `PushFails`, `GrowCopy`, `GrowPublish`, `PushSlot`, `PushBottom` |
| `pop_bottom` | `Pop`, `PopReadTop`, `PopRestore`, `PopCas`, `PopSettle` |
| `perhaps_shrink`, `shrink` | `PopReadTop` (first array of the walk), `ShrinkWalk`, `ShrinkStart`, `ShrinkCopy`, `ShrinkPublish`, `ShrinkShift`, `ShrinkReadTop`, `ShrinkCas`, `ShrinkRestore`, `ShrinkRelease` |
| `steal` | `StealReadTop`, `StealReadOld`, `StealReadBottom`, `StealReadArray`, `StealRecheck`, `StealReadSlot`, `StealCas` |

`Destroy` is guarded by the shutdown order the README of the library demands (no
call on this deque is in flight). Destroying one deque while thieves are busy
with another is allowed and is modelled.

Operators whose comment begins with "Faulty variant" are not part of the
specification. They are versions of a neighbouring definition with a plausible
mistake, used to see that a property notices it; the pairs are in
`PROJECT.json`.

`StealBackoff` follows one worker, with any configuration that the constructor
accepts (`ValidConfig`; it throws for the others): `Call` is `select_victim` and the
start of the loop; `Settle` (a result other than ABORT) and `RecordAbort` are one
turn of it, the last abort also its end. `steal()` may return anything at any
attempt, which covers every deque. `Replace` is not code: a deque dies and another is
built at the remembered address, after which the worker must call
`BeginSearch`, as the comment at `steal_backoff.h`, lines 38-39, demands.
`aborts` is history: the aborts in a row by the deque now at that address.

`RetryingThieves` puts the same wrapper around `ThiefStep`: a call's first step is
also the first step of its first attempt (`RetryCall`), and the step that ends an
attempt is also what the wrapper makes of the result (`Attempt`, `After`). That
this is `StealBackoff` for each thief is the property `Backoffs`, a refinement with
the thief's record as the worker's variables.

`DequeModel` says who calls what: `Fill`, then `OwnerMain`, `ThiefMain`,
`BorrowerMain` side by side, `Join`, `Drain`, `ReturnAll`, one action per function or
loop of the C program. The two deques of that program are built without a
constructor; here they are constructed, with the same result. That a push of `Fill` or of the
borrower succeeds is a condition for going on (`Start`, `BorrowerDone`) where the C program
asserts it; no property depends on it.

`BenchmarkWorkload` is `run()`, with as many workers as it is called with: `BenchmarkInit`
picks them among `Thief`. Its actions are the owner's `PushAll`, `SetDone`, `Join`, `Drain`; each
worker's `LoadDone` and `WorkerSteal`. With retries several attempts follow one
reading of `done`; without, each has its own. After an ABORT the model allows both.

`Xorshift` writes a word as the set of its one bits: `^` is the symmetric difference,
a shift renumbers the bits and drops those that leave the word.

`PoolSetup` is sequential: one action per turn of the two loops and one per exit.
`SizeDigits`, `IndexDigits` and `VectorMax` stand for the widths of the platform.

`MutexDeque` takes the mutex, runs an operation's body in one step (no one
else can look inside), and releases the mutex. A pop's value is "reserved" in
the abstract deque from its body to its return.

### Memory model

All accesses of the deque to memory shared between threads are
`memory_order_seq_cst`; the relaxed loads are the owner's loads of what only the
owner writes. The modules therefore interleave steps over one memory. Pool flags
are acquire/release: each hands over exactly one record, and the CAS reads the
latest value of the flag. A failed relaxed CAS carries no data.

What a claim and a return hand over besides the flag is the subject of
`PoolHandover`. There `knows[x]` is the set of events that happen before the next
step of thread `x`; a release store leaves it with the value written, an acquire read
takes it up, a relaxed access does neither. The module keeps one record and the
accesses that the comment at `buffer_pool.h`, lines 90-96, speaks of, and shows its
two claims: the plain fields `prev_` and `low_water_mark_` have no data race, and a
thief that reads a borrower's slot write has thereby acquired the invalidation of
its own claim. That the invalidation, once it happens before the thief's CAS, makes the CAS
fail is coherence of `top_`, which is what `WorkStealingDeque` has. Reads there return
the latest value; the full RC11 model, where a read may return an older one, is
explored by the repository with GenMC.

## 3. Runs

| Run | Instance | Checks |
|---|---|---|
| `races` | 1 deque, 2 thieves (symmetric), 4 items, capacities 4, 8 | `TypeOK`, `AtMostOnce`, `NothingLost`, `ClaimIsThere`, `ClaimIsCurrent`, `ImplementsAbstract`, `TopNeverFalls` |
| `resize` | 1 deque, 1 thief, 6 items, capacities 4, 8 | `IndicesInRange`, `OutcomeInv`, `EmptyIsGenuineUnlessSwitchedBack`, `AbortMeansProgress`, `ImplementsAbstract` |
| `shared_pool` | 2 deques on one pool (capacities 4, 8), the second destroyed and rebuilt, 1 thief, 4 + 1 items, `Fill` 4 | `StructureInv`, `RecordsAccounted`, `ClaimIsCurrent`, `AtMostOnce` |
| `multi_shrink` | 1 deque, 1 thief, 8 items, capacities 4, 8, 16, `Fill` 8 | `ItemInv`, `InPushOrder`, `RecordsAccounted`, `ImplementsAbstract` |
| `progress` | 1 deque, 2 thieves, 4 items, capacities 4, 8 | `AlwaysDrained`, `WaitFree` |
| `pool_setup` | all requests of up to 3 classes, `size_t` of 5 digits | `BuiltIffPossible`, `RangesAreSizeClasses` |
| `handover` | 3 owners, 2 thieves (each set symmetric), 3 uses of the record | `MetadataRaceFree`, `ForeignValueIsKnownStale` |
| `deque_model` | 2 deques, 2 thieves (symmetric), 5 items, 2 attempts, 2 batches, window 4 to 16 | `SeenOnce`, `RetryContract`, `AllReturned`, `Backoffs` |
| `benchmark` | 1 deque, 0 to 2 workers, 5 items, capacities 2, 4, weak fairness of all threads | `LeftMeansEmpty`, `EachCounted`, `Terminates` |
| `backoff` | 1 worker, 2 addresses, several configurations; 3 generators of 32 bits with the benchmark's seeds, 7 draws each | `TypeOK`, `WindowIsEarned`, `AbortIsExhausted`, `NeverZero`, `NeverInStep` |
| `mutex` | owner, 2 thieves (symmetric), capacities 2 to 8, limit 8, 9 items | `TypeOK`, `ImplementsAbstract` |
| `false_empty` | 1 deque, 1 thief, 4 items, capacities 4, 8 | `EmptyIsGenuine`, violated |

What the properties say:

* `AtMostOnce`: no value is returned twice, and only items of this deque are.
* `NothingLost`: a pushed item is waiting, held by a pop, or was returned. In
  `multi_shrink` it is part of `ItemInv`.
* `InPushOrder`: what waits is in push order and was not returned.
* `ClaimIsThere`, `ClaimIsCurrent`: a thief whose CAS would succeed now claims an
  index where an item waits or is contended, and has read that very item.
* `IndicesInRange`: `cached_top_` is a lower bound, the array never fills up.
* `RecordsAccounted`: owned records and chain positions match one to one, also after a
  shrink that skips several arrays (`multi_shrink`) and with two owners (`shared_pool`).
* `ImplementsAbstract`: each step is a step of `AbstractDeque` or invisible.
  There a pop reserves the newest item, and a steal may take a reserved item
  only when no other waits and the pop has not committed.
* `StructureInv`, `ItemInv`, `OutcomeInv`: the inductive invariants of section 4, which
  TLC checks before they are proved.
* `AbortMeansProgress`: a steal is turned away only when another thread moved
  `top_` or switched the array meanwhile.
* `AlwaysDrained`: again and again no item waits, wherever the owner stops.
* `TopNeverFalls`: no step moves `top_` of a live deque back.
* `WaitFree`: an owner's call returns if the owner keeps running, whatever thieves do.
* `WindowIsEarned`: the pause window is the function of the current deque's aborts
  in a row that the code promises, across calls, victims and reused addresses.
* `AbortIsExhausted`: ABORT from `steal_with_retry` means exactly `max_attempts`
  attempts, all aborted.
* `NeverZero`, `NeverInStep`: no generator gets stuck at zero, and two workers are
  never in the same state after as many draws.
* `BuiltIffPossible`: a pool is built exactly for requests that are well-formed and
  fit, and an exception names a real reason.
* `RangesAreSizeClasses`: `try_acquire` scans all records of the class and no other.
* `MetadataRaceFree`, `ForeignValueIsKnownStale`: see the memory model above.
* `SeenOnce`, `RetryContract`, `AllReturned`: the assertions of `main()` and
  `thief_main()` in `model/deque_model.c`, the last one also that of the pool's
  destructor. `Backoffs`: each thief's wrapper is a `StealBackoff`.
* `LeftMeansEmpty`: when a worker has left, no item waits. It holds although EMPTY is
  not always genuine, because `run()` pops nothing before all workers have left.
* `EachCounted`: at the end each pushed item was counted exactly once
  (`contains_each_value`). With workers nothing is left for the drain; without any
  it takes all. `Terminates`: the benchmark ends.

### The bounds, and why they are enough

* Capacities 4 and 8 (and 16): with `K = 4` an array of 4 never shrinks below the
  initial class, 8 shrinks to 4 when one item is left, 16 when fewer
  than four are. Four items make the fourth push grow, so a growth, a shrink
  with either outcome of its CAS, and indices that wrap around their array occur.
* `MaxItems[d]` bounds the pushes into `d`: pushes are the only source of growth
  of the state space. Failed pushes are not counted. `top_` and `bottom_` need no bound
  of their own: each shrink needs a growth before it, each growth a push.
* Two thieves are enough for the races between thieves: a thief writes only
  `top_`, so it meets the others there and nowhere else.
* `Fill` (in the action constraint `FilledFirst`) makes the owner of `d1` start popping only after `Fill`
  pushes. It restricts when a client calls, no step of a call, and
  keeps the larger instances small; `races` and `resize` run without it.
* `Ephemeral` are the deques that are ever destroyed.
* `AbortBound` in `StealBackoff`: the history counts up to 6 aborts, one more
  than the slowest window (1, 2, 4, 8, 16) takes to its maximum, over more than one call. The configurations include
  invalid ones, with which no behaviour begins. `AbortBoundAssumption` says that more
  aborts would change no window; 17 satisfies it for every configuration the
  constructor accepts, whose windows are powers of two up to 65536.
* `deque_model` takes the bounds of the C program, but for one more item and pop: with
  four items no thief ever exhausts two batches, and the assertion on the
  largest window would be empty.
* `benchmark`: with capacities 2 and 4 and one record of each, the owner grows once,
  and a push fails if the workers are slow (at most three items fit), else all
  five are pushed. Both ways reach the join. Each number of workers up to two is in the
  run: with 0, a mode that the library's README documents, the push fails and the drain
  takes all. A shrink during the drain needs larger arrays and is left to the proofs.
* `handover`: three uses are a lender, a borrower and a third owner, so a thief can
  hold an address over two handovers.
* `MaxDraws`: seven draws are more pauses than the history of aborts counts, so the worker of
  `backoff` uses up its window before its generator stops.
* `pool_setup`: two counts of 30 exceed 31, so the sum overflows; counts 0, 1, 2 and
  classes up to one too large cover the other exits.
* `mutex`: 8 slots hold seven items, so that the eighth push throws; from 8 a pop can
  halve twice. Thieves advance `top_`, so contents wrap before they are resized.
* `SwitchBound` in `StealOutcomes`: two switches of the array during one steal are
  as many as the properties distinguish.

### EMPTY is not always genuine

`false_empty` finds a steal that reports EMPTY although at least one item waited
throughout the call. The thief reads `top_ = 0` and the array of capacity 4. The
owner grows to 8 and pushes the fourth item; the thief reads `bottom_ = 4`. The
owner pops until one item is left and publishes the array of capacity 4 again;
the thief reads it. Now `4 % 4 = 0`, both array pointers are the same and `top_`
has not moved, so lines 116-119 return EMPTY. Nothing is lost: the item is there for the
next steal. But PERFORMANCE.md:79 calls such a result a genuine empty one, and
`steal_with_retry` resets its window on it. It always takes two switches of the
array within one call: that is `EmptyIsGenuineUnlessSwitchedBack`, the theorem `EmptyTells`.

### Fairness

The run `progress` is of `Spec`, without fairness; what is assumed stands in the
properties. `AlwaysDrained` assumes weak fairness of the thieves' steps (`Tireless`): they are running
threads that call `steal()` in a loop (`test/benchmark_deque.cpp`). Nothing is
assumed of the owner, so "the owner is suspended for ever at this instruction" is
among the behaviours. The claim behind it is README.md:68 of the library: "A
suspended owner may retain buffers but cannot prevent another operation from
returning". `AlwaysDrained` holds although single steals may abort again and
again, because an abort means that another thread did something, and there are
finitely many pushes.

`WaitFree` is the other half: *if* an owner is weakly fair within its calls, each of
its calls ends. Nothing is assumed of the thieves, which may stop in the middle of a
steal or keep moving `top_`. (`steal()` has no loop.) It is checked for one deque, so no
scan of the pool meets a record taken by another owner; a scan drops each record it has tried.

`FairBenchmarkSpec` assumes weak fairness of the owner and of each worker: `std::thread`s
that nothing suspends, on a scheduler that runs every runnable thread. `join` waits for the workers.

## 4. Proofs

The theorems about deques hold for any number of deques and thieves, any pool, any initial
capacities, any shrink factor of at least 3 and any bound on the pushes. The
assumptions are `CapacityAssumption` (a finite sequence of positive capacities;
powers of two are not needed), `ZeroAssumption`, `DequeAssumption` (`K >= 3`, as the
comment in the code demands) and `ValueAssumption` (items differ from `T{}`); TLC
evaluates them in every run of the deques.

### The deques: `DequeTheorems`

| Theorem | States |
|---|---|
| `StructureKept` | `Spec => []StructureInv` |
| `TypeCorrect` | `Spec => []TypeOK` |
| `PoolAccounted` | `Spec => []RecordsAccounted` |
| `RangeKept` | `Spec => []IndicesInRange` |
| `NoClaimPastEnd` | `Spec => []ClaimIsThere` |
| `TopMovesForward` | `Spec => TopNeverFalls` |
| `ItemsForever` | `Spec => [](StructureInv /\ ItemInv)` |
| `ReturnedAtMostOnce` | `Spec => []AtMostOnce` |
| `NoItemLost` | `Spec => []NothingLost` |
| `OrderKept` | `Spec => []InPushOrder` |
| `StaleClaimsFail` | `Spec => []ClaimIsCurrent` |
| `DequeIsAbstract` | `Spec => ImplementsAbstract` |

**Structure.** The first six are not inductive as they stand. `StructureInv` adds

* `ChainHalves`: each array of a chain has twice the capacity of the next;
* `OwnerPointers`: which arrays the owner's locals name at each program counter;
* `ShrinkChain`: during a shrink, the arrays from the old to the new one form a
  path of owned records, all larger than the new one;
* `OwnerIndices`: where a call has brought the indices, and what the owner's
  snapshots still say about `top_`;
* `ThiefIndices`: a thief whose `t` is still `top_` and which saw `bottom_` ahead
  of it can either really claim, or has read the shifted bottom of an empty
  deque, and then the size is exactly the capacity of the array it is going to read
  (`ShiftedEmpty`).

The last part is the heart: it explains why the modulus test, the shift by one
capacity and the array that is never full work together. If the array could be
full, a full deque and a shifted empty one would look alike; if the owner could
resize between, the thief would compare with another capacity. The owner cannot:
to resize it needs a non-empty deque, hence either a push after the shift (then
the item at `top_` really waits) or a moved `top_`. `K >= 3` is used where a
shrink must leave less than the smaller capacity in use (`HalfIsEnough`).

**Items.** What is in the slots needs to know which arrays belong together.
`ItemInv` says that there is an assignment `holder` of records to deques such that

* `ChainsHeld`: a deque holds exactly the owned records of its own chain, one per
  capacity, linked in order of size, and each capacity divides every larger one. The link
  of `StructureInv` halves, so the division needs no assumption on the pool;
* `MarksSuffice`: at an index not stored in any array above it (by the low-water
  marks), a smaller array already has the item. This is why a
  shrink may start to copy at the lowest mark it met;
* `CopyUnderWay`: a copy has arrived at its index, and the target of a shrink has
  a mark as low as all marks above it;
* `ItemsKept`, `ReturnedOnce`: what waits or is held was never returned and is in
  push order; every other item was returned once;
* `OwnersItem`: the owner's local is the item it pushes or competes for;
* `ClaimSource`: a thief whose `t` is still `top_` reads from an array of the deque not
  larger than the active one, or from one that a shrink has not yet given
  up. A shrink gives arrays up after its CAS on `top_` succeeded; if the CAS failed, a thief
  moved `top_`. Both end every claim on the old index.

`ItemInv` is inductive together with `StructureInv`. `holder` is quantified and not
a definition, because "reachable along the chain" would be recursive; each step
that claims, passes on or releases a record names the new assignment. Masked indices
collide only a multiple of the capacity apart, and the live range is
shorter than the active array, so a store or a copy meets no other live item.

**Refinement.** `DequeIsAbstract` maps the deque to the sequence of items that
wait and the one that a pop has reserved. A push happens at its store of `bottom_`. A
pop reserves the newest item when it lowers `bottom_`. It commits when it begins a
shrink or wins its CAS, and takes the item at its last step; if it does not shrink
and other items wait, it takes it as it reads `top_`. A steal happens at its CAS and takes the
oldest item or, when no other waits, the reserved one; a pop that loses its CAS has
nothing left to give back. Every other step, those of growths and shrinks included, leaves the
mapped state as it is: the items move to other slots, the indices shift
together, the sequence stays. A step of one deque is invisible to the others, since
it writes no record that they hold (`ChainsHeld`). The lemmas whose names end in
`Seen` say which abstract step each concrete one is.

### Outcomes of a steal: `DequeTheorems`

`OutcomesKept` (`OutcomeInv`), `EmptyTells` (`EmptyIsGenuineUnlessSwitchedBack`) and
`AbortTells` (`AbortMeansProgress`). `OutcomeInv`, inductive together with `StructureInv`,
relates what a thief's snapshots show to what happened since its call began: a
snapshot that is no longer current proves that the deque moved on, because `top_` never
falls and an array becomes active again only after two switches. Snapshots that are current and
look empty (`bottom_` not past `top_`, or past it by a multiple of the capacity) prove that
the deque was empty at some moment, since the live range is shorter than the array,
unless the array was switched twice.

### The retry wrapper and its generator: `JitteredWorkerProofs`

`BackoffTyped` (`TypeOK`), `WindowEarned` (`WindowIsEarned`) and `AbortExhausts`
(`AbortIsExhausted`) are about `StealBackoff`, for any addresses, every configuration
that the constructor accepts, and any bound that satisfies `AbortBoundAssumption`. The inductive invariant
adds that in the middle of a call every attempt so far has aborted, and that the history
counts at least those aborts (`AttemptsAborted`). That one
more abort doubles the earned window needs the laws of powers of two; the solvers know none
for a variable exponent, so the at most 17 powers are tabulated.

`NonzeroForever` (`NeverZero`) and `NeverInStepForever` (`NeverInStep`) hold for any
workers, distinct nonzero seeds and number of draws. A shift by at
least one place combined with the word itself by exclusive or is injective: the bits of the
argument come back one after another from the end at which the shift
brings in zeros. Hence `NextWord` is injective and maps only zero to zero.
`NeverInStep` as it stands is not inductive, since workers draw in turns: the
inductive form says that there is a history of all states drawn (`History`) in which two
workers differ after every number of draws that both have made. `WorkerHasBoth`:
a worker that draws in its pauses is a `StealBackoff` next to a set of generators.

### The benchmark: `BenchmarkWorkloadProofs`

`WorkersLeaveNothing` (`LeftMeansEmpty`) and `BenchmarkCounts` (`EachCounted`), for any
number of workers, none included, and of items. The behaviours of the benchmark's deque are those of
`WorkStealingDeque`, so its theorems apply. `BenchmarkInv` adds that the owner rests
from `done` until all workers have left. A steal that begins after its worker saw
`done` therefore reads the final `bottom_` and the final array. A size that it finds
ambiguous is not the current one, as the live range never fills the array, so the recheck
aborts; its EMPTY comes from `bottom_` not being past `top_`, and that stays so
(`PopAddsNothing`). The drain ends with a nullopt, which means that nothing waits
(`NulloptMeansEmpty`), whether workers emptied the deque or the owner alone. With `NothingLost` and
`AtMostOnce`, each item was returned exactly once.

### The handover: `PoolHandoverProofs`

`NoMetadataRace` (`MetadataRaceFree`) and `StaleClaimKnown`
(`ForeignValueIsKnownStale`), for any number of owners, thieves and uses. `HandoverInv`
adds that a record has one holder, that all accesses so far are known to the holder or
left with the free flag (`Carried`), and that the end of a thief's claim is carried
along and left with every value written in a later use (`ClaimEnds`).

### The GenMC program: `DequeModelProofs`

| Theorem | States |
|---|---|
| `ProgramUsesDeques` | `ModelSpec => Spec` |
| `ProgramSeesAllOnce` | `ModelSpec => []SeenOnce` |
| `ThievesKeepContract` | `ModelSpec => []RetryContract` |
| `ProgramReturnsAll` | `ModelSpec => []AllReturned` |
| `ThievesBackOff` | `ModelSpec => Backoffs` |

They hold for any number of thieves and of items of the original, any pops of its owner and any pool.
`RetryAssumption` is what the constructor of `StealBackoff` accepts; `BoundsAssumption` has the
numbers that the assertions of `main()` are about: at least as many pops in the drain as pushes, one item of the
borrower, two batches of two attempts and a window that may double twice.

`ModelInv` is inductive together with `StructureInv` and `ItemInv`. It says at which
steps each owner can be in each phase of `main()`, and

* `OriginalPhase`: while main drains, what the deque holds is no more than the pops that are
  left. A pop shortens the deque as it starts (`PopShortens`), by whatever way it ends,
  and in the beginning no more items wait than were pushed, as their numbers
  are different (`LengthBound`, from `ItemsKept`). When nothing waits, all were returned
  (`AllItemsReturned`), which gives `SeenOnce`;
* `BorrowerPhase`: the same for the one item of the borrower;
* `RetryPhase`: how many attempts a thief has made follows from its batch and the attempt
  it is at, and its window from how many have aborted (`WindowAfterAborts`).

`AllReturned` needs no more than `ChainsHeld`: what is held hangs on the root of a chain,
and deques that are not constructed have none. For `Backoffs`, each step of a worker's record is
shown to be a `Call`, `Settle` or `RecordAbort` of its `StealBackoff`, and a step of any
other thread none.

### The mutex baseline: `MutexDequeProofs`

`BaselineTyped` (`TypeOK`) and `BaselineIsAbstract` (`ImplementsAbstract`), for any number of
thieves, pushes and any capacities that satisfy `MutexAssumption`. `MutexInv` adds that the holder of the mutex is
the one thread within a call, and that the waiting items lie at consecutive slots modulo the capacity, of
which one stays free. The capacity that a pop settles on is a recursive function, the loop
that halves it. Its equation is proved by induction over sets instead of predicates: a set of numbers
that holds each number below which it holds all is the set of all numbers (`CourseOfValues`), since
the rest has no least element (`LeastNumber`). What the loop returns still
holds the items that are left (`TargetHolds`).

### The pool's constructor: `PoolSetupProofs`

`BuiltExactlyIfPossible` (`BuiltIffPossible`) and `RangesMatchClasses`
(`RangesAreSizeClasses`), for any request and any widths. What a request asks for is a set of
records (`Asked`), so the sum of its counts is the set's cardinality and needs no recursion.
`SetupInv` says that the total of the entries checked is the number of records they ask for
and did not wrap around, and that a class has a range exactly if an entry for it was laid
out: the range then is the set of its records, and is empty otherwise.

### Model-checked only

`AlwaysDrained`, `WaitFree` and `Terminates`: liveness under fairness is out of the
prover's reach. The run `false_empty` shows a counterexample, which needs no proof.

## 5. Not modelled

* Overflow of the 64-bit logical indices, which the library's README excludes, and
  the lifetime of what task pointers point to.
* Stale reads that RC11 would allow outside of a handover (see the memory model).
* The duration of a pause, cache-line layout, allocation, and the compile-time
  concept `LockFreeAtomicValue`, which is what makes a slot access one step.
* Timing, statistics, arguments and output of the benchmark, its scripts and results;
  the unit tests, whose fixed schedules are among the interleavings of the runs.

## 6. Plan

Built, in this order: the deque on its pool, its invariants, the abstract deque and the
refinement; outcomes and progress; the proofs of the structural part; the retry
wrapper and the mutex baseline; the generator; the handover and its proof; the pool's
constructor; retries over the deque, the GenMC program, the benchmark; calls that return;
the proofs about slots, of the refinement, of the outcomes, of the wrapper and of the
benchmark; those of the GenMC program, the mutex baseline and the pool's constructor.

Left for later: reads that RC11 allows to be stale outside of a handover, which would take a
view for each thread and location of the deque.
