----------------------------- MODULE DequeModel -----------------------------
(***************************************************************************)
(* The program of model/deque_model.c, which the repository checks with    *)
(* GenMC: an owner that pops, two thieves that steal with retries, a       *)
(* second owner that may borrow the array a shrink gives back, and a main  *)
(* thread that fills the deque before and drains it after.  Its functions  *)
(* are those of the deque, and so are the steps here; what this module     *)
(* adds is who calls what, and the assertions of main().                   *)
(***************************************************************************)
EXTENDS RetryingThieves

CONSTANTS
  Original, Borrower,         \* the two deques
  OwnerPops, MainPops,        \* the calls of pop_bottom by the owner and by main
  Batches                     \* steal_with_retry is called so often on ABORT

ASSUME ScenarioAssumption ==
  /\ Deque = {Original, Borrower} /\ Original # Borrower
  /\ Ephemeral = Deque
  /\ OwnerPops \in Nat /\ MainPops \in Nat

\* The bounds of the program that main() relies on: it pops as often as it has
\* pushed, and once what the borrower has pushed once; two batches of two
\* attempts are what it takes to reach the maximal window.
ASSUME BoundsAssumption ==
  /\ MainPops >= MaxItems[Original] /\ MaxItems[Borrower] = 1
  /\ Batches = 2 /\ RetryConfig.max_attempts = 2
  /\ RetryConfig.max_window = 4 * RetryConfig.initial_window

VARIABLES
  phase,    \* of main: "fill", "race", "drain", "return"
  pops,     \* calls of pop_bottom of Original in this phase
  batches,  \* batches[p]: thief_batches
  raw,      \* raw[p]: thief_attempts
  borrows   \* the borrower has called try_acquire

scenario == <<phase, pops, batches, raw, borrows>>
modelVars == <<vars, worker, scenario>>

ModelInit ==
  /\ RetryInit
  /\ phase = "fill" /\ pops = 0 /\ borrows = FALSE
  /\ batches = [p \in Thief |-> 0] /\ raw = [p \in Thief |-> 0]

\* push_bottom() and pop_bottom(), with perhaps_shrink(), of one deque.
PushBottomStep(d) == PushStep(d)
PopBottomStep(d) == (PopStep(d) \/ ShrinkStep(d)) /\ UNCHANGED worker

\* At most n calls of pop_bottom.
PopsOf(d, n) ==
  /\ owner[d].pc = "idle" => pops < n
  /\ PopBottomStep(d)
  /\ pops' = IF owner[d].pc = "idle" THEN pops + 1 ELSE pops
  /\ UNCHANGED <<phase, batches, raw, borrows>>

\* main() sets up the deque and pushes until MaxItems.
Fill ==
  /\ phase = "fill"
  /\ (LifeStep(Original) /\ owner[Original].pc # "idle") \/ PushBottomStep(Original)
  /\ UNCHANGED <<worker, scenario>>

Start ==
  /\ phase = "fill" /\ owner[Original].pc = "idle" /\ pushed[Original] = MaxItems[Original]
  /\ phase' = "race"
  /\ UNCHANGED <<vars, worker, pops, batches, raw, borrows>>

OwnerMain == phase = "race" /\ PopsOf(Original, OwnerPops)

\* Whether the thief calls steal_with_retry once more.
MoreBatches(p) == batches[p] = 0 \/ (worker[p].result = "ABORT" /\ batches[p] < Batches)

ThiefMain(p) ==
  /\ phase = "race"
  /\ \/ /\ worker[p].pc = "idle" /\ MoreBatches(p)
        /\ RetryCall(p, Original)
        /\ batches' = [batches EXCEPT ![p] = @ + 1]
        /\ UNCHANGED raw
     \/ RetryAgain(p) /\ UNCHANGED <<batches, raw>>
     \/ /\ Attempt(p)
        /\ raw' = [raw EXCEPT ![p] = IF thief'[p].pc = "idle" THEN @ + 1 ELSE @]
        /\ UNCHANGED batches
  /\ UNCHANGED <<phase, pops, borrows>>

\* One claim, and if it succeeds one push.
BorrowerMain ==
  /\ phase = "race"
  /\ \/ ~borrows /\ Construct(Borrower)
     \/ ConstructClaim(Borrower) \/ ConstructScan(Borrower) \/ ConstructFails(Borrower)
     \/ PushBottomStep(Borrower)
  /\ borrows' = TRUE
  /\ UNCHANGED <<worker, phase, pops, batches, raw>>

ThiefDone(p) == worker[p].pc = "idle" /\ batches[p] > 0 /\ ~MoreBatches(p)

BorrowerDone ==
  /\ borrows
  /\ \/ owner[Borrower].pc = "none"
     \/ owner[Borrower].pc = "idle" /\ pushed[Borrower] = MaxItems[Borrower]

Join ==
  /\ phase = "race"
  /\ owner[Original].pc = "idle" /\ pops = OwnerPops
  /\ BorrowerDone /\ \A p \in Thief : ThiefDone(p)
  /\ phase' = "drain" /\ pops' = 0
  /\ UNCHANGED <<vars, worker, batches, raw, borrows>>

Drain == phase = "drain" /\ PopsOf(Original, MainPops)

\* The original is drained: main() looks at what was seen.
Drained ==
  /\ phase = "drain" /\ owner[Original].pc = "idle" /\ pops = MainPops
  /\ phase' = "return" /\ pops' = 0
  /\ UNCHANGED <<vars, worker, batches, raw, borrows>>

\* One pop of the borrower, then release_chain() for both.
ReturnAll ==
  /\ phase = "return"
  /\ \/ owner[Borrower].pc # "none" /\ PopsOf(Borrower, 1)
     \/ /\ owner[Borrower].pc = "idle" => pops = 1
        /\ \E d \in Deque : Destroy(d) \/ DestroyRelease(d)
        /\ UNCHANGED <<worker, scenario>>

ModelNext ==
  \/ Fill \/ Start \/ OwnerMain \/ (\E p \in Thief : ThiefMain(p)) \/ BorrowerMain
  \/ Join \/ Drain \/ Drained \/ ReturnAll

ModelSpec == ModelInit /\ [][ModelNext]_modelVars
-----------------------------------------------------------------------------
\* assert(seen[i] == 1), and that the borrower gets its value back: what was
\* pushed has been returned exactly once, by the owner, by a thief or to
\* main(), and the borrower's item to nobody else.
SeenOnce ==
  /\ phase = "return" =>
       \A v \in Value : returned[Original][v] = IF v \in {<<Original, k>> : k \in 1..MaxItems[Original]}
                                               THEN 1 ELSE 0
  /\ phase = "return" /\ owner[Borrower].pc = "idle" /\ pops = 1 =>
       \A k \in 1..pushed[Borrower] : returned[Borrower][<<Borrower, k>>] = 1

\* What thief_main() and main() assert of a thief: how many batches and raw
\* attempts it made, and that its window follows the aborts of all its batches:
\* kept from an exhausted batch for the next one, maximal after the last.
RetryContract ==
  \A p \in Thief :
    /\ worker[p].pc = "idle" /\ worker[p].result = "ABORT" /\ batches[p] = 1 =>
         worker[p].window = 2 * RetryConfig.initial_window
    /\ ThiefDone(p) =>
         /\ batches[p] \in 1..Batches
         /\ raw[p] \in batches[p] .. batches[p] * RetryConfig.max_attempts
         /\ worker[p].window = IF worker[p].result = "ABORT" THEN RetryConfig.max_window ELSE 0

\* After the last release_chain() no record is owned, as the destructor of the
\* pool asserts too.
AllReturned ==
  (\A d \in Deque : owner[d].pc = "none") => OwnedRecords = {}

\* In the hands of any thief the wrapper behaves as StealBackoff says.
Backoffs ==
  /\ \A p \in Thief : Backoff(p)!Init
  /\ [][\A p \in Thief : [Backoff(p)!Next]_(Backoff(p)!vars)]_worker
=============================================================================
