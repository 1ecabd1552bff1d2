------------------------- MODULE BenchmarkWorkload -------------------------
(***************************************************************************)
(* run() of test/benchmark_deque.cpp: one owner pushes all items while its *)
(* workers steal, says so in the flag done, waits for the workers to leave *)
(* and drains the rest.  A worker leaves at the first EMPTY of a steal     *)
(* before which it had seen done.  run() is called with any number of      *)
(* workers; with none the owner drains all that it has pushed.  With       *)
(* Backoff, one reading of done serves all attempts of a steal_with_retry: *)
(* after an ABORT a worker may go on without looking at done again.        *)
(***************************************************************************)
EXTENDS DequeInvariants

CONSTANT Shared  \* the only deque

ASSUME WorkloadAssumption == Deque = {Shared} /\ Ephemeral = {}

VARIABLES
  phase,  \* of the owner: "push", "pushed", "join", "drain", "finished"
  done,   \* the atomic flag
  at,     \* at[p]: where p is in the worker's loop: "check", "steal", "left";
          \* "none" if the run has fewer workers and p is not one of them
  saw     \* saw[p]: its local copy of done, finished

benchmark == <<phase, done, at, saw>>
benchmarkVars == <<vars, benchmark>>

BenchmarkInit ==
  /\ Init
  /\ phase = "push" /\ done = FALSE
  /\ at \in [Thief -> {"none", "check"}] /\ saw = [p \in Thief |-> FALSE]

\* The constructed deque is what run() is given.
Setup ==
  /\ phase = "push" /\ owner[Shared].pc \in {"none", "construct"}
  /\ LifeStep(Shared)
  /\ UNCHANGED benchmark

\* The owner's loop ends with its last item or with a push that fails.
PushAll ==
  /\ phase = "push"
  /\ PushStep(Shared)
  /\ phase' = IF PushFails(Shared) THEN "pushed" ELSE "push"
  /\ UNCHANGED <<done, at, saw>>

\* Faulty variant: a failed push leaves the loop past the store of done.
SetDoneIfComplete ==
  /\ phase = "push" /\ owner[Shared].pc = "idle" /\ pushed[Shared] = MaxItems[Shared]
  /\ done' = TRUE /\ phase' = "join"
  /\ UNCHANGED <<vars, at, saw>>

SetDone ==
  /\ \/ phase = "pushed"
     \/ phase = "push" /\ owner[Shared].pc = "idle" /\ pushed[Shared] = MaxItems[Shared]
  /\ done' = TRUE /\ phase' = "join"
  /\ UNCHANGED <<vars, at, saw>>

Join ==
  /\ phase = "join" /\ \A p \in Thief : at[p] \in {"none", "left"}
  /\ phase' = "drain"
  /\ UNCHANGED <<vars, done, at, saw>>

\* Faulty variant: a single pop_bottom().
DrainOnce ==
  /\ phase = "drain"
  /\ PopStep(Shared) \/ ShrinkStep(Shared)
  /\ phase' = IF owner'[Shared].pc = "idle" THEN "finished" ELSE "drain"
  /\ UNCHANGED <<done, at, saw>>

\* pop_bottom() until it returns nullopt.
Drain ==
  /\ phase = "drain"
  /\ PopStep(Shared) \/ ShrinkStep(Shared)
  /\ phase' = IF owner'[Shared].pc = "idle" /\ returned' = returned
              THEN "finished" ELSE "drain"
  /\ UNCHANGED <<done, at, saw>>

\* A worker starts its loop when the barrier lets it, with the owner.
LoadDone(p) ==
  /\ at[p] = "check" /\ Live(Shared)
  /\ at' = [at EXCEPT ![p] = "steal"]
  /\ saw' = [saw EXCEPT ![p] = done]
  /\ UNCHANGED <<vars, phase, done>>

\* Faulty variant: done is read when the steal has returned.
MayLeaveLate(p, result) == result = "EMPTY" /\ done

MayLeave(p, result) == result = "EMPTY" /\ saw[p]

\* A step of steal(), and what the worker makes of its result.
WorkerSteal(p) ==
  /\ at[p] = "steal"
  /\ ThiefStep(p)
  /\ LET result == thief'[p].res IN
       \E next \in {"check", "steal", "left"} :
         /\ thief'[p].pc = "idle" =>
              CASE MayLeave(p, result) -> next = "left"
                [] result = "ABORT" -> next \in {"check", "steal"}
                [] OTHER -> next = "check"
         /\ thief'[p].pc # "idle" => next = "steal"
         /\ at' = [at EXCEPT ![p] = next]
  /\ UNCHANGED <<phase, done, saw>>

OwnerThread == Setup \/ PushAll \/ SetDone \/ Join \/ Drain
WorkerThread(p) == LoadDone(p) \/ WorkerSteal(p)

BenchmarkNext == OwnerThread \/ \E p \in Thief : WorkerThread(p)

BenchmarkSpec == BenchmarkInit /\ [][BenchmarkNext]_benchmarkVars

\* All threads are running threads.
FairBenchmarkSpec ==
  /\ BenchmarkSpec
  /\ WF_benchmarkVars(OwnerThread)
  /\ \A p \in Thief : WF_benchmarkVars(WorkerThread(p))
-----------------------------------------------------------------------------
\* No worker leaves while an item waits: the flag is read before the steal,
\* nothing is pushed after it is set, and without shrinks an EMPTY is genuine.
\* The final drain finds an item only if there are no workers.
LeftMeansEmpty == (\E p \in Thief : at[p] = "left") => Window(Shared) = {}

\* contains_each_value(): in the end every item that was pushed was counted
\* once, by a worker or in the owner's drain, and nothing else was.
EachCounted ==
  phase = "finished" =>
    \A v \in Value : returned[Shared][v] = IF v \in Present(Shared) THEN 1 ELSE 0

\* The benchmark ends: the workers do not miss done, nor does a full pool, an
\* ABORT or the wait of the owner for its workers keep it from ending.
Terminates == <>(phase = "finished")
=============================================================================
