-------------------------- MODULE RetryingThieves --------------------------
(***************************************************************************)
(* Thieves that steal through steal_with_retry() of src/steal_backoff.h:   *)
(* the wrapper of StealBackoff around the steps of WorkStealingDeque.  A   *)
(* worker's own steps are part of the steps of its steals.                 *)
(***************************************************************************)
EXTENDS DequeInvariants

CONSTANTS
  RetryConfig,  \* the StealBackoffConfig of all workers
  AbortBound    \* bound: aborts in a row that the history counts

\* The constructor of StealBackoff accepts the configuration.
ASSUME RetryAssumption ==
  /\ RetryConfig \in [max_attempts: Nat, initial_window: Nat, max_window: Nat]
  /\ RetryConfig.max_attempts \in 1..64
  /\ {RetryConfig.initial_window, RetryConfig.max_window} \subseteq {2 ^ k : k \in 0..16}
  /\ RetryConfig.initial_window <= RetryConfig.max_window
  /\ AbortBound \in 1..17

VARIABLE worker  \* worker[p]: the StealBackoff of thief p, and its call

Fresh == [window |-> 0, victim |-> NoDeque, pc |-> "idle", attempt |-> 0,
          result |-> "none", aborts |-> 0]

RetryInit == Init /\ worker = [p \in Thief |-> Fresh]

\* The thief's wrapper as StealBackoff sees it.
Backoff(p) == INSTANCE StealBackoff WITH
  Address <- Deque, NoAddress <- NoDeque, Config <- {RetryConfig},
  config <- RetryConfig, window <- worker[p].window, victim <- worker[p].victim,
  call <- [pc |-> worker[p].pc, attempt |-> worker[p].attempt],
  result <- worker[p].result, stale <- FALSE, aborts <- worker[p].aborts

WorkerGoes(p, w) == worker' = [worker EXCEPT ![p] = w]

\* A call begins with its first attempt.
RetryCall(p, d) ==
  LET w == worker[p]
      same == w.victim = d
  IN /\ w.pc = "idle"
     /\ StealReadTop(p, d)
     /\ WorkerGoes(p, [Fresh EXCEPT !.victim = d, !.pc = "steal",
                         !.window = IF same THEN w.window ELSE 0,
                         !.aborts = IF same THEN w.aborts ELSE 0])

\* After an abort and a pause, a fresh attempt at the same deque.
RetryAgain(p) ==
  /\ worker[p].pc = "steal"
  /\ StealReadTop(p, worker[p].victim)
  /\ UNCHANGED worker

\* Faulty variant: the window grows on an ABORT only if another attempt follows.
AfterLastKept(p, result) ==
  LET w == [worker[p] EXCEPT !.attempt = @ + 1]
      last == w.attempt = RetryConfig.max_attempts
  IN IF result = "ABORT"
     THEN [w EXCEPT !.pc = IF last THEN "idle" ELSE @,
                    !.result = IF last THEN "ABORT" ELSE @,
                    !.window = IF last THEN @ ELSE Backoff(p)!Doubled(@),
                    !.aborts = Backoff(p)!OneMore(@)]
     ELSE [w EXCEPT !.pc = "idle", !.result = result, !.window = 0, !.aborts = 0]

\* The worker after an attempt, which ends its call unless it is an ABORT
\* with attempts left.
After(p, result) ==
  LET w == [worker[p] EXCEPT !.attempt = @ + 1]
      last == w.attempt = RetryConfig.max_attempts
  IN IF result = "ABORT"
     THEN [w EXCEPT !.pc = IF last THEN "idle" ELSE @,
                    !.result = IF last THEN "ABORT" ELSE @,
                    !.window = Backoff(p)!Doubled(@),
                    !.aborts = Backoff(p)!OneMore(@)]
     ELSE [w EXCEPT !.pc = "idle", !.result = result, !.window = 0, !.aborts = 0]

\* A step of the attempt in progress.
Attempt(p) ==
  /\ \/ StealReadOld(p) \/ StealReadBottom(p) \/ StealReadArray(p)
     \/ StealRecheck(p) \/ StealReadSlot(p) \/ StealCas(p)
  /\ WorkerGoes(p, IF thief'[p].pc = "idle" THEN After(p, thief'[p].res) ELSE worker[p])

RetryStep(p) == (\E d \in Deque : RetryCall(p, d)) \/ RetryAgain(p) \/ Attempt(p)
=============================================================================
