---------------------------- MODULE StealBackoff ----------------------------
(***************************************************************************)
(* The retry wrapper of src/steal_backoff.h: a worker's private pause      *)
(* window and steal_with_retry().  The worker touches no shared state but  *)
(* through steal(), whose result may be any of the three at any attempt.   *)
(*                                                                         *)
(* Victims are compared by address.  A deque may be destroyed and another  *)
(* one built at its address; the worker is then bound to call              *)
(* begin_search() before it steals again, as the comment there demands.    *)
(* A pause touches nothing: it is the time between two steps.  How long it *)
(* is, module Xorshift says.                                               *)
(***************************************************************************)
EXTENDS Integers

CONSTANTS
  Address,     \* the addresses at which deques live
  NoAddress,   \* nullptr
  Config,      \* the StealBackoffConfigs that constructors are called with
  AbortBound   \* bound: aborts in a row that the history counts

ASSUME BackoffAssumption ==
  /\ Config \subseteq [max_attempts: Nat, initial_window: Nat, max_window: Nat]
  /\ NoAddress \notin Address

VARIABLES
  config,          \* config_
  window, victim,  \* window_ and victim_
  call,            \* [pc, attempt] of steal_with_retry
  result,          \* of the last call
  stale,           \* the deque at address victim_ was replaced
  aborts           \* history: aborts in a row by the deque now at victim_

vars == <<config, window, victim, call, result, stale, aborts>>

Outcome == {"SUCCESS", "EMPTY", "ABORT"}

\* The powers of two up to max_supported_window.
PowersOfTwo == {2 ^ k : k \in 0..16}

\* Faulty variant: the initial window may exceed the maximal one.
ValidUnordered(c) ==
  /\ c.max_attempts \in 1..64
  /\ c.initial_window \in PowersOfTwo
  /\ c.max_window \in PowersOfTwo

\* The constructor throws for any other configuration.
ValidConfig(c) ==
  /\ c.max_attempts \in 1..64
  /\ c.initial_window \in PowersOfTwo /\ c.initial_window <= c.max_window
  /\ c.max_window \in PowersOfTwo

\* No window grows after AbortBound aborts in a row; 17 are enough for every
\* configuration.
ASSUME AbortBoundAssumption ==
  /\ AbortBound \in 1..17
  /\ \A c \in Config : ValidConfig(c) =>
       c.max_window <= c.initial_window * 2 ^ (AbortBound - 1)

Smaller(m, n) == IF m < n THEN m ELSE n

\* record_abort().
Doubled(w) ==
  IF w = 0 THEN config.initial_window ELSE Smaller(w * 2, config.max_window)

\* What the history counts up to.
OneMore(n) == Smaller(n + 1, AbortBound)

Init ==
  /\ config \in {c \in Config : ValidConfig(c)}
  /\ window = 0 /\ victim = NoAddress
  /\ call = [pc |-> "idle", attempt |-> 0] /\ result = "none"
  /\ stale = FALSE /\ aborts = 0

BeginSearch ==
  /\ call.pc = "idle"
  /\ window' = 0 /\ victim' = NoAddress
  /\ stale' = FALSE /\ aborts' = 0
  /\ UNCHANGED <<config, call, result>>

\* Another deque is built at the address of the last victim.
Replace ==
  /\ call.pc = "idle" /\ victim # NoAddress
  /\ stale' = TRUE /\ aborts' = 0
  /\ UNCHANGED <<config, window, victim, call, result>>

\* Faulty variant: the window survives a change of victim.
SelectVictimKeeping(a) ==
  /\ victim' = a
  /\ UNCHANGED window

SelectVictim(a) ==
  /\ victim' = a
  /\ window' = IF victim # a THEN 0 ELSE window

\* The first attempt starts: max_attempts is not 0.
Call(a) ==
  /\ call.pc = "idle"
  /\ ~stale
  /\ SelectVictim(a)
  /\ call' = [pc |-> "steal", attempt |-> 0]
  /\ result' = "none"
  /\ aborts' = IF victim # a THEN 0 ELSE aborts
  /\ UNCHANGED <<config, stale>>

\* victim.steal() returned r, not ABORT.
Settle(r) ==
  /\ call.pc = "steal" /\ r # "ABORT"
  /\ window' = 0
  /\ call' = [pc |-> "idle", attempt |-> call.attempt + 1]
  /\ result' = r
  /\ aborts' = 0
  /\ UNCHANGED <<config, victim, stale>>

\* Faulty variant: one attempt too many.
OneTooMany(attempt) == attempt <= config.max_attempts

AttemptsLeft(attempt) == attempt < config.max_attempts

\* The next attempt starts, or the caller gets ABORT; window and victim stay
\* for its next call.
RecordAbort ==
  /\ call.pc = "steal"
  /\ window' = Doubled(window)
  /\ aborts' = OneMore(aborts)
  /\ LET tried == call.attempt + 1 IN
       \/ /\ AttemptsLeft(tried)
          /\ call' = [pc |-> "steal", attempt |-> tried]
          /\ UNCHANGED result
       \/ /\ ~AttemptsLeft(tried)
          /\ call' = [pc |-> "idle", attempt |-> tried]
          /\ result' = "ABORT"
  /\ UNCHANGED <<config, victim, stale>>

Next ==
  \/ BeginSearch \/ Replace
  \/ \E a \in Address : Call(a)
  \/ (\E r \in Outcome : Settle(r)) \/ RecordAbort

Spec == Init /\ [][Next]_vars
-----------------------------------------------------------------------------
\* The window is 0 or a power of two between the initial and the maximal one,
\* as the mask of the jitter needs it, for every configuration accepted.
TypeOK ==
  /\ ValidConfig(config)
  /\ window \in {0} \cup
       {w \in PowersOfTwo : config.initial_window <= w /\ w <= config.max_window}
  /\ victim \in Address \cup {NoAddress}
  /\ call \in [pc: {"idle", "steal"}, attempt: 0..config.max_attempts]
  /\ result \in Outcome \cup {"none"}
  /\ stale \in BOOLEAN /\ aborts \in 0..AbortBound

\* The window after n aborts in a row.
WindowAfter(n) ==
  IF n = 0 THEN 0 ELSE Smaller(config.initial_window * 2 ^ (n - 1), config.max_window)

\* The window that masks the jitter is the one that the aborts in a row of
\* this very deque have earned, across calls: 0 at first, then doubling from
\* the initial to the maximal window.  No other deque's aborts count, nor any
\* from before a success or an EMPTY, even if the deque moved into the
\* address of the last one.
WindowIsEarned == ~stale => window = WindowAfter(aborts)

\* A worker that is told ABORT made exactly max_attempts attempts in that call,
\* each of which aborted.
AbortIsExhausted ==
  (call.pc = "idle" /\ result = "ABORT") =>
    /\ call.attempt = config.max_attempts
    /\ ~stale /\ victim # NoAddress => aborts >= Smaller(config.max_attempts, AbortBound)
=============================================================================
