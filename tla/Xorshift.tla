------------------------------ MODULE Xorshift ------------------------------
(***************************************************************************)
(* The jitter of src/steal_backoff.h: every worker draws from a private    *)
(* xorshift generator, so that workers whose attempts collide pause for    *)
(* different times.                                                        *)
(*                                                                         *)
(* A word is the set of its one bits, numbered from the lowest: exclusive  *)
(* or is the symmetric difference, a shift renumbers the bits and drops    *)
(* those that leave the word.                                              *)
(***************************************************************************)
EXTENDS Integers

CONSTANTS
  Worker,
  Seed,      \* Seed[w]: the word worker w's StealBackoff is constructed with
  MaxDraws   \* bound: the draws of each worker

Bit == 0..31
Word == SUBSET Bit

\* The constructor throws for a zero seed, and the benchmark gives its
\* workers distinct seeds.
ASSUME SeedAssumption ==
  /\ Seed \in [Worker -> Word \ {{}}]
  /\ \A v, w \in Worker : v # w => Seed[v] # Seed[w]

ASSUME DrawsAssumption == MaxDraws \in Nat

VARIABLES
  random,  \* random[w]: random_state_
  draws    \* history: how often w has drawn

generators == <<random, draws>>

Xor(u, w) == (u \ w) \cup (w \ u)

ShiftLeft(w, k) == {b \in Bit : b - k \in w}
ShiftRight(w, k) == {b \in Bit : b + k \in w}

\* Faulty variant: a shift that is combined by AND.
NextMasked(w) ==
  LET w1 == Xor(w, ShiftLeft(w, 13))
      w2 == Xor(w1, ShiftRight(w1, 17))
  IN w2 \cap ShiftLeft(w2, 5)

\* next_random(): the word that replaces the state and is returned.
NextWord(w) ==
  LET w1 == Xor(w, ShiftLeft(w, 13))
      w2 == Xor(w1, ShiftRight(w1, 17))
  IN Xor(w2, ShiftLeft(w2, 5))

Seeded ==
  /\ random = Seed
  /\ draws = [w \in Worker |-> 0]

Draw(w) ==
  /\ draws[w] < MaxDraws
  /\ random' = [random EXCEPT ![w] = NextWord(@)]
  /\ draws' = [draws EXCEPT ![w] = @ + 1]

SomeDraw == \E w \in Worker : Draw(w)

GeneratorSpec == Seeded /\ [][SomeDraw]_generators
-----------------------------------------------------------------------------
\* A generator never reaches zero, from which it could not leave: no worker
\* ends up with the same jitter in every pause.
NeverZero == \A w \in Worker : random[w] \in Word \ {{}}

\* Workers never fall into step: after the same number of draws, two workers
\* are in different states, so aborting together does not make them pause and
\* collide together ever after.
NeverInStep ==
  \A v, w \in Worker : v # w /\ draws[v] = draws[w] => random[v] # random[w]
=============================================================================
