------------------------ MODULE JitteredWorkerProofs ------------------------
(***************************************************************************)
(* Theorems about one worker of the retry wrapper.  The generator step is  *)
(* one-to-one on words, so for every set of workers, all seeds and any     *)
(* number of draws no state becomes zero and no two workers fall into      *)
(* step.  The window is what the aborts in a row have earned, for every    *)
(* configuration and any addresses.                                        *)
(***************************************************************************)
EXTENDS JitteredWorker, TLAPS

-----------------------------------------------------------------------------
(* The generators.                                                         *)

\* The bits in which two words differ.
Differ(u, w, b) == (b \in u) # (b \in w)

\* Words that differ in no bit are equal.
LEMMA WordsEqual ==
  ASSUME NEW u \in Word, NEW w \in Word,
         \A b \in Bit : ~Differ(u, w, b)
  PROVE  u = w
PROOF BY DEF Word, Differ

\* A word is determined by its exclusive or with a left shift of it: a bit in
\* which two words differ would make them differ in the bit k places lower,
\* and so on down to below bit 0.
LEMMA LeftOneToOne ==
  ASSUME NEW u \in Word, NEW w \in Word, NEW k \in {5, 13},
         Xor(u, ShiftLeft(u, k)) = Xor(w, ShiftLeft(w, k))
  PROVE  u = w
PROOF
<1>1. ASSUME NEW b \in Bit, Differ(u, w, b)
      PROVE  b - k \in Bit /\ Differ(u, w, b - k)
  <2>1. (b \in Xor(u, ShiftLeft(u, k))) <=> (b \in Xor(w, ShiftLeft(w, k)))
    OBVIOUS
  <2>2. Differ(u, w, b - k)
    BY <1>1, <2>1 DEF Xor, ShiftLeft, Differ
  <2> QED BY <2>2 DEF Word, Differ
<1>2. ASSUME NEW b \in Bit, Differ(u, w, b) PROVE FALSE
  <2>1. b - k \in Bit /\ Differ(u, w, b - k)  BY <1>1, <1>2
  <2>2. b - k - k \in Bit /\ Differ(u, w, b - k - k)  BY <1>1, <2>1
  <2>3. b - k - k - k \in Bit /\ Differ(u, w, b - k - k - k)  BY <1>1, <2>2
  <2>4. b - k - k - k - k \in Bit /\ Differ(u, w, b - k - k - k - k)  BY <1>1, <2>3
  <2>5. b - k - k - k - k - k \in Bit /\ Differ(u, w, b - k - k - k - k - k)  BY <1>1, <2>4
  <2>6. b - k - k - k - k - k - k \in Bit /\ Differ(u, w, b - k - k - k - k - k - k)
    BY <1>1, <2>5
  <2>7. b - k - k - k - k - k - k - k \in Bit  BY <1>1, <2>6
  <2> QED BY <2>7 DEF Bit
<1> QED BY <1>2, WordsEqual

\* The same for a right shift by more than half a word.
LEMMA RightOneToOne ==
  ASSUME NEW u \in Word, NEW w \in Word,
         Xor(u, ShiftRight(u, 17)) = Xor(w, ShiftRight(w, 17))
  PROVE  u = w
PROOF
<1>1. ASSUME NEW b \in Bit, Differ(u, w, b)
      PROVE  b + 17 \in Bit /\ Differ(u, w, b + 17)
  <2>1. (b \in Xor(u, ShiftRight(u, 17))) <=> (b \in Xor(w, ShiftRight(w, 17)))
    OBVIOUS
  <2>2. Differ(u, w, b + 17)
    BY <1>1, <2>1 DEF Xor, ShiftRight, Differ
  <2> QED BY <2>2 DEF Word, Differ
<1>2. ASSUME NEW b \in Bit, Differ(u, w, b) PROVE FALSE
  <2>1. b + 17 \in Bit /\ Differ(u, w, b + 17)  BY <1>1, <1>2
  <2>2. b + 17 + 17 \in Bit  BY <1>1, <2>1
  <2> QED BY <2>2 DEF Bit
<1> QED BY <1>2, WordsEqual

\* Each of the three shift-and-xor steps makes a word of a word,
LEMMA XorIsWord ==
  ASSUME NEW w \in Word
  PROVE  /\ \A k \in {5, 13} : Xor(w, ShiftLeft(w, k)) \in Word
         /\ Xor(w, ShiftRight(w, 17)) \in Word
PROOF BY DEF Word, Xor, ShiftLeft, ShiftRight

\* and so does a whole draw.
LEMMA NextIsWord == ASSUME NEW w \in Word PROVE NextWord(w) \in Word
PROOF BY XorIsWord DEF NextWord

\* Two states with the same successor are the same state.
LEMMA NextOneToOne ==
  ASSUME NEW u \in Word, NEW w \in Word, NextWord(u) = NextWord(w)
  PROVE  u = w
PROOF
<1> DEFINE u1 == Xor(u, ShiftLeft(u, 13))
           w1 == Xor(w, ShiftLeft(w, 13))
           u2 == Xor(u1, ShiftRight(u1, 17))
           w2 == Xor(w1, ShiftRight(w1, 17))
<1>1. u1 \in Word /\ w1 \in Word  BY XorIsWord
<1>2. u2 \in Word /\ w2 \in Word  BY <1>1, XorIsWord
<1>3. u2 = w2
  <2>1. Xor(u2, ShiftLeft(u2, 5)) = Xor(w2, ShiftLeft(w2, 5))  BY DEF NextWord
  <2> HIDE DEF u2, w2
  <2> QED BY <1>2, <2>1, LeftOneToOne
<1>4. u1 = w1
  <2> HIDE DEF u1, w1
  <2> QED BY <1>1, <1>3, RightOneToOne
<1> QED BY <1>4, LeftOneToOne

\* Zero is the successor of zero, hence of nothing else.
LEMMA NextNotZero ==
  ASSUME NEW w \in Word \ {{}}
  PROVE  NextWord(w) \in Word \ {{}}
PROOF
<1>1. NextWord({}) = {} /\ {} \in Word  BY DEF NextWord, Xor, ShiftLeft, ShiftRight, Word
<1> QED BY <1>1, NextIsWord, NextOneToOne

-----------------------------------------------------------------------------
\* What both properties need of the variables.
GeneratorType ==
  /\ random \in [Worker -> Word \ {{}}]
  /\ draws \in [Worker -> Nat]

\* Draws lead from nonzero words to nonzero words.
LEMMA GeneratorTyped == GeneratorSpec => []GeneratorType
PROOF
<1>1. Seeded => GeneratorType  BY SeedAssumption DEF Seeded, GeneratorType
<1>2. GeneratorType /\ [SomeDraw]_generators => GeneratorType'
  BY NextNotZero DEF GeneratorType, SomeDraw, Draw, generators
<1> QED BY <1>1, <1>2, PTL DEF GeneratorSpec

\* random_state_ never becomes zero, whatever the nonzero seeds and however
\* often the workers draw.
THEOREM NonzeroForever == GeneratorSpec => []NeverZero
PROOF
<1>1. GeneratorType => NeverZero  BY DEF GeneratorType, NeverZero
<1> QED BY <1>1, GeneratorTyped, PTL

-----------------------------------------------------------------------------
\* h[w][k] is the state of w after k draws.
Orbits == [Worker -> [Nat -> Word]]

\* h records the states of all workers up to now, and no two workers agree in
\* it on the state after the same number of draws.
History(h) ==
  /\ \A w \in Worker : h[w][draws[w]] = random[w]
  /\ \A w \in Worker, k \in Nat : k < draws[w] => h[w][k + 1] = NextWord(h[w][k])
  /\ \A v, w \in Worker, k \in Nat :
       v # w /\ k <= draws[v] /\ k <= draws[w] => h[v][k] # h[w][k]

\* Two workers were in different states after each number of draws that both
\* have made.
StepInv == GeneratorType /\ \E h \in Orbits : History(h)

\* Before the first draw a history of one state per worker will do.
LEMMA StepInvInit == Seeded => StepInv
PROOF
<1> SUFFICES ASSUME Seeded PROVE StepInv
  OBVIOUS
<1> DEFINE h == [w \in Worker |-> [k \in Nat |-> Seed[w]]]
<1>1. GeneratorType  BY SeedAssumption DEF Seeded, GeneratorType
<1>2. h \in Orbits  BY SeedAssumption DEF Orbits
<1>3. History(h)  BY SeedAssumption DEF Seeded, History
<1> QED BY <1>1, <1>2, <1>3 DEF StepInv

\* A draw appends one state to the history of its worker.
LEMMA StepInvDraw ==
  ASSUME StepInv, NEW w \in Worker, Draw(w)
  PROVE  StepInv'
PROOF
<1>1. GeneratorType  BY DEF StepInv
<1>2. GeneratorType'  BY <1>1, NextNotZero DEF GeneratorType, Draw
<1>3. PICK h \in Orbits : History(h)  BY DEF StepInv
<1> DEFINE n == draws[w] + 1
<1>4. /\ n \in Nat /\ random[w] \in Word /\ NextWord(random[w]) \in Word
      /\ draws' = [draws EXCEPT ![w] = n]
      /\ random' = [random EXCEPT ![w] = NextWord(random[w])]
  BY <1>1, NextIsWord DEF GeneratorType, Draw
<1>5. PICK g \in Orbits : g = [h EXCEPT ![w] = [@ EXCEPT ![n] = NextWord(random[w])]]
  BY <1>4 DEF Orbits
<1>6. \A v \in Worker, k \in Nat :
        g[v][k] = IF v = w /\ k = n THEN NextWord(random[w]) ELSE h[v][k]
  BY <1>4, <1>5 DEF Orbits
<1>7. \A v \in Worker : g[v][draws'[v]] = random'[v]
  BY <1>1, <1>3, <1>4, <1>6 DEF GeneratorType, History
<1>8. \A v \in Worker, k \in Nat : k < draws'[v] => g[v][k + 1] = NextWord(g[v][k])
  BY <1>1, <1>3, <1>4, <1>6 DEF GeneratorType, History
<1>9. \A u, v \in Worker, k \in Nat :
        u # v /\ k <= draws'[u] /\ k <= draws'[v] => g[u][k] # g[v][k]
  <2> SUFFICES ASSUME NEW u \in Worker, NEW v \in Worker, NEW k \in Nat,
                      u # v, k <= draws'[u], k <= draws'[v]
               PROVE  g[u][k] # g[v][k]
    OBVIOUS
  <2>1. CASE k <= draws[u] /\ k <= draws[v]
    BY <1>1, <1>3, <1>4, <1>6, <2>1 DEF GeneratorType, History
  <2>2. CASE k = n /\ w \in {u, v}
    <3>1. k - 1 \in Nat /\ k - 1 < draws'[u] /\ k - 1 < draws'[v]
      BY <1>1, <1>4, <2>2 DEF GeneratorType
    <3>2. k - 1 <= draws[u] /\ k - 1 <= draws[v]
      BY <1>1, <1>4, <2>2, <3>1 DEF GeneratorType
    <3>3. h[u][k - 1] # h[v][k - 1]  BY <1>3, <3>1, <3>2 DEF History
    <3>4. g[u][k - 1] = h[u][k - 1] /\ g[v][k - 1] = h[v][k - 1]
      BY <1>4, <1>6, <2>2, <3>1
    <3>5. g[u][k - 1] \in Word /\ g[v][k - 1] \in Word
      BY <1>5, <3>1 DEF Orbits
    <3>6. g[u][k] = NextWord(g[u][k - 1]) /\ g[v][k] = NextWord(g[v][k - 1])
      <4>1. (k - 1) + 1 = k  OBVIOUS
      <4> QED BY <1>8, <3>1, <4>1
    <3> QED BY <3>3, <3>4, <3>5, <3>6, NextOneToOne
  <2> QED BY <1>1, <1>4, <2>1, <2>2 DEF GeneratorType
<1>10. History(g)'
  BY <1>7, <1>8, <1>9 DEF History
<1> QED BY <1>2, <1>5, <1>10 DEF StepInv

\* Workers with distinct seeds never get into the same state by the same
\* number of draws: collisions of their attempts are not repeated for ever by
\* equal pauses.
THEOREM NeverInStepForever == GeneratorSpec => []NeverInStep
PROOF
<1>1. StepInv /\ [SomeDraw]_generators => StepInv'
  <2>1. ASSUME StepInv, UNCHANGED generators PROVE StepInv'
    BY <2>1 DEF StepInv, GeneratorType, History, generators
  <2> QED BY <2>1, StepInvDraw DEF SomeDraw
<1>2. StepInv => NeverInStep
  BY DEF StepInv, GeneratorType, History, Orbits, NeverInStep
<1> QED BY <1>1, <1>2, StepInvInit, PTL DEF GeneratorSpec

-----------------------------------------------------------------------------
(* The windows.                                                            *)

\* 2 ^ k as an operator of its own: the solver evaluates powers of numbers,
\* but has no laws for those of variables.
Power(k) == 2 ^ k

\* The powers up to max_supported_window,
LEMMA PowerTable ==
  /\ Power(0) = 1 /\ Power(1) = 2 /\ Power(2) = 4 /\ Power(3) = 8
  /\ Power(4) = 16 /\ Power(5) = 32 /\ Power(6) = 64 /\ Power(7) = 128
  /\ Power(8) = 256 /\ Power(9) = 512 /\ Power(10) = 1024 /\ Power(11) = 2048
  /\ Power(12) = 4096 /\ Power(13) = 8192 /\ Power(14) = 16384 /\ Power(15) = 32768
  /\ Power(16) = 65536
BY DEF Power

\* their doubles,
LEMMA PowerDoubles ==
  ASSUME NEW k \in 0..15
  PROVE  Power(k + 1) = 2 * Power(k)
<1>1. \/ (k = 0 /\ k + 1 = 1) \/ (k = 1 /\ k + 1 = 2) \/ (k = 2 /\ k + 1 = 3)
      \/ (k = 3 /\ k + 1 = 4) \/ (k = 4 /\ k + 1 = 5) \/ (k = 5 /\ k + 1 = 6)
      \/ (k = 6 /\ k + 1 = 7) \/ (k = 7 /\ k + 1 = 8) \/ (k = 8 /\ k + 1 = 9)
      \/ (k = 9 /\ k + 1 = 10) \/ (k = 10 /\ k + 1 = 11) \/ (k = 11 /\ k + 1 = 12)
      \/ (k = 12 /\ k + 1 = 13) \/ (k = 13 /\ k + 1 = 14) \/ (k = 14 /\ k + 1 = 15)
      \/ (k = 15 /\ k + 1 = 16)
  OBVIOUS
<1> QED BY <1>1, PowerTable

\* and their range.
LEMMA PowerRange ==
  ASSUME NEW k \in 0..16
  PROVE  Power(k) \in 1..Power(16) /\ Power(k) \in Nat
<1>1. \/ k = 0 \/ k = 1 \/ k = 2 \/ k = 3 \/ k = 4 \/ k = 5 \/ k = 6 \/ k = 7 \/ k = 8
      \/ k = 9 \/ k = 10 \/ k = 11 \/ k = 12 \/ k = 13 \/ k = 14 \/ k = 15 \/ k = 16
  OBVIOUS
<1> QED BY <1>1, PowerTable

\* What validate() accepts as a window is positive and at most
\* max_supported_window, and doubled it is accepted again or too large.
LEMMA PowersOfTwoFacts ==
  ASSUME NEW w \in PowersOfTwo
  PROVE  /\ w \in Nat \ {0} /\ w <= Power(16)
         /\ 2 * w \in PowersOfTwo \/ 2 * w > Power(16)
<1>1. PowersOfTwo = {Power(k) : k \in 0..16}
  BY DEF PowersOfTwo, Power
<1>2. PICK k \in 0..16 : w = Power(k)
  BY <1>1
<1>3. w \in Nat \ {0} /\ w <= Power(16)
  BY <1>2, PowerRange
<1>4. CASE k \in 0..15
  <2>1. 2 * w = Power(k + 1) /\ k + 1 \in 0..16
    BY <1>2, <1>4, PowerDoubles
  <2> QED BY <1>1, <1>3, <2>1
<1>5. CASE k = 16
  BY <1>2, <1>3, <1>5
<1> QED BY <1>3, <1>4, <1>5

\* The window_ of a valid configuration, and what record_abort() makes of it.
Windows == {0} \cup {w \in PowersOfTwo : config.initial_window <= w /\ w <= config.max_window}

\* record_abort() keeps the window among them and never makes it 0.
LEMMA DoubledType ==
  ASSUME ValidConfig(config), NEW w \in Windows
  PROVE  Doubled(w) \in Windows \ {0}
<1>1. /\ config.initial_window \in PowersOfTwo /\ config.max_window \in PowersOfTwo
      /\ config.initial_window <= config.max_window
  BY DEF ValidConfig
<1>2. /\ config.initial_window \in Nat \ {0} /\ config.max_window \in Nat \ {0}
      /\ config.max_window <= Power(16) /\ Power(16) \in Nat
  BY <1>1, PowersOfTwoFacts, PowerRange
<1>3. CASE w = 0
  BY <1>1, <1>2, <1>3 DEF Doubled, Windows
<1>4. CASE w # 0
  <2>1. w \in PowersOfTwo /\ config.initial_window <= w
    BY <1>4 DEF Windows
  <2>2. w \in Nat \ {0} /\ (2 * w \in PowersOfTwo \/ 2 * w > Power(16))
    BY <2>1, PowersOfTwoFacts
  <2>3. w * 2 = 2 * w
    BY <2>2
  <2>4. Doubled(w) = IF 2 * w < config.max_window THEN 2 * w ELSE config.max_window
    BY <1>4, <2>3 DEF Doubled, Smaller
  <2> QED BY <1>1, <1>2, <2>1, <2>2, <2>4 DEF Windows
<1> QED BY <1>3, <1>4

\* One more abort earns the next window.
LEMMA EarnedNext ==
  ASSUME config \in Config, ValidConfig(config), NEW n \in 0..AbortBound
  PROVE  Doubled(WindowAfter(n)) = WindowAfter(OneMore(n))
<1> DEFINE i == config.initial_window
           m == config.max_window
<1>1. i \in Nat \ {0} /\ m \in Nat \ {0} /\ i <= m
  BY PowersOfTwoFacts DEF ValidConfig
<1>2. AbortBound \in 1..17 /\ m <= i * Power(AbortBound - 1)
  BY AbortBoundAssumption DEF Power
<1>3. \A k \in 1..17 : WindowAfter(k) = Smaller(i * Power(k - 1), m)
  BY DEF WindowAfter, Power
<1>4. \A k \in 1..17 : Power(k - 1) \in Nat \ {0}
  <2> SUFFICES ASSUME NEW k \in 1..17  PROVE Power(k - 1) \in Nat \ {0}
    OBVIOUS
  <2>1. k - 1 \in 0..16
    OBVIOUS
  <2> QED BY <2>1, PowerRange
<1>5. CASE n = 0
  <2>1. OneMore(n) = 1
    BY <1>2, <1>5 DEF OneMore, Smaller
  <2>2. WindowAfter(1) = Smaller(i * 1, m)
    BY <1>3, PowerTable
  <2>3. WindowAfter(n) = 0
    BY <1>5 DEF WindowAfter
  <2>4. Doubled(WindowAfter(n)) = i
    BY <2>3 DEF Doubled
  <2>5. Smaller(i * 1, m) = i
    BY <1>1 DEF Smaller
  <2> QED BY <2>1, <2>2, <2>4, <2>5
<1>6. CASE n # 0
  <2> DEFINE x == Power(n - 1)
             w == Smaller(i * x, m)
  <2>1. n \in 1..17 /\ x \in Nat \ {0} /\ WindowAfter(n) = w
    BY <1>2, <1>3, <1>4, <1>6
  <2>2. i * x \in Nat \ {0}
    BY <1>1, <2>1
  <2>3. w \in Nat \ {0} /\ w <= m
    BY <1>1, <2>2 DEF Smaller
  <2>4. Doubled(w) = Smaller(w * 2, m)
    BY <2>3 DEF Doubled
  <2>5. CASE n = AbortBound
    <3>1. OneMore(n) = n
      BY <1>2, <2>5 DEF OneMore, Smaller
    <3>2. w = m
      BY <1>1, <1>2, <2>2, <2>5 DEF Smaller
    <3>3. Smaller(w * 2, m) = m
      BY <1>1, <3>2 DEF Smaller
    <3> QED BY <2>1, <2>4, <3>1, <3>2, <3>3
  <2>6. CASE n # AbortBound
    <3>1. OneMore(n) = n + 1 /\ n + 1 \in 1..17 /\ n - 1 \in 0..15
      BY <1>2, <2>1, <2>6 DEF OneMore, Smaller
    <3>2. Power((n - 1) + 1) = 2 * x
      BY <3>1, PowerDoubles
    <3>3. (n - 1) + 1 = (n + 1) - 1
      BY <2>1
    <3>4. WindowAfter(n + 1) = Smaller(i * (2 * x), m)
      BY <1>3, <3>1, <3>2, <3>3
    <3>5. i * (2 * x) = (i * x) * 2
      BY <1>1, <2>1
    <3>6. Smaller(w * 2, m) = Smaller((i * x) * 2, m)
      BY <1>1, <2>2 DEF Smaller
    <3> QED BY <2>1, <2>4, <3>1, <3>4, <3>5, <3>6
  <2> QED BY <2>5, <2>6
<1> QED BY <1>5, <1>6

-----------------------------------------------------------------------------
(* The wrapper.                                                            *)

\* In the middle of a call, every attempt so far has aborted, and the history
\* knows it.
AttemptsAborted ==
  call.pc = "steal" =>
    /\ ~stale /\ victim # NoAddress
    /\ call.attempt < config.max_attempts
    /\ aborts >= Smaller(call.attempt, AbortBound)

\* The inductive invariant of the wrapper: its three properties, and between
\* two attempts the count of the aborts so far.
BackoffInv ==
  /\ config \in Config /\ TypeOK
  /\ AttemptsAborted /\ WindowIsEarned /\ AbortIsExhausted

\* The numbers of the invariant.
LEMMA BackoffNumbers ==
  ASSUME TypeOK
  PROVE  /\ AbortBound \in Nat \ {0} /\ aborts \in 0..AbortBound
         /\ config.max_attempts \in Nat \ {0} /\ call.attempt \in 0..config.max_attempts
BY AbortBoundAssumption DEF TypeOK, ValidConfig

\* The bound of the history is a number.
LEMMA BoundType == AbortBound \in Nat
BY AbortBoundAssumption

\* A new worker has no victim, no window and no attempts behind it.
LEMMA InitBackoff == Init => BackoffInv
<1> SUFFICES ASSUME Init  PROVE BackoffInv
  OBVIOUS
<1>1. config \in Config /\ ValidConfig(config) /\ config.max_attempts \in Nat
  BY DEF Init, ValidConfig
<1>2. TypeOK
  <2>1. call \in [pc: {"idle", "steal"}, attempt: 0..config.max_attempts]
    BY <1>1 DEF Init
  <2>2. 0 \in 0..AbortBound
    BY BoundType
  <2> QED BY <1>1, <2>1, <2>2 DEF Init, TypeOK
<1> QED BY <1>1, <1>2 DEF Init, BackoffInv, AttemptsAborted, WindowIsEarned, WindowAfter,
       AbortIsExhausted

\* begin_search() takes window and history back together.
LEMMA BeginSearchInv == BackoffInv /\ BeginSearch => BackoffInv'
<1> SUFFICES ASSUME BackoffInv, BeginSearch  PROVE BackoffInv'
  OBVIOUS
<1>1. UNCHANGED <<config, call, result>> /\ call.pc = "idle"
  BY DEF BeginSearch
<1>2. TypeOK'
  <2>1. 0 \in 0..AbortBound
    BY BoundType
  <2>2. window' = 0 /\ victim' = NoAddress /\ stale' = FALSE /\ aborts' = 0
    BY DEF BeginSearch
  <2> QED BY <1>1, <2>1, <2>2 DEF BackoffInv, TypeOK, ValidConfig
<1> QED BY <1>1, <1>2 DEF BackoffInv, BeginSearch, AttemptsAborted, WindowIsEarned, WindowAfter,
       AbortIsExhausted

\* A new deque at the victim's address makes the window stale; begin_search()
\* must come before the next call.
LEMMA ReplaceInv == BackoffInv /\ Replace => BackoffInv'
<1> SUFFICES ASSUME BackoffInv, Replace  PROVE BackoffInv'
  OBVIOUS
<1>1. UNCHANGED <<config, window, victim, call, result>> /\ call.pc = "idle" /\ stale'
  BY DEF Replace
<1>2. TypeOK'
  BY <1>1, BoundType DEF BackoffInv, TypeOK, Replace, ValidConfig
<1> QED BY <1>1, <1>2 DEF BackoffInv, AttemptsAborted, WindowIsEarned, AbortIsExhausted

\* select_victim() resets the window exactly if the address changes.
LEMMA CallInv ==
  ASSUME BackoffInv, NEW a \in Address, Call(a)
  PROVE  BackoffInv'
<1>1. /\ UNCHANGED <<config, stale>> /\ ~stale /\ victim' = a /\ a # NoAddress
      /\ call' = [pc |-> "steal", attempt |-> 0] /\ result' = "none"
      /\ window' = (IF victim # a THEN 0 ELSE window)
      /\ aborts' = (IF victim # a THEN 0 ELSE aborts)
  BY BackoffAssumption DEF Call, SelectVictim
<1>2. TypeOK
  BY DEF BackoffInv
<1>3. /\ AbortBound \in Nat /\ config.max_attempts \in Nat \ {0} /\ aborts \in 0..AbortBound
  BY <1>2, BackoffNumbers
<1>4. TypeOK'
  BY <1>1, <1>2, <1>3 DEF TypeOK, ValidConfig
<1>5. AttemptsAborted'
  BY <1>1, <1>3 DEF AttemptsAborted, Smaller
<1>6. WindowIsEarned'
  BY <1>1 DEF BackoffInv, WindowIsEarned, WindowAfter, Smaller
<1> QED BY <1>1, <1>4, <1>5, <1>6 DEF BackoffInv, AbortIsExhausted

\* A success or an empty deque ends the call and resets the window.
LEMMA SettleInv ==
  ASSUME BackoffInv, NEW r \in Outcome, Settle(r)
  PROVE  BackoffInv'
<1>1. /\ UNCHANGED <<config, victim, stale>> /\ call.pc = "steal" /\ window' = 0 /\ aborts' = 0
      /\ call' = [pc |-> "idle", attempt |-> call.attempt + 1] /\ result' = r /\ r # "ABORT"
  BY DEF Settle
<1>2. TypeOK
  BY DEF BackoffInv
<1>3. /\ AbortBound \in Nat /\ config.max_attempts \in Nat /\ call.attempt \in Nat
      /\ call.attempt < config.max_attempts
  BY <1>1, <1>2, BackoffNumbers DEF BackoffInv, AttemptsAborted
<1>4. TypeOK'
  BY <1>1, <1>2, <1>3 DEF TypeOK, ValidConfig
<1> QED BY <1>1, <1>4 DEF BackoffInv, AttemptsAborted, WindowIsEarned, WindowAfter, AbortIsExhausted

\* An abort doubles the window and counts one more abort; the call goes on
\* as long as attempts are left.
LEMMA RecordAbortInv == BackoffInv /\ RecordAbort => BackoffInv'
<1> SUFFICES ASSUME BackoffInv, RecordAbort  PROVE BackoffInv'
  OBVIOUS
<1> DEFINE tried == call.attempt + 1
<1>1. /\ UNCHANGED <<config, victim, stale>> /\ call.pc = "steal"
      /\ window' = Doubled(window) /\ aborts' = OneMore(aborts)
  BY DEF RecordAbort
<1>2. TypeOK
  BY DEF BackoffInv
<1>3. /\ AbortBound \in Nat \ {0} /\ aborts \in 0..AbortBound
      /\ config.max_attempts \in Nat /\ call.attempt \in Nat
  BY <1>2, BackoffNumbers
<1>4. /\ ~stale /\ victim # NoAddress /\ tried <= config.max_attempts
      /\ aborts >= Smaller(call.attempt, AbortBound)
  BY <1>1, <1>3 DEF BackoffInv, AttemptsAborted
<1>5. aborts' \in 0..AbortBound /\ aborts' >= Smaller(tried, AbortBound)
  BY <1>1, <1>3, <1>4 DEF OneMore, Smaller
<1>6. window' \in Windows
  BY <1>1, <1>2, DoubledType DEF TypeOK, Windows
<1>7. \/ /\ tried < config.max_attempts
         /\ call' = [pc |-> "steal", attempt |-> tried] /\ result' = result
      \/ /\ tried = config.max_attempts
         /\ call' = [pc |-> "idle", attempt |-> tried] /\ result' = "ABORT"
  BY <1>3, <1>4 DEF RecordAbort, AttemptsLeft
<1>8. TypeOK'
  <2>1. call' \in [pc: {"idle", "steal"}, attempt: 0..config.max_attempts]
    BY <1>3, <1>4, <1>7
  <2>2. result' \in Outcome \cup {"none"}
    BY <1>2, <1>7 DEF TypeOK, Outcome
  <2> QED BY <1>1, <1>2, <1>5, <1>6, <2>1, <2>2 DEF TypeOK, Windows, ValidConfig
<1>9. WindowIsEarned'
  <2>1. window = WindowAfter(aborts) /\ config \in Config /\ ValidConfig(config)
    BY <1>2, <1>4 DEF BackoffInv, WindowIsEarned, TypeOK
  <2>2. window' = WindowAfter(aborts')
    BY <1>1, <1>3, <2>1, EarnedNext
  <2> QED BY <1>1, <2>2 DEF WindowIsEarned, WindowAfter
<1>10. AttemptsAborted' /\ AbortIsExhausted'
  <2>1. call'.attempt = tried /\ call'.pc \in {"idle", "steal"}
        /\ (call'.pc = "steal" => tried < config.max_attempts)
        /\ (call'.pc = "idle" => tried = config.max_attempts)
    BY <1>7
  <2>2. Smaller(tried, AbortBound)' = Smaller(tried', AbortBound)
    BY DEF Smaller
  <2> QED BY <1>1, <1>4, <1>5, <2>1 DEF AttemptsAborted, AbortIsExhausted, Smaller
<1> QED BY <1>1, <1>8, <1>9, <1>10 DEF BackoffInv

\* Every step of the worker and of its environment keeps the invariant.
LEMMA BackoffKept == Spec => []BackoffInv
<1>1. BackoffInv /\ [Next]_vars => BackoffInv'
  <2>1. BackoffInv /\ UNCHANGED vars => BackoffInv'
    BY DEF BackoffInv, TypeOK, AttemptsAborted, WindowIsEarned, AbortIsExhausted, vars,
       ValidConfig, WindowAfter, Smaller
  <2> QED BY <2>1, BeginSearchInv, ReplaceInv, CallInv, SettleInv, RecordAbortInv DEF Next
<1> QED BY InitBackoff, <1>1, PTL DEF Spec

\* For every accepted configuration the window stays 0 or a power of two that
\* the configuration allows: the mask of the jitter never drops a bit.
THEOREM BackoffTyped == Spec => []TypeOK
<1>1. BackoffInv => TypeOK
  BY DEF BackoffInv
<1> QED BY BackoffKept, <1>1, PTL

\* The window is the one that the aborts in a row of this very deque have
\* earned, across calls, changes of victim and new deques at old addresses.
THEOREM WindowEarned == Spec => []WindowIsEarned
<1>1. BackoffInv => WindowIsEarned
  BY DEF BackoffInv
<1> QED BY BackoffKept, <1>1, PTL

\* ABORT is returned after exactly max_attempts attempts, all aborted.
THEOREM AbortExhausts == Spec => []AbortIsExhausted
<1>1. BackoffInv => AbortIsExhausted
  BY DEF BackoffInv
<1> QED BY BackoffKept, <1>1, PTL

\* A worker whose pauses draw is a worker next to a set of generators: what
\* holds of either holds of the two together.
THEOREM WorkerHasBoth ==
  JitteredSpec => /\ Spec /\ GeneratorSpec
                  /\ [](TypeOK /\ WindowIsEarned /\ AbortIsExhausted /\ NeverZero /\ NeverInStep)
<1>1. JitteredInit => Init /\ Seeded
  BY DEF JitteredInit
<1>2. [JitteredNext]_<<vars, generators>> => [Next]_vars /\ [SomeDraw]_generators
  BY SelfAssumption DEF JitteredNext, CallPaused, AbortPaused, NoPause, Colleague, Next, SomeDraw
<1>3. JitteredSpec => Spec /\ GeneratorSpec
  BY <1>1, <1>2, PTL DEF JitteredSpec, Spec, GeneratorSpec
<1> QED BY <1>3, BackoffTyped, WindowEarned, AbortExhausts, NonzeroForever, NeverInStepForever, PTL
=============================================================================
