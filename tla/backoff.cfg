SPECIFICATION JitteredSpec
CONSTANTS
  a1 = a1
  a2 = a2
  Address = {a1, a2}
  NoAddress = NoAddress
  Config <- SmallConfigs
  AbortBound = 6
  Worker <- Worker3
  Self = 1
  Seed <- BenchmarkSeed
  MaxDraws = 7
SYMMETRY AddressSymmetry
INVARIANTS TypeOK WindowIsEarned AbortIsExhausted NeverZero NeverInStep
