SPECIFICATION FairBenchmarkSpec
CONSTANTS
  d1 = d1
  p1 = p1
  p2 = p2
  Zero = Zero
  NoDeque = NoDeque
  Deque = {d1}
  Shared = d1
  Thief = {p1, p2}
  Ephemeral = {}
  InitCapacity <- SmallFirst
  Capacity <- SmallPool
  Value <- BenchmarkValue
  K = 4
  MaxItems <- FiveItems
INVARIANTS LeftMeansEmpty EachCounted
PROPERTIES Terminates
CHECK_DEADLOCK FALSE
