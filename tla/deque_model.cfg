SPECIFICATION ModelSpec
CONSTANTS
  d1 = d1
  d2 = d2
  p1 = p1
  p2 = p2
  Zero = Zero
  NoDeque = NoDeque
  Deque = {d1, d2}
  Original = d1
  Borrower = d2
  Thief = {p1, p2}
  Ephemeral = {d1, d2}
  InitCapacity <- ModelCapacity
  Capacity <- SmallAndLarge
  Value <- ModelValue
  K = 4
  MaxItems <- ModelItems
  RetryConfig <- ModelConfig
  AbortBound = 4
  OwnerPops = 4
  MainPops = 5
  Batches = 2
SYMMETRY ThiefSymmetry
INVARIANTS SeenOnce RetryContract AllReturned
PROPERTIES Backoffs
CHECK_DEADLOCK FALSE
