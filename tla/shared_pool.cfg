SPECIFICATION Spec
CONSTANTS
  d1 = d1
  d2 = d2
  p1 = p1
  p2 = p2
  Zero = Zero
  NoDeque = NoDeque
  Deque = {d1, d2}
  Thief = {p1}
  Ephemeral = {d2}
  InitCapacity <- SmallInit
  Capacity <- Two
  Value <- MCValue
  K = 4
  MaxItems <- Items4
  Fill = 4
ACTION_CONSTRAINT FilledFirst
INVARIANTS StructureInv RecordsAccounted ClaimIsCurrent AtMostOnce
