SPECIFICATION Spec
CONSTANTS
  d1 = d1
  d2 = d2
  p1 = p1
  p2 = p2
  Zero = Zero
  NoDeque = NoDeque
  Deque = {d1}
  Thief = {p1}
  Ephemeral = {}
  InitCapacity <- SmallInit
  Capacity <- Three
  Value <- MCValue
  K = 4
  MaxItems <- Items8
  Fill = 8
ACTION_CONSTRAINT FilledFirst
INVARIANTS ItemInv InPushOrder RecordsAccounted
PROPERTIES ImplementsAbstract
