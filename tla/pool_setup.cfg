SPECIFICATION Spec
CONSTANTS
  SizeDigits = 5
  IndexDigits = 4
  VectorMax = 7
  Config <- SmallRequests
INVARIANTS BuiltIffPossible RangesAreSizeClasses
CHECK_DEADLOCK FALSE
