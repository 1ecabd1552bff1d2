SPECIFICATION Spec
CONSTANTS
  o1 = o1
  o2 = o2
  o3 = o3
  p1 = p1
  p2 = p2
  Owner = {o1, o2, o3}
  Thief = {p1, p2}
  MaxUses = 3
SYMMETRY ThreadSymmetry
INVARIANTS MetadataRaceFree ForeignValueIsKnownStale
CHECK_DEADLOCK FALSE
