SPECIFICATION Spec
CONSTANTS
  p1 = p1
  p2 = p2
  Owner = Owner
  Thief = {p1, p2}
  Nobody = Nobody
  Name = Name
  Zero = Zero
  MinCapacity = 2
  MaxSize = 8
  MaxPushes = 9
SYMMETRY ThiefSymmetry
INVARIANTS TypeOK
PROPERTIES ImplementsAbstract
