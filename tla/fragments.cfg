SPECIFICATION Spec
CONSTANTS
  Conns = {c1, c2}
  MaxPieces = 2
  MaxPackets = 3
  MaxLosses = 1
SYMMETRY ConnSymmetry
INVARIANTS
  TypeOK
  PiecesOnce
  BoundedDamage
CHECK_DEADLOCK FALSE
