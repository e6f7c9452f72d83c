SPECIFICATION Spec
CONSTANTS
  FLAG = FLAG
  DLE = DLE
  Plain = {x}
  Frames <- SomeFrames
  MaxFrames = 4
  MaxErrors = 1
INVARIANTS
  TypeOK
  BoundedDamage
  BoundedGarbage
CHECK_DEADLOCK FALSE
