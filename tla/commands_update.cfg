SPECIFICATION Spec
CONSTANTS
  Operations = {"update"}
  Configs = 2
  Combos = {2}
  Values = {v1, v2}
  MaxCommands = 5
  MaxNest = 2
  MaxChanges = 1
SYMMETRY ValueSymmetry
INVARIANTS
  TypeOK
  UpdatePrefix
  BoardInStep
CHECK_DEADLOCK FALSE
