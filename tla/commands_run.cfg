SPECIFICATION Spec
CONSTANTS
  Operations = {"start", "stop"}
  Configs = 0
  Combos = {}
  Values = {v1}
  MaxCommands = 4
  MaxNest = 2
  MaxChanges = 0
INVARIANT RunningInStep
CHECK_DEADLOCK FALSE
