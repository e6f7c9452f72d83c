SPECIFICATION Spec
CONSTANTS
  Usb = FALSE
  IdSpace = 4
  MaxSends = 3
  MaxNest = 2
  Results <- OkOrNack
INVARIANTS
  AckInv
  NoFalseSuccess
  FifoLine
  AckGated
  AckConsumed
PROPERTY
  IsCommandService
CHECK_DEADLOCK FALSE
