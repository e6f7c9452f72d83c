SPECIFICATION FairSpec
CONSTANTS
  Usb = TRUE
  IdSpace = 2
  MaxSends = 2
  MaxNest = 2
  Results <- OkOrError
INVARIANT TypeOK
PROPERTIES
  CallsReturn
  CommandsSent
  WorkerFinishes
CHECK_DEADLOCK FALSE
