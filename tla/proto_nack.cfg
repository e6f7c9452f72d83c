SPECIFICATION FairSpec
CONSTANTS
  Usb = FALSE
  IdSpace = 4
  MaxSends = 1
  MaxNest = 1
  Results <- OkOrNack
PROPERTY
  CallsReturn
CHECK_DEADLOCK FALSE
