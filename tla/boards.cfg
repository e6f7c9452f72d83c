SPECIFICATION Spec
CONSTANTS
  Layouts <- SomeLayouts
  LogMax = 2
  MaxBoots = 2
  MaxReports = 2
  MaxNotes = 3
  MaxIndex = 1
  MaxLosses = 1
  MaxBehind = 0
INVARIANTS
  TypeOK
  DataDescribed
  EventNamed
  UpdatedComplete
  ConfigsAsReported
  LogsAreRecent
  IndexInRange
CHECK_DEADLOCK FALSE
