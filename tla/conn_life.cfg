SPECIFICATION FairSpec
CONSTANT MaxOpens = 3
INVARIANTS
  TypeOK
  StatusInStep
  NodesAlive
PROPERTIES
  CloseReturns
  ReadyActedOn
  PortOpenSettles
CHECK_DEADLOCK FALSE
