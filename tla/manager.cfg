SPECIFICATION Spec
CONSTANTS
  Ports = {p1, p2}
  UsbPorts = {p1}
  BaudRates = {b1, b2}
  MaxConns = 3
  MaxNest = 2
SYMMETRY Alike
INVARIANTS
  TypeOK
  OnePerPort
  RemovedSilent
  PortFree
  DeletedEnded
CHECK_DEADLOCK FALSE
