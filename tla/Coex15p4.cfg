SPECIFICATION Spec
CONSTANTS
  Peers = {p1, p2}
  MaxFd = 4
  MaxCycles = 3
CHECK_DEADLOCK FALSE
INVARIANTS
  SessionIsOpen
  NoDescriptorLeaks
PROPERTIES
  OneServer
  PowerOffReturns
  ClientsAreServed
