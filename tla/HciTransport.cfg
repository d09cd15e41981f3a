SPECIFICATION Spec
CONSTANTS
  Ports = {"tty", "node", "init"}
  Reads = 2
  Tries = 2
  MaxCalls = 2
  MaxOthers = 1
CHECK_DEADLOCK FALSE
INVARIANTS
  FramesIntact
  AnswersLag
PROPERTIES
  CallsEnd
