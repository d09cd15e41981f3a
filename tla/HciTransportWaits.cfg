SPECIFICATION Spec
CONSTANTS
  Ports = {"tty", "node", "init"}
  Reads = 2
  Tries = 2
  MaxCalls = 1
  MaxOthers = 1
CHECK_DEADLOCK FALSE
PROPERTIES
  WaitsForAnswer
