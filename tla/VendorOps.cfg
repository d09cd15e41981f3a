SPECIFICATION Spec
CONSTANTS
  Chips <- Interfaces
  MaxFd = 6
  MaxSessions = 3
  MaxRepeats = 2
CHECK_DEADLOCK FALSE
INVARIANTS
  
  NoStaleDescriptor
  SpeedsMatch
  SessionEndsReset
  PowerIsCut
PROPERTIES
  WakeKeepsPower
