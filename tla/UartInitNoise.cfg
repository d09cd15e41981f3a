SPECIFICATION Spec
CONSTANTS
  Attempts = 3
  Reads = 2
  MaxLosses = 2
  MaxBytes = 2
PROPERTIES
  ReadsUntilEvent
