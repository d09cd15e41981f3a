SPECIFICATION Spec
CONSTANTS
  CheckTime = 1
  RmmodTime = 5
  LoadTime = 10
INVARIANTS
  ResultsAreTrue
  CheckIsFirstLook
  FailsForAReason
PROPERTIES
  PowerOnEnds
