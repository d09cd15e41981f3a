SPECIFICATION CoexSpec
CONSTANTS
  Chips <- AllChips
  Rom = 1
  Chunk = 2
  MinAlloc = 1
  MaxAlloc = 6
  Images <- SomeImages
  ManfCnts = {0, 1, 2}
  ManfParas <- Paras
  MaxRequests = 2
INVARIANTS
  TypeOK
  CpuRunsWholeImage
  ChunksAreFresh
  IccmBeforeDccm
  HeapSafe
  SuccessMeansConfigured
  WakeRecordsComplete
PROPERTIES
  BuffersAccounted
  NeverFallsSilent
  ImplementsFwCfg
  BusyEnds
