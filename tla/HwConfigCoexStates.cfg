SPECIFICATION CoexSpec
CONSTANTS
  Chips <- W2LChips
  Rom = 1
  Chunk = 2
  MinAlloc = 1
  MaxAlloc = 6
  Images <- NoImages
  ManfCnts = {0, 1, 2}
  ManfParas <- OnePara
  MaxRequests = 2
INVARIANTS
  UndownloadStaysUndownload
