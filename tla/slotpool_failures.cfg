SPECIFICATION FairSpec
CONSTANTS
  f1 = f1
  f2 = f2
  f3 = f3
  Files <- ThreeFiles
  Oversized <- OneLongFile
  SlotCount = 2
  Concurrent = FALSE
  MapFixedMayFail = TRUE
  RestoreMayFail = TRUE
INVARIANTS FreeSlotIsEmpty
PROPERTIES MapReturns
