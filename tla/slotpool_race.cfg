SPECIFICATION Spec
CONSTANTS
  f1 = f1
  f2 = f2
  f3 = f3
  Files <- ThreeFiles
  Oversized <- OneLongFile
  SlotCount = 2
  Concurrent = TRUE
  MapFixedMayFail = TRUE
  RestoreMayFail = FALSE
INVARIANTS HeldMappingIsOwn
