SPECIFICATION FairSpec
CONSTANTS
  f1 = f1
  f2 = f2
  f3 = f3
  Files <- ThreeFiles
  Oversized <- NoFiles
  SlotCount = 2
  Concurrent = TRUE
  MapFixedMayFail = FALSE
  RestoreMayFail = FALSE
INVARIANTS TypeOK HeldMappingIsOwn
PROPERTIES SlotComesBack ImplementsMappings
