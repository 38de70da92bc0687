SPECIFICATION FairSpec
CONSTANTS
  Workers = 3
  MaxU32 = 12
  Cap = 4
INVARIANT ResultIsSmallest
PROPERTY GrindEnds
