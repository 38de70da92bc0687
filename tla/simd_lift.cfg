SPECIFICATION SmallSpec
CONSTANTS
  ModulusBits = 7
  P = 127
  CircleLogOrder = 7
  LogLanes = 4
  Lanes = 16
  RootLog = 5
  WBits = 1
  FoldChunk = 1
  PointStride = 4
  QuotientBatch = 2
  CombineChunk = 2
INVARIANTS LiftsAreSummed
CHECK_DEADLOCK FALSE
