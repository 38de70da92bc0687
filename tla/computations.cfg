SPECIFICATION Spec
CONSTANTS
  ModulusBits = 7
  P = 127
  CircleLogOrder = 7
  LogLanes = 2
  Lanes = 4
  BatchSizes = {1, 3, 8, 13, 16}
  ChunkSizes = {4, 5, 8, 16}
  RootLog = 5
  CachedLogSizes = {4, 6}
  MaxExtension = 1
  WBits = 1
  FoldChunk = 1
  PointStride = 4
  ColumnLengths = {1, 4, 5, 8, 9, 16}
  MaxEdits = 1
  HashLogLanes = 3
  HashWordValues = {127, 253, 254, 255}
  QuotientBatch = 2
  CombineChunk = 2
INVARIANTS PackedAgreesWithScalar LanesCanonical TransformsAgree PointEvaluationsAgree KernelsAgree  MixedTreesOpen QuotientsAgree GkrClaimsAreReduced CompositionAgrees LogupBalances
PROPERTIES PackedColumnsAreColumns
CHECK_DEADLOCK FALSE
