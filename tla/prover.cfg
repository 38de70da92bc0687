SPECIFICATION FairSpec
CONSTANTS
  Backend = "simd"
  Settings <- AllSettings
  ColumnBytes <- Bytes
  Budget <- Budgets
INVARIANTS TypeOK MappedMemoryIsSound NoPanic PeakIsLow HeapWithinBudget NoColumnIsLost
PROPERTIES CoefficientsKept ProofEnds ImplementsProtocol
