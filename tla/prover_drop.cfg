SPECIFICATION FairSpec
CONSTANTS
  Backend = "simd"
  Settings <- AnyCalls
  ColumnBytes <- Bytes
  Budget <- Budgets
INVARIANTS BuffersGoHome
