SPECIFICATION FairSpec
CONSTANTS
  Backend = "cpu"
  Settings <- LowSettings
  ColumnBytes <- Bytes
  Budget <- Budgets
INVARIANTS CastsAreSound
