CONSTANTS
  CircleLogOrder = 10
  Settings <- PreprocessedSettings
SPECIFICATION Spec
INVARIANT HonestProofAccepted
