CONSTANTS
  CircleLogOrder = 10
  Settings <- MCSettings
SPECIFICATION Spec
INVARIANTS TypeOK HonestProofAccepted AcceptedProofIsGenuine ChallengesBindProof MemoryModesAgree
