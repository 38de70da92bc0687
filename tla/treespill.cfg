SPECIFICATION TreeSpec
CONSTANTS
  Polys = 3
  Size <- MCSize
  MaxFiles = 2
  Columns <- MCColumns
  EvalIndices <- MCEvalIndices
  Packed <- MCPacked
  ChunkBytes = 3
INVARIANTS LoadsOwn ReadsOwnBytes FewRegions
PROPERTIES AllOrNothing Returns ImplementsSpill
