\* Every stream of up to five tokens, cut into chunks in every possible way,
\* empty chunks included.
CONSTANTS
  EventInfo <- MCEventInfo
  Inputs <- MCAllStreams
  MinChunk = 0
  MaxChunk = 5
SPECIFICATION Spec
INVARIANT ChunkingPreservesLines
CHECK_DEADLOCK FALSE
