\* Every stream of up to five tokens, cut into chunks in every possible
\* way.
CONSTANTS
  EventInfo <- MCEventInfo
  Inputs <- MCAllStreams
  MinChunk = 1
  MaxChunk = 5
SPECIFICATION Spec
INVARIANTS TypeOK ChunkingPreservesLines
\* The trace ends when all of it has been handed to Parse().
CHECK_DEADLOCK FALSE
