\* The two example lines of ParseSingleSystraceEvent's comment, each in a
\* plain systrace after a "# tracer" header.
CONSTANTS
  EventInfo <- MCExampleEventInfo
  Inputs <- MCExampleTraces
  MinChunk = 1
  MaxChunk = 5
SPECIFICATION Spec
INVARIANT EventThreadsCreated
CHECK_DEADLOCK FALSE
