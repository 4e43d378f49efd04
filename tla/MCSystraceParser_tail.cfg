\* The example traces, one of them without a final '\n', read to the end.
CONSTANTS
  EventInfo <- MCExampleEventInfo
  Inputs <- MCTailTraces
  MinChunk = 1
  MaxChunk = 5
SPECIFICATION FairSpec
PROPERTY EveryLineEventuallyParsed
CHECK_DEADLOCK FALSE
