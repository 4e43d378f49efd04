\* Four rows, stacks of up to two null overlays, every ascending row map,
\* one call per behaviour, either strategy.
CONSTANTS
  N = 4
  Vals = {0, 1}
  MaxOverlays = 2
  NumCalls = 1
  Constraints <- MCConstraints
  InitialRowMaps <- MCAllRowMaps
SPECIFICATION Spec
INVARIANTS TypeOK FilterMatchesLegacy IndexedBookkeeping
\* The behaviour ends once the calls are made.
CHECK_DEADLOCK FALSE
