\* FilterLegacy's loop: two calls on a six-row column with at most one null
\* overlay, starting from the whole table; the first call can leave a row
\* map sparse enough ({0, 5}) for the second to take the indexed strategy.
CONSTANTS
  N = 6
  Vals = {0, 1}
  MaxOverlays = 1
  NumCalls = 2
  Constraints <- MCConstraints
  InitialRowMaps <- MCFullRange
SPECIFICATION Spec
INVARIANTS TypeOK FilterMatchesLegacy IndexedBookkeeping
\* The behaviour ends once the calls are made.
CHECK_DEADLOCK FALSE
