\* FilterLegacy in a debug build on every two-column table of two rows
\* built from plain, nullable, dense, row-selected, index-vector and
\* ineligible columns, with two constraints.
CONSTANTS
  N = 6
  Vals = {0, 1}
  NumConstraints = 2
  Builds = {"debug"}
  Tables <- MCTables
  BridgeConstraints <- MCBridgeConstraints
SPECIFICATION Spec
INVARIANTS TypeOK BridgeMatchesLegacy
\* FilterLegacy returns once the constraints are applied, or a DCHECK stops
\* it.
CHECK_DEADLOCK FALSE
