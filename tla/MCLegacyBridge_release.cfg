\* FilterLegacy in a release build, where the index-vector DCHECK is
\* compiled out, on the same tables.
CONSTANTS
  N = 6
  Vals = {0, 1}
  NumConstraints = 2
  Builds = {"release"}
  Tables <- MCTables
  BridgeConstraints <- MCBridgeConstraints
SPECIFICATION Spec
INVARIANT BridgeMatchesLegacy
CHECK_DEADLOCK FALSE
