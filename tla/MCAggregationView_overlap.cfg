\* The counter controller with a caller that starts a second call while
\* the first is still awaiting.
CONSTANTS
  Controllers = {"counter"}
  Tracks <- MCTracks
  TrackInfo <- MCTrackInfo
  Areas <- MCAreas
  MaxCalls = 2
  MaxPending = 2
SPECIFICATION Spec
INVARIANT ViewMatchesLastArea
CHECK_DEADLOCK FALSE
