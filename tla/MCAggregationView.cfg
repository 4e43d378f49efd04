\* Both controllers; the caller waits for each call before the next.
CONSTANTS
  Controllers = {"counter", "slice"}
  Tracks <- MCTracks
  TrackInfo <- MCTrackInfo
  Areas <- MCAreas
  MaxCalls = 3
  MaxPending = 1
SPECIFICATION Spec
INVARIANTS TypeOK ViewMatchesLastArea
CHECK_DEADLOCK FALSE
