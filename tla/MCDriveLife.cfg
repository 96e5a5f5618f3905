SPECIFICATION Spec
CONSTANTS
  Lives <- EveryLife
  MinSpan = 1
  QuietMin = 1
CHECK_DEADLOCK FALSE
INVARIANT SeriesIsSound
INVARIANT NothingUnlivedIsClaimed
INVARIANT ThinningKeepsTheVerdict
