SPECIFICATION FairSpec
CONSTANTS
  Window <- MCWindow
  HeaderLen <- MCHeaderLen
  DescLen <- MCDescLen
  TextLen <- MCTextLen
  BitmapLen <- MCBitmapLen
  Partials <- MCPartials
  MisreadInts <- MCMisreadInts
  RawSeverities = {9}
  MaxReports = 1
  MaxHeartbeats = 0
  Faults = {"timeout", "link"}
PROPERTIES
  LoopEndsAfterClient
