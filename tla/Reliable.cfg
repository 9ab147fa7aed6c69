SPECIFICATION FairSpec
CONSTANTS
  Window <- MCWindow
  HeaderLen <- MCHeaderLen
  DescLen <- MCDescLen
  TextLen <- MCTextLen
  BitmapLen <- MCBitmapLen
  Partials <- MCPartials
  MisreadInts <- MCMisreadInts
  RawSeverities = {0, 3, 9}
  MaxReports = 3
  MaxHeartbeats = 0
  Faults = {}
PROPERTIES
  EveryReportAnswered
