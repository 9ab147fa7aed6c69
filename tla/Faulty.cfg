SPECIFICATION Spec
CONSTANTS
  Window <- MCWindow
  HeaderLen <- MCHeaderLen
  DescLen <- MCDescLen
  TextLen <- MCTextLen
  BitmapLen <- MCBitmapLen
  Partials <- MCPartials
  MisreadInts <- MCMisreadInts
  RawSeverities = {0, 9}
  MaxReports = 3
  MaxHeartbeats = 0
  Faults = {"timeout", "link", "db", "file"}
INVARIANTS
  ConfirmationMatchesReport
  BitmapMatchesReport
PROPERTIES
  ImplementsReportDelivery
