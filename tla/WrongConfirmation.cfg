SPECIFICATION Spec
CONSTANTS
  Window <- MCWindow
  HeaderLen <- MCHeaderLen
  DescLen <- MCDescLen
  TextLen <- MCTextLen
  BitmapLen <- MCBitmapLen
  Partials <- MCPartials
  MisreadInts <- MCMisreadInts
  RawSeverities = {0, 9}
  MaxReports = 2
  MaxHeartbeats = 1
  Faults = {"timeout"}
INVARIANTS
  ConfirmationMatchesReport
