SPECIFICATION Spec
CONSTANTS
  Window <- MCWindow
  HeaderLen <- MCHeaderLen
  DescLen <- MCDescLen
  TextLen <- MCTextLen
  BitmapLen <- MCBitmapLen
  Partials <- MCPartials
  MisreadInts <- MCMisreadInts
  RawSeverities = {9}
  MaxReports = 2
  MaxHeartbeats = 2
  Faults = {"timeout", "link", "db", "file"}
INVARIANTS
  TypeOK
  RunwayStateAgrees
  OnlyAuthenticatedReport
  LedgerFaithful
  ClientStateAgrees
  RecordedInOrder
  AnswersInOrder
