SPECIFICATION FairSpec
CONSTANTS
  Window <- MCWindow
  HeaderLen <- MCHeaderLen
  DescLen <- MCDescLen
  TextLen <- MCTextLen
  BitmapLen <- MCBitmapLen
  Partials <- MCPartials
  MisreadInts <- MCMisreadFew
  RawSeverities = {9}
  MaxReports = 2
  MaxHeartbeats = 1
  Faults = {"timeout"}
PROPERTIES
  ExchangeEnds
  ClientExits
  ImplementsSessionContract
