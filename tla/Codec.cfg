SPECIFICATION Spec
CONSTANTS
  Reports <- MCReports
  Clock <- MCClock
  MaxReports = 2
  MaxBeats = 2
INVARIANTS
  RecordedAsSent
  NoPhantomReport
CHECK_DEADLOCK FALSE
