SPECIFICATION FairSpec
CONSTANTS
  Chars <- MCChars
  Lines <- MCLines
  MaxReports = 2
  MaxInt = 99
  CellSize = 3
INVARIANTS
  FieldsAsTyped
  TypedZoneIsSeen
PROPERTIES
  ExitLeaves
