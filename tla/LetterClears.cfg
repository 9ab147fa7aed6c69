SPECIFICATION Spec
CONSTANTS
  Chars <- MCChars
  Lines <- SlipLines
  MaxReports = 1
  MaxInt = 99
  CellSize = 3
INVARIANTS
  ZeroMeansNoDebris
