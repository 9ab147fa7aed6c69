SPECIFICATION DbSpec
CONSTANTS
  Automated = TRUE
  Alphabet <- MCAlphabet
  Credentials <- MCCredentials
  TestLogin <- MCTestLogin
  UserTable <- MCUserTable
  Matches <- MCMatches
  Hash <- MCHash
  Reports <- MCReports
  MaxCalls = 2
INVARIANTS
  HandlesFreed
  LogTellsTruth
