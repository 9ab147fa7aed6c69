SPECIFICATION FairSpec
CONSTANTS
  Clients <- MCClients
  Addresses = 2
  Backlog = 2
  MaxStarts = 2
INVARIANTS
  NothingLeaks
  ExitCodeTruthful
PROPERTIES
  SessionsKeepContract
  ServerListensAgain
  QueueMoves
