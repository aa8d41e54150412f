SPECIFICATION FairSpec
CONSTANTS
  c1 = c1 c2 = c2 t1 = t1 t2 = t2
  Client <- MCClient
  Token <- MCToken
  MaxFds = 2
  Backlog = 1
  MaxRestarts = 1
  NULL = NULL
  Eof = Eof
INVARIANTS TypeOK ToldOkWasBound ToldInvalidWasUnknown
PROPERTY ClientReturns
CHECK_DEADLOCK FALSE
