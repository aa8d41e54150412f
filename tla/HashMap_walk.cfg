SPECIFICATION WSpec
CONSTANTS
  e1 = e1 e2 = e2 e3 = e3 e4 = e4 a1 = a1 a2 = a2 a3 = a3 v1 = v1
  Key <- MCKey3
  Value <- MCValue1
  Hash <- MCHash
  InitialSize = 2
  Entry <- MCEntry4
  Array <- MCArray3
  Thread = {w1}
  Writer = {w1}
  NULL = NULL
  Junk = Junk
INVARIANTS TypeOK InPlaceTillDestroyed CountTillDestroyed RehashDoesNotNest ListStandsOnEntries DestroyFreesAll
PROPERTIES QuietListExact ListEnds
CHECK_DEADLOCK FALSE
