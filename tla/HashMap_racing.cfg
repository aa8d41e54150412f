SPECIFICATION FairSpec
CONSTANTS
  e1 = e1 e2 = e2 e3 = e3 a1 = a1 a2 = a2 v1 = v1
  Key <- MCKey2
  Value <- MCValue1
  Hash <- MCHash
  InitialSize = 2
  Entry <- MCEntry3
  Array <- MCArray2
  Thread = {w1, w2}
  Writer = {w1, w2}
  NULL = NULL
  Junk = Junk
INVARIANT ChainsAscend
PROPERTY GetReturns
CHECK_DEADLOCK FALSE
