SPECIFICATION HSpec
CONSTANTS
  e1 = e1 e2 = e2 e3 = e3 a1 = a1 a2 = a2 a3 = a3 v1 = v1 v2 = v2
  Key <- MCKey3
  Value <- MCValue2
  Hash <- MCHash
  InitialSize = 2
  Entry <- MCEntry3
  Array <- MCArray3
  Thread = {w1, r1}
  Writer = {w1}
  NULL = NULL
  Junk = Junk
INVARIANT NoFreedEntryInReach
PROPERTY ImplementsRegularMap
CHECK_DEADLOCK FALSE
