SPECIFICATION TSpec
CONSTANTS
  e1 = e1 e2 = e2 e3 = e3 e4 = e4 a1 = a1 a2 = a2 a3 = a3 v1 = v1
  Key <- MCKey
  Value <- MCValue
  Hash <- MCHash
  InitialSize = 4
  Entry <- MCEntry
  Array <- MCArray
  Console = console
  Binding = binding
  Thread = {console, binding}
  Writer = {console, binding}
  NULL = NULL
  Junk = Junk
INVARIANT NoInsertLost
CHECK_DEADLOCK FALSE
