SPECIFICATION Spec
CONSTANTS
  d1 = d1 d2 = d2 t1 = t1 t2 = t2 c1 = c1 c2 = c2
  Domain <- MCDomain1
  Token <- MCToken2
  Client <- MCClient2
  MaxRestarts = 0
  AlenMayBeSmall = FALSE
  NULL = NULL
  Junk = Junk
  Torn = Torn
PROPERTY AnswerIsOwners
CHECK_DEADLOCK FALSE
