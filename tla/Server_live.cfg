SPECIFICATION FairSpec
CONSTANTS
  d1 = d1 d2 = d2 t1 = t1 t2 = t2 c1 = c1 c2 = c2
  Domain <- MCDomain1
  Token <- MCToken1
  Client <- MCClient1
  MaxRestarts = 0
  AlenMayBeSmall = TRUE
  NULL = NULL
  Junk = Junk
  Torn = Torn
PROPERTIES QuestionAnswered StopEnds
CHECK_DEADLOCK FALSE
