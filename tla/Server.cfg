SPECIFICATION Spec
CONSTANTS
  d1 = d1 d2 = d2 t1 = t1 t2 = t2 c1 = c1 c2 = c2
  Domain <- MCDomain2
  Token <- MCToken2
  Client <- MCClient1
  MaxRestarts = 1
  AlenMayBeSmall = TRUE
  NULL = NULL
  Junk = Junk
  Torn = Torn
INVARIANTS TypeOK AckedIsUsable OrderlyEndKeepsLinks TeardownAlone OneMoreAtMost NoAddressUnbound
PROPERTY RestartFindsPrefix
SYMMETRY Symmetry
CHECK_DEADLOCK FALSE
