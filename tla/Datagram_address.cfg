SPECIFICATION Spec
CONSTANTS
  Message <- Few
  Spare <- MCSpare
  Name <- MCName
  Address <- MCAddress
INVARIANT AnswerIsAddress
CHECK_DEADLOCK FALSE
