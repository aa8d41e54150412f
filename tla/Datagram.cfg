SPECIFICATION Spec
CONSTANTS
  Message <- MCMessage
  Spare <- MCSpare
  Name <- MCName
  Address <- MCAddress
INVARIANTS TypeOK RepliesParse SizeExact FreedOnce LeavesNoList NoErrorMeansAnswered
PROPERTY ReadsWhatWasSent
CHECK_DEADLOCK FALSE
