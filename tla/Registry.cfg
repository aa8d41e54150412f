SPECIFICATION Spec
CONSTANTS
  BufferSize = 8
  TokenSize = 2
  Line <- MCLine
  RegisterWord <- MCRegister
  StopWord <- MCStop
  MaxLines = 3
  MaxRestarts = 2
INVARIANTS TypeOK LinkedAsTyped RegisteredOnce RunsWhatWasTyped
PROPERTY ImplementsJournal
CHECK_DEADLOCK FALSE
