SPECIFICATION Spec
CONSTANTS
  NoCode = NoCode
  EarlySignals = FALSE
  MaxSignals = 3
INVARIANTS
  PausedIsSettled
  AbortReverts
PROPERTY SignalHeeded
CHECK_DEADLOCK FALSE
