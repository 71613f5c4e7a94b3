SPECIFICATION Spec
CONSTANTS
  NoCode = NoCode
  EarlySignals = FALSE
  MaxSignals = 3
INVARIANT InterruptReverts
CHECK_DEADLOCK FALSE
