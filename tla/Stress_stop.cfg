SPECIFICATION Spec
CONSTANTS
  Cores = {1, 2}
  Rounds = 1
  Duties = {FALSE}
  MaxFailures = 0
  Modes = {"cores"}
  Segments = 2
  Calls = {"stop"}
PROPERTY StopIsHeeded
CHECK_DEADLOCK FALSE
