SPECIFICATION Spec
CONSTANTS
  Cores = {1, 2}
  Rounds = 1
  Duties = {FALSE}
  MaxFailures = 1
  Modes = {"cores"}
  Segments = 2
  Calls = {}
INVARIANT OutsideKillIsNoPass
CHECK_DEADLOCK FALSE
