SPECIFICATION Spec
CONSTANTS
  Cores = {1, 2}
  Rounds = 1
  Duties = {FALSE}
  MaxFailures = 1
  Modes = {"parallel"}
  Segments = 2
  Calls = {}
INVARIANT NoInventedPass
CHECK_DEADLOCK FALSE
