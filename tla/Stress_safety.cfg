SPECIFICATION Spec
CONSTANTS
  Cores = {1, 2}
  Rounds = 1
  Duties = {FALSE, TRUE}
  MaxFailures = 1
  Modes = {"cores", "parallel", "rapid", "soak"}
  Segments = 2
  Calls = {"stop", "teardown"}
INVARIANTS
  PassIsEarned
  TeardownConfirmed
  RecordedPassIsWhole
PROPERTY RunReports
CHECK_DEADLOCK FALSE
