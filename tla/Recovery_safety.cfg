SPECIFICATION Spec
CONSTANTS
  Cores = {1, 2, 3}
  FirstCcd = {1, 2}
  Orders = {"round_robin", "ccd_round_robin"}
  Deep = 1
  Quarantine = 2
  MaxDeaths = 2
  MaxTests = 3
INVARIANT RoundIsFair
PROPERTIES
  ChargeIsBacked
  CrashIsAnswered
CHECK_DEADLOCK FALSE
