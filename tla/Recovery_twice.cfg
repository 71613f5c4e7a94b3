SPECIFICATION Spec
CONSTANTS
  Cores = {1, 2}
  FirstCcd = {1}
  Orders = {"weakest_first", "sequential", "ccd_alternating"}
  Deep = 1
  Quarantine = 2
  MaxDeaths = 2
  MaxTests = 1
PROPERTY OneChargePerCrash
CHECK_DEADLOCK FALSE
