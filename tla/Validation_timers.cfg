SPECIFICATION Spec
CONSTANTS
  N = 2
  Depth = 1
  Halves <- TwoHalves
  Options <- AllOrEndurance
  Workloads <- TwoWorkloads
  MaxThermals = 1
  MaxFaults = 1
  MaxIncidents = 2
  ResumeInCooldown = TRUE
  MaxDisruptions = 1
INVARIANTS
  InFlightUntilProcessed
CHECK_DEADLOCK FALSE
