SPECIFICATION FairSpec
CONSTANTS
  N = 2
  Depth = 1
  Halves <- TwoHalves
  Options <- AllOrEndurance
  Workloads <- TwoWorkloads
  MaxThermals = 1
  MaxFaults = 1
  MaxIncidents = 2
  ResumeInCooldown = FALSE
  MaxDisruptions = 1
INVARIANTS
  AnswerMeetsItsSlot
  AloneBeforeTogether
PROPERTIES
  CompletionIsClean
  ValidationSettles
CHECK_DEADLOCK FALSE
