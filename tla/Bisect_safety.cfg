SPECIFICATION FaultSpec
CONSTANTS
  Cores = {1, 2, 3, 4, 5}
  MaxNoReproduce = 2
  MaxFaults = 2
INVARIANTS
  ConvictionSound
  VerdictExplainsFailure
  LoneFaultsConvictedExactly
PROPERTIES
  ProbeBudgetShrinks
  ImplementsAttribution
CHECK_DEADLOCK FALSE
