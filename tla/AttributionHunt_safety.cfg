SPECIFICATION FairEngineSpec
CONSTANTS
  Cores = {1, 2, 3}
  Inherited = {2}
  MaxNoReproduce = 1
  Launches = 2
  MaxRetries = 1
  MaxDisruptions = 2
INVARIANTS
  ProbeRunsItsMask
  ConvictionReal
  ExonerationReal
PROPERTY HuntEnds
CHECK_DEADLOCK FALSE
