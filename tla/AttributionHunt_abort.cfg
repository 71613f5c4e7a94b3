SPECIFICATION EngineSpec
CONSTANTS
  Cores = {1, 2}
  Inherited = {2}
  MaxNoReproduce = 1
  Launches = 1
  MaxRetries = 1
  MaxDisruptions = 2
INVARIANT NoFalseReproduction
CHECK_DEADLOCK FALSE
