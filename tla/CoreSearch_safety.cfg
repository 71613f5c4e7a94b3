SPECIFICATION SteadySpec
CONSTANTS
  None = None
  Max = 6
  Start = 0
  Coarse = 3
  Fine = 2
  Inherited = {0, 4}
  Seeds = {3}
  MaxTries = 1
  JumpAfter = 2
  PenaltySteps = 2
  MaxStrikes = 2
  CoarseRegimes = {boost}
  Regimes = {boost, current}
  ApparatusStreak = 2
  StockSticks = FALSE
INVARIANTS
  PassIsComplete
  ConfirmationIsBacked
PROPERTIES
  FailBoundStands
  ComesToRest
CHECK_DEADLOCK FALSE
