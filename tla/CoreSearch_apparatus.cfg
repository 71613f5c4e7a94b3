SPECIFICATION Spec
CONSTANTS
  None = None
  Max = 7
  Start = 0
  Coarse = 3
  Fine = 1
  Inherited = {}
  Seeds = {}
  MaxTries = 0
  JumpAfter = 2
  PenaltySteps = 2
  MaxStrikes = 2
  CoarseRegimes = {boost, current}
  Regimes = {boost, current}
  ApparatusStreak = 1
  StockSticks = TRUE
INVARIANTS
  FailEmptiesBattery
