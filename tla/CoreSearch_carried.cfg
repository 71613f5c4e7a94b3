SPECIFICATION Spec
CONSTANTS
  None = None
  Max = 7
  Start = 0
  Coarse = 3
  Fine = 1
  Inherited = {}
  Seeds = {}
  MaxTries = 2
  JumpAfter = 2
  PenaltySteps = 2
  MaxStrikes = 2
  CoarseRegimes = {boost, current}
  Regimes = {boost, current}
  ApparatusStreak = 0
  StockSticks = FALSE
INVARIANTS
  PassCoversBattery
