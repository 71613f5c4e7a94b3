SPECIFICATION Spec
CONSTANTS
  Tests = {t1}
  NoTest = NoTest
  Sessions = {1, 2}
  AutoResume = {"none", "start"}
  MaxDeaths = 1
INVARIANTS
  KindsExclusive
  OffsetsStandUnderTest
  CloseIsClean
PROPERTIES
  VerdictKept
  ManualReleased
CHECK_DEADLOCK FALSE
