SPECIFICATION Spec
CONSTANTS
  Slots = 3
  Numberings = {"physical", "perCcd"}
  Depths = {0, 2}
  MaxWrites = 2
INVARIANT AddressesOwnCore
PROPERTIES
  WritesLandWhereTold
  UndoBeforeTouch
CHECK_DEADLOCK FALSE
