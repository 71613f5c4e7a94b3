SPECIFICATION Spec
CONSTANTS
  Slots = 4
  Numberings = {"contiguous"}
  Depths = {0}
  MaxWrites = 0
INVARIANT AddressesOwnCore
CHECK_DEADLOCK FALSE
