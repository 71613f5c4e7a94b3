SPECIFICATION Spec
CONSTANTS
  Cores = {1, 2, 3}
  MaxNoReproduce = 2
INVARIANT LoneReproducerConvicted
CHECK_DEADLOCK FALSE
