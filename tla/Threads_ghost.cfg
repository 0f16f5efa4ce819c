CONSTANTS
  N = 1
  Setups <- Haunted
SPECIFICATION Spec
INVARIANT AssertsHold
CHECK_DEADLOCK FALSE
