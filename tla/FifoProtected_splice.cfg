CONSTANTS
  r1 = r1
  r2 = r2
  Readers = {r1, r2}
  Setups <- Limited
  Delayed = {}
  MaxMsgs = 3
SPECIFICATION Spec
INVARIANT Inaccessible
CHECK_DEADLOCK FALSE
