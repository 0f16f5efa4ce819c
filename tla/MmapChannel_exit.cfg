CONSTANTS
  Slots = 3
  Sizes = {2, 6, 10}
  ShmLimit = 8
  ShmMinReuse = 4
  MaxPersistent = 9
  Faults = {"exit"}
  MaxMsgs = 5
SPECIFICATION Spec
INVARIANT CallbackGetsMessage
CHECK_DEADLOCK FALSE
