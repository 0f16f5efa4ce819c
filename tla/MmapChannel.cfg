CONSTANTS
  Slots = 3
  Sizes = {2, 6, 10}
  ShmLimit = 8
  ShmMinReuse = 4
  MaxPersistent = 9
  Faults = {"crash", "error", "exit"}
  MaxMsgs = 5
SPECIFICATION FairSpec
INVARIANTS TypeOK CleanupKeepsUnread CleanupNotLost CountsMatch BlockExclusion
PROPERTIES ImplementsMessageChannel EventuallyDelivered
CHECK_DEADLOCK FALSE
