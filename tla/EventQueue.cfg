CONSTANTS
  Functions = {f1, f2, f3, f4}
  Handlers = {f1, f2, f3}
  Pauses = {f2, f3}
  Exits = {f3}
  MaxAmount = 1
  MaxPass = 2
  FdMax = 3
  Retries = 2
  MaxMsgs = 4
SPECIFICATION FairSpec
INVARIANTS TypeOK NoPhantom CountersMatch PausedHasTimer DeferredIsActive
PROPERTY PolledInTime
CHECK_DEADLOCK FALSE
