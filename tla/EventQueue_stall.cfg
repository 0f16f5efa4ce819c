CONSTANTS
  Functions = {f1}
  Handlers = {f1}
  Pauses = {f1}
  Exits = {}
  MaxAmount = 2
  MaxPass = 2
  FdMax = 3
  Retries = 2
  MaxMsgs = 3
SPECIFICATION FairSpec
PROPERTY AllPolled
CHECK_DEADLOCK FALSE
