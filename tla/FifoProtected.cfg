CONSTANTS
  r1 = r1
  r2 = r2
  Readers = {r1, r2}
  Setups <- Unlimited
  Delayed = {2, 3}
  MaxMsgs = 4
SPECIFICATION FairSpec
INVARIANTS TypeOK OnePlace LastIsEnd CountMatches InOrder
PROPERTY EventuallyHanded
CHECK_DEADLOCK FALSE
