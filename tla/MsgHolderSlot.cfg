CONSTANTS
  Setups <- Instances
  MaxMsgs = 6
SPECIFICATION FairSpec
INVARIANTS TypeOK EachOnce NoneMissed NoDangling NoLeak EventsMatch OneEvent
PROPERTY FirstProceeds
CHECK_DEADLOCK FALSE
