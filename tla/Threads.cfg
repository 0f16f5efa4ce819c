CONSTANTS
  N = 2
  Setups <- Collections
SPECIFICATION FairSpec
INVARIANTS TypeOK ForkOneByOne AllInitializedFirst AssertsHoldNoGhost FreedNotInUse
PROPERTIES NoSpuriousStop StopEnds
CHECK_DEADLOCK FALSE
