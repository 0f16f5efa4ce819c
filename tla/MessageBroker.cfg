CONSTANTS
  Senders = {"s1", "s2"}
  Listeners = {"l1", "l2"}
  Setups <- Instances
SPECIFICATION FairSpec
INVARIANTS TypeOK Duplicated CountsMatch Competed TotalMatches
PROPERTY AllArrive
CHECK_DEADLOCK FALSE
