CONSTANTS
  Senders = {"s1", "s2"}
  Listeners = {"l1", "l2"}
  Setups <- CrossingOnly
SPECIFICATION FairSpec
PROPERTY AllArrive
CHECK_DEADLOCK FALSE
