CONSTANTS
  Setups <- Collecting
  MaxMsgs = 4
SPECIFICATION FairSpec
PROPERTY WriterProceeds
CHECK_DEADLOCK FALSE
