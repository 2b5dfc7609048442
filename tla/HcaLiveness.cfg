SPECIFICATION FairSpec
CONSTANTS
  Txns = {t1, t2}
  CallsPerTxn = 2
  Concurrent = FALSE
  SnapshotRYW = TRUE
  SmallLimit = 1
  SmallWindow = 3
  MidLimit = 5
  MidWindow = 4
  BigWindow = 4
  MaxPrefix = 14
  MaxFaults = 0
PROPERTY AllFinish
CHECK_DEADLOCK FALSE
