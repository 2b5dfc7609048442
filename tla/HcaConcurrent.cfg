SPECIFICATION Spec
CONSTANTS
  Txns = {t1, t2}
  CallsPerTxn = 2
  Concurrent = TRUE
  SnapshotRYW = TRUE
  SmallLimit = 4
  SmallWindow = 4
  MidLimit = 10
  MidWindow = 6
  BigWindow = 6
  MaxPrefix = 15
  MaxFaults = 1
SYMMETRY TxnSymmetry
INVARIANT PrefixIssuedOnce
CHECK_DEADLOCK FALSE
