SPECIFICATION Spec
CONSTANTS
  Txns = {t1, t2, t3}
  CallsPerTxn = 1
  Concurrent = FALSE
  SnapshotRYW = TRUE
  SmallLimit = 4
  SmallWindow = 4
  MidLimit = 10
  MidWindow = 6
  BigWindow = 6
  MaxPrefix = 15
  MaxFaults = 1
SYMMETRY TxnSymmetry
INVARIANT TypeOK PrefixIssuedOnce CounterExact HalfFree
CHECK_DEADLOCK FALSE
