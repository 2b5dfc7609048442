SPECIFICATION FairSpec
CONSTANTS
  f = f
  b = b
  a = a
  Uses <- MCUses
  MaxBatch = 2
  MaxErrors = 1
  ForEach = {f}
  ForEachBatch = {b}
  ToArray = {a}
  NumCalls = 3
  Undefined = Undefined
INVARIANT TypeOK RowsInOrder
PROPERTY EmptyBatchOnlyAtOnce ImplementsScan ConsumersServed
CHECK_DEADLOCK FALSE
