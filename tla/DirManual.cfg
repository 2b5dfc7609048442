SPECIFICATION Spec
CONSTANTS
  Txns = {t1, t2, t3}
  t1 = t1
  t2 = t2
  t3 = t3
  a = a
  b = b
  leaf = leaf
  Other = Other
  Names = {a, b, leaf}
  Partition = Partition
  NoLayer = NoLayer
  None = None
  Pending = Pending
  Settings <- RaceSettings
  MaxAlloc = 3
  AllowManualPrefixes = TRUE
  StoredVersion = None
INVARIANT PrefixesDisjoint
CHECK_DEADLOCK FALSE
