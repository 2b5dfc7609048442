SPECIFICATION Spec
CONSTANTS
  Base = 16
  Zero = 7
  MaxBytes = 3
  Precision = 9
  Tuples <- MCTuples
  RawPrefixes <- MCRawPrefixes
INVARIANT UnpackIsExact OrderPreserved RangesAreExact
CHECK_DEADLOCK FALSE
