SPECIFICATION FairSpec
CONSTANTS
  skewA = skewA
  skewB = skewB
  blind = blind
  reader = reader
  a = a
  b = b
  Txns = {skewA, skewB, blind, reader}
  Keys = {a, b}
  Reads <- MCReads
  Writes <- MCWrites
  Settings <- MCSettings
  NoResult = NoResult
INVARIANT TypeOK NoLostUpdate OutcomeIsTrue
PROPERTY ImplementsAtomic EveryCallEnds
CHECK_DEADLOCK FALSE
