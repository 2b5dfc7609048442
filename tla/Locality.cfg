SPECIFICATION FairSpec
CONSTANTS
  NumKeys = 3
  Consumers = {c}
  First = First
  MaxMoves = 2
  MaxFaults = 3
  Unread = Unread
  Undefined = Undefined
INVARIANT InOrderOnce NoneMissed NoHotLoop
PROPERTY FetchesAnswered
CHECK_DEADLOCK FALSE
