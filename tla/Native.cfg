SPECIFICATION FairSpec
CONSTANTS
  r = r
  w1 = w1
  w2 = w2
  Script = Script
  NoOne = NoOne
  Requests = {r}
  Watches = {w1, w2}
  Settings <- MCSettings
INVARIANT TypeOK NoUseAfterFree OnlyAskedCancels NobodyLeftWaiting
PROPERTY GarbageIsFreed WaitersServed
CHECK_DEADLOCK FALSE
