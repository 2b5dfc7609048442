SPECIFICATION FairSpec
CONSTANTS
  n1 = n1
  n2 = n2
  c1 = c1
  c2 = c2
  a = a
  r = r
  l = l
  node = node
  Natives = {n1, n2}
  Children = {c1, c2}
  Alls = {a}
  Races = {r}
  Loops = {l}
  Nodes = {node}
  Lists <- MCLists
  Settings <- MCSettings
  MaxRounds = 3
  Plain = Plain
  Undefined = Undefined
  Error = Error
  Falsy = Falsy
  SelfError = SelfError
INVARIANT TypeOK CallbacksInOrder ChildTakesFate CombinedFate LoopIsExact
PROPERTY SettledForever FatesArrive
CHECK_DEADLOCK FALSE
