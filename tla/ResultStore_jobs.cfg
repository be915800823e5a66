\* Two pushes to main and two pull request jobs of the same commits, over three days;
\* calls fail and the server dies.
CONSTANTS
  push1 = push1
  pr = pr
  push2 = push2
  other = other
  again = again
  a = a
  b = b
  commits = commits
  Queue <- MCQueue
  KindOf <- MCKindOf
  CommitsOf <- MCCommitsOf
  Scenarios = {a, b}
  Unnamed = {b}
  Measurements <- MCMeasurements
  ComparedIn <- MCComparedIn
  Window = 2
  LastDay = 2
  MaxFaults = 2
SPECIFICATION Spec
INVARIANTS
  TypeOK
  TablesAreWhole
  HistoryIsRecent
  PushIsStored
  BencherAgrees
  LinksAreAlive
