\* Three panes, with ids of one bit so that they wrap around.
SPECIFICATION FairSpec
CONSTANTS
  Panes = {p1, p2, p3}
  NoPane = NoPane
  Modulus = 2
  MaxCalls = 3
  Disturbances = {"refused", "lazy", "repeats"}
CHECK_DEADLOCK FALSE
INVARIANTS
  TypeOK
  BoundedReentry
  NothingDangling
  KeptAreOpen
  DistinctToolIds
PROPERTY EveryCallReturns
