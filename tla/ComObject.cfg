\* A package, two task bodies that hold it, a pane; three CComPtrs.
SPECIFICATION FairSpec
CONSTANTS
  Packages = {k}
  Bodies = {b1, b2}
  PaneImpls = {w}
  Clients = {c1, c2, c3}
  Null = Null
CHECK_DEADLOCK FALSE
INVARIANTS
  TypeOK
  NothingDangles
  UnloadedWhenUnused
PROPERTY NothingLeaks
