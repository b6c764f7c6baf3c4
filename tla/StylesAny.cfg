\* Everything going wrong, the command run while its window is open included.
SPECIFICATION FairSpec
CONSTANTS
  Panes = {p1, p2, p3}
  NoPane = NoPane
  Disturbances <- AllMishaps
CHECK_DEADLOCK FALSE
INVARIANTS
  TypeOK
  BoundedReentry
  NothingLeft
  CommandFollowsWindow
PROPERTY EveryCallReturns
