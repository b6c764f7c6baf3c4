\* A shell that notifies twice or takes no listener, controls that throw.
SPECIFICATION Spec
CONSTANTS
  Panes = {p1, p2, p3}
  NoPane = NoPane
  Disturbances <- Withstood
CHECK_DEADLOCK FALSE
INVARIANT NothingDangling
