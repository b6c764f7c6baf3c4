\* A host that may load the package both ways, and close it at any time.
SPECIFICATION SampleSpec
CONSTANTS
  HostVersions <- AnyHost
  Disturbances <- BarThrows
  Panes = {p1, p2}
  NoPane = NoPane
  Mishaps = {"repeats", "throws"}
CHECK_DEADLOCK FALSE
INVARIANTS
  HandlerHasItsFactory
  NothingOutlivesFactory
