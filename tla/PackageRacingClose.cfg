\* The host closes the package while a service is on the way.
SPECIFICATION Spec
CONSTANTS
  HostVersions <- AcrossTheBoundary
  Disturbances <- RacingClose
CHECK_DEADLOCK FALSE
INVARIANT UnsubscribedOnceClosed
