\* Hosts before and after 14: acquisitions, requests and the client may fail.
SPECIFICATION FairSpec
CONSTANTS
  HostVersions <- AcrossTheBoundary
  Disturbances <- Orderly
CHECK_DEADLOCK FALSE
INVARIANTS
  NoNullDereference
  EverythingReleased
PROPERTIES
  MissedOnlyInBetween
  EventuallyReady
  EventuallySubscribed
