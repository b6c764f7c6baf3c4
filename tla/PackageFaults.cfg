\* Hosts before and after 14 that report their version, everything else going wrong.
SPECIFICATION Spec
CONSTANTS
  HostVersions <- AcrossTheBoundary
  Disturbances <- Faults
CHECK_DEADLOCK FALSE
INVARIANTS
  TypeOK
  FactoryWhileOpen
  NoLostInitialization
  FactoryBacked
  SubscriptionTracked
PROPERTY ClientContract
