SPECIFICATION Spec
CONSTANTS
  Deployments <- AllDeployments
  Requests <- SomeRequests
  MaxRotations = 2
INVARIANTS
  TypeOK
  ReadOnlyHolds
  SupportedWhenSent
  LockHolds
  OrdinaryCallsWork
PROPERTY
  ContainerStarts
