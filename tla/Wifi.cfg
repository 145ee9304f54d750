SPECIFICATION Spec
CONSTANTS
  ClockRange = 8
  RetryTime = 3
  ConnectTimeout = 3
  AssociationTime = 1
INVARIANT IInv
PROPERTIES
  AttemptsSpaced
  LossIsNoticed
  Recovers
