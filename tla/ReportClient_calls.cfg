\* Three concurrent calls share a breaker that opens after three failures.
SPECIFICATION FairSpec
CONSTANTS
  Callers = {c1, c2, c3}
  MaxAttempts = 3
  FailureThreshold = 3
  RecoveryTimeout = 2
INVARIANTS
  TypeOK
  OpenAfterUnavailable
PROPERTIES
  NoRequestWhileOpen
  ClosesOnlyOnAnswer
  FailureRestartsRecovery
  CallEnds
  BreakerRecovers
  ImplementsBoundedRetry
