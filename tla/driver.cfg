CONSTANTS
  Ops <- SessionOps
  MaxQueue = 2
  MaxRequests = 2
  MaxAttempts = 2
SPECIFICATION LocalSpec
INVARIANTS TypeOK NoRequestLost ConnectedHasTransport GateAnswerable CredentialsApplied
PROPERTIES ImplementsLifecycle CancelEndsOperation RequestsAnswered DriverEndsOrPrompts
\* The session ends for good once it is destroyed.
CHECK_DEADLOCK FALSE
