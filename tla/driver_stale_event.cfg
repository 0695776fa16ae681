CONSTANTS
  Ops <- ReconnectOps
  MaxQueue = 2
  MaxRequests = 0
  MaxAttempts = 2
SPECIFICATION Spec
INVARIANT DisconnectedIsClosed
CHECK_DEADLOCK FALSE
