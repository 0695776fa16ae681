CONSTANTS
  Ops <- ReconnectOps
  MaxQueue = 1
  MaxRequests = 0
  MaxAttempts = 1
SPECIFICATION FairSpec
PROPERTY TeardownEndsDriver
CHECK_DEADLOCK FALSE
