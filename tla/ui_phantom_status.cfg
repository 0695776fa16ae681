CONSTANTS
  Keys = {k1, k2, k3}
  NoKey = none
  MaxServers = 2
  MaxSessions = 2
  MaxRequests = 3
  MaxQueue = 2
SPECIFICATION Spec
INVARIANT NoPhantomConnection
