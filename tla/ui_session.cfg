CONSTANTS
  Keys = {k1, k2, k3}
  NoKey = none
  MaxServers = 2
  MaxSessions = 2
  MaxRequests = 2
  MaxQueue = 2
SPECIFICATION Spec
SYMMETRY KeySymmetry
INVARIANTS TypeOK BoundServer AgreesWhenQuiet PendingIsOwed BusyIsPending
PROPERTY RemovalSparesOthers
