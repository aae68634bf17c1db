SPECIFICATION LivePeerSpec

CONSTANTS
  MaxRequests = 2
  MaxUint64 = 9
  MaxQueuedMessages = 2
  MaxRetainedBytes = 2
  MaxInFlightTransactions = 1
  MaxControlMessages = 1
  MaxReconnectAttempts = 0
  MaxHandshakeTransitions = 3
  ReconnectPolicy = "ReplayPending"
  Renewable = TRUE
  Kinds = {"request"}
  CallerTIDs = {0}
  Cancelable = {}
  PeerTags = {}
  ConnectOutcomes = {"connected"}
  MaxGeneration = 20
  PeerLossy = {TRUE, FALSE}
  MaxFaults = 1
  MaxRestarts = 1

INVARIANTS
  DefiniteNotExecuted
PROPERTIES
  EveryCallReturns
\* The calls are bounded and the session may be stopped.
CHECK_DEADLOCK FALSE
