SPECIFICATION Spec

CONSTANTS
  MaxRequests = 1
  MaxUint64 = 2
  MaxQueuedMessages = 1
  MaxRetainedBytes = 1
  MaxInFlightTransactions = 1
  MaxControlMessages = 1
  MaxReconnectAttempts = 0
  MaxHandshakeTransitions = 1
  ReconnectPolicy = "ReplayPending"
  Renewable = TRUE
  Kinds = {"request"}
  CallerTIDs = {0}
  Cancelable = {}
  PeerTags <- Tags
  ConnectOutcomes = {"connected", "newIdentity"}
  MaxGeneration = 4

INVARIANTS
  NeverStuck
  CurrentGeneration
  AckReserve
\* The calls are bounded and the session may be stopped.
CHECK_DEADLOCK FALSE
