SPECIFICATION PeerSpec

CONSTANTS
  MaxRequests = 2
  MaxUint64 = 9
  MaxQueuedMessages = 2
  MaxRetainedBytes = 2
  MaxInFlightTransactions = 1
  MaxControlMessages = 1
  MaxReconnectAttempts = 0
  MaxHandshakeTransitions = 3
  ReconnectPolicy = "ReplayPending"
  Renewable = TRUE
  Kinds = {"request", "control"}
  CallerTIDs = {0}
  Cancelable = {1}
  PeerTags = {}
  ConnectOutcomes = {"connected", "newIdentity"}
  MaxGeneration = 20
  PeerLossy = {FALSE}
  MaxFaults = 1
  MaxRestarts = 0

INVARIANTS
  SentIsCovered
  AscendingWire
PROPERTIES
  ImplementsCallService
\* The calls are bounded and the session may be stopped.
CHECK_DEADLOCK FALSE
