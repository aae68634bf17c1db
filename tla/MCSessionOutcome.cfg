SPECIFICATION Spec

CONSTANTS
  MaxRequests = 1
  MaxUint64 = 2
  MaxQueuedMessages = 1
  MaxRetainedBytes = 1
  MaxInFlightTransactions = 1
  MaxControlMessages = 1
  MaxReconnectAttempts = 0
  MaxHandshakeTransitions = 1
  ReconnectPolicy = "ReplayPending"
  Renewable = FALSE
  Kinds = {"request"}
  CallerTIDs = {0}
  Cancelable = {1}
  PeerTags = {"ServerIdent", "SessionReconnectOK", "Error"}
  ConnectOutcomes = {"connected"}
  MaxGeneration = 4

INVARIANTS
  OutcomeUnknownReported

\* The calls are bounded and the session may be stopped.
CHECK_DEADLOCK FALSE
