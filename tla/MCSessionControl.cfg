\* Monitor policy: what is pending fails when the transport is lost, and the session ends
\* after two failed attempts to connect.  Requests, oneway and control messages at their limits.
SPECIFICATION Spec
CONSTANTS
  MaxRequests = 2
  MaxUint64 = 2
  MaxQueuedMessages = 1
  MaxRetainedBytes = 1
  MaxInFlightTransactions = 1
  MaxControlMessages = 1
  MaxReconnectAttempts = 1
  MaxHandshakeTransitions = 1
  ReconnectPolicy = "FailPending"
  Renewable = FALSE
  Kinds = {"request", "oneway", "control"}
  CallerTIDs = {0, 1}
  Cancelable = {2}
  PeerTags = {"Message", "ServerIdent", "Error"}
  ConnectOutcomes = {"connected", "failed"}
  MaxGeneration = 3
INVARIANTS
  OneResult
  Accounting
  Reconnecting
  DefiniteFailures
  OwnerConsistent
\* The calls are bounded and the session may be stopped.
CHECK_DEADLOCK FALSE
