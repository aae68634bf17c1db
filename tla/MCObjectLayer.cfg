\* Mutation: three mutations and a flush compete for two places and two bytes; one
\* payload is above the limit, and ids run out.  Objecter: one operation, two OSDs, three
\* epochs.  Watch: two faults and two notifications, a queue for one.
CONSTANTS
    Calls = {1, 2, 3}
    Flushes = {1}
    Payloads = {1, 2, 3}
    MaxMutations = 2
    MaxMutationBytes = 2
    MaxUint64 = 3
    Ops = {1}
    Sensitivity = {TRUE, FALSE}
    OSDs = {101, 102}
    Replies = {"eagain", "redirect", "errno", "malformed", "notDurable"}
    PrimaryReturns = FALSE
    MaxEpoch = 3
    MaxAttempts = 3
    Queue = 1
    MaxSessions = 3
    MaxFaults = 2
    MaxNotes = 2
SPECIFICATION LayerSpec
INVARIANTS FlushCovers NoLostWakeup DistinctTransactions OperationsSafe WatchSafe
PROPERTY EverythingEnds
CHECK_DEADLOCK FALSE
