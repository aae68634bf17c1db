\* MonMaps: three epochs and one fault.  MonClient: four sessions, a command that is
\* repeated and one that is not.  Client: two of each.
CONSTANTS
    MaxEpoch = 3
    Chunk = 2
    MaxMapFaults = 1
    Faults = {"failover", "reconnect", "foreign", "send"}
    Commands = {"read", "write"}
    ReadOnly = {"read"}
    MaxSessions = 4
    MaxFaults = 1
    Connectors = {1, 2}
    Operations = {1, 2}
    Closers = {1, 2}
    MaxAttempts = 2
SPECIFICATION LayerSpec
INVARIANTS MapsSafe MonitorSafe ClientSafe
PROPERTIES GenerationCoversTransitions EverythingSettles
CHECK_DEADLOCK FALSE
