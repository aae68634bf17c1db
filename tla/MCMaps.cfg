\* OSDMaps: three epochs, three OSDs, two pools.  Crush: three replicas on three hosts.
\* Placement: hashes of five bits.  ClusterChanges: a subscriber, two maps.
\* Enumeration: five objects, up to three partitions and four groups.  Admin: two calls.
CONSTANTS
    MaxEpoch = 3
    MaxOSDs = 3
    Pools = {1, 2}
    Names = {"a", "b"}
    PGs = {1}
    Replicas = 3
    Tries = 2
    OSDs = {0, 1, 2}
    PlacementBits = 5
    MaxPGs = 13
    Buckets = {1, 2, 3}
    MaxDepth = 2
    Subscribers = {1}
    Queue = 2
    MaxMaps = 2
    MaxReports = 1
    HashBits = 3
    PGCounts = {1, 3, 4}
    Partitions = 3
    Limits = {1, 2}
    MaxChanges = 1
    Callers = {1, 2}
    MaxFaults = 1
SPECIFICATION MapsSpec
INVARIANTS SnapshotsMatch PlacementSafe ChangesSafe ListingSafe PoolChangeIsVisible
CHECK_DEADLOCK FALSE
