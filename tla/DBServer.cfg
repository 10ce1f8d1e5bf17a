SPECIFICATION Spec
CONSTANTS
    Name = {"p", "q", "r", "default"}
    Made = "default"
    Config <- MCConfig
    Client = {"c1", "c2"}
    Watcher <- MCWatcher
    partitionWatcher <- MCPartitionWatcher
    asked <- MCAsked
    Request <- MCRequest
    MaxLoads = 2
    MaxRequests = 2
    Avoided = {"duplicate", "redefined", "forged", "untyped", "foreign", "partial", "unnamed", "reconnected", "broken"}
INVARIANTS
    RecordsAreTrue
    WatchersAreKept
    PartitionsAreSeen
CHECK_DEADLOCK FALSE
