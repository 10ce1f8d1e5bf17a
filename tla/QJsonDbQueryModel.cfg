SPECIFICATION Spec
CONSTANTS
    PageSize = 1
    MaxPages = 2
    Uuid <- MCUuid
    Partition <- MCPartition
    Home <- MCHome
    Content <- MCContent
    IndexValue <- MCIndexValue
    First <- MCFirst
    MaxWrites = 2
    MaxCalls = 1
    MaxOutages = 1
    Avoided = {"moved", "pending", "cached", "refreshed"}
INVARIANTS
    ModelFollows
PROPERTY Settles
CHECK_DEADLOCK FALSE
