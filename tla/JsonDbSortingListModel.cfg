SPECIFICATION Spec
CONSTANTS
    Uuid <- MCUuid
    Partition <- MCPartition
    Home <- MCHome
    Content <- MCContent
    SortValue <- MCSortValue
    Rank <- MCRank
    First <- MCFirst
    Limit <- MCLimit
    chunkSize = 2
    MaxWrites = 2
    MaxCalls = 1
    Avoided = {"moved", "pending", "unmarked", "sorted", "cleared", "failed", "folded"}
INVARIANTS
    ModelFollows
PROPERTY Settles
CHECK_DEADLOCK FALSE
