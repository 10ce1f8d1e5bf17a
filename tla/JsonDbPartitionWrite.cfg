SPECIFICATION Spec
CONSTANTS
    Body <- MCBody
    Tombstone <- MCTombstone
    First <- MCFirst
    Typed <- MCTyped
    Replica = {r1, r2}
    Uuid = {u}
    NoUuid = noUuid
    MaxVersion = 2
    MaxSeen = 4
    Avoided = {"lost", "scraps"}
    Final = {"nameless", "replaced", "silent", "revived", "misreported"}
SYMMETRY Symmetric
INVARIANTS
    HeadIsOrderFree
    RetryIsHarmless
    NoWriteLost
PROPERTY HeadNeverRegresses
CHECK_DEADLOCK FALSE
