SPECIFICATION Spec
CONSTANTS
    Uuid = {u1}
    Value = {"a", "b"}
    UserIndex = {"user"}
    BuiltinIndex = {"type"}
    Field <- FieldOf
    NoField = "none"
    Null = "null"
    Absent = "absent"
    Deleted = "deleted"
    Definition = "index"
    ExtraVersions = 1
    MaxState = 3
    MaxBatch = 2
    OneFailure = TRUE
    FreshFiles = TRUE
INVARIANTS
    IndexesAgree
    ChangesBridge
CHECK_DEADLOCK FALSE
