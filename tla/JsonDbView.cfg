SPECIFICATION Spec
CONSTANTS
    Uuid = {u1}
    Value = {"a", "b", "c"}
    TypeOf <- Type
    KeyOf <- KeyName
    Definition = "definition"
    Function = {"map", "reduce", "inactive"}
    Sources <- TypesOf
    Reduce = {"reduce"}
    Inactive = {"inactive"}
    Schema = "schema"
    Extending = "extending"
    None = "none"
    MaxState = 4
    MaxQueue = 2
    MaxBatch = 1
    MaxExposed = 0
INVARIANTS
    ViewShowsItsState
    DurableViewIsOfItsTag
    DefinitionsAreRegistered
PROPERTIES
    EagerViewCatchesUp
CHECK_DEADLOCK FALSE
