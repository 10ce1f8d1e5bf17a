SPECIFICATION Spec
CONSTANTS
    Uuid <- MCUuid
    Object <- MCObject
    Property <- MCProperty
    PropertyType <- MCPropertyType
    ObjectTypes <- MCObjectTypes
    Literal <- MCLiteral
    Pattern <- MCPattern
    Variable <- MCVariable
    Asked <- MCAsked
    Query <- MCQuery
    Offset = {1, 2}
    Limit <- MCLimit
    Readable <- MCReadable
    OffsetStride = 1
    offsetCacheSize = 2
    maxQueriesInOffsetCache = 2
    FirstTables <- MCFirstTables
    FirstIndexes <- MCFirstIndexes
    MaxWrites = 1
    Avoided = {"truncated", "converted", "unbound", "unknown", "chained", "mapped", "uuidBound",
               "negatedPattern", "typeDisjunction", "joinedType", "restricted", "sortedSlice",
               "pastEnd", "shared", "joined"}
INVARIANTS
    PagesAreSlices
    AnswersFit
CHECK_DEADLOCK FALSE
