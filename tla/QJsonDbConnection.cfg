SPECIFICATION Spec
CONSTANTS
    Request = {r1, r2}
    Private = {r2}
    Empty = {}
    Watcher = {w}
    AutoReconnect = TRUE
    MaxBreaks = 1
    MaxCalls = 4
    Avoided = {"resent"}
INVARIANTS
    AnswersAreTrue
    ActiveIsRegistered
PROPERTIES
    OrderIsKept
    QueueDrains
    WatchersFollow
CHECK_DEADLOCK FALSE
