SPECIFICATION Spec
CONSTANTS
    Name = {"A", "B"}
    Default = "A"
    FirstName <- MCFirstName
    Query = {"q", "r"}
    Action = {"Create", "Remove"}
    MaxSteps = 5
    Avoided = {"emptied", "orphaned", "renamed", "outdated", "refused", "unasked", "left"}
INVARIANTS
    AnswersArrive
    HearsWhatItAskedFor
    StateFollows
    NothingStays
CHECK_DEADLOCK FALSE
