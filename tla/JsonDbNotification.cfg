SPECIFICATION Spec
CONSTANTS
    Key = {k1, k2}
    Value <- MCValue
    Matching <- MCMatching
    First <- MCFirst
    MaxState = 3
    MaxBreaks = 2
    Avoided = {"half", "idle", "rolledback", "stillborn", "dangling"}
INVARIANTS
    ViewFollows
    StateIsComplete
    ActionsFit
PROPERTY Settles
CHECK_DEADLOCK FALSE
