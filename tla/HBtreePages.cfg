SPECIFICATION Spec
CONSTANTS
    MaxPage = 5
    MaxRevision = 3
    MarkerCapacity = 1
    IOErrors = TRUE
    PowerLosses = TRUE
CONSTRAINT Sound
VIEW View
INVARIANTS
    FreePagesUnused
    Recoverable
    IInv
PROPERTIES
    ProtectedPagesKept
    RefinesDurableTree
