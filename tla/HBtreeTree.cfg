SPECIFICATION Spec
CONSTANTS
    Key = {1, 2, 3, 4, 5, 6, 7, 8, 9, 10}
    Value = {"inPage", "offPage"}
    KeySize <- KeyBytes
    ValueSize <- ValueBytes
    PageSize = 4096
    OverflowThreshold = 1000
    FillThreshold = 25
    Preloads <- Files
    Used = {2, 6, 7, 8, 9, 10}
    MaxCalls = 1
    Kept = {1}
CONSTRAINT FewOffPage
INVARIANTS
    FindsWhatWasPut
    TreeIsSound
    CursorsAgree
CHECK_DEADLOCK FALSE
