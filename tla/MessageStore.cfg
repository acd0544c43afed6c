SPECIFICATION Spec
CONSTANTS
    Messages = {m1, m2}
    Watched = {m1}
    UShrtMax = 3
    MaxStoreErrors = 1
    MaxCrashes = 1
INVARIANTS
    StrandedOnlyByRace
PROPERTIES
    LeavesOfferedOrLost
    StoredIsOfferedOrLost
CHECK_DEADLOCK FALSE
