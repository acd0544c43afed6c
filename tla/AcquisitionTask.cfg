SPECIFICATION FairSpec
CONSTANTS
    N = 2
    acqMode <- AllRealtime
    acqInt <- Roomy
    ClockGap = 1
    LockTimeout = 2
    MaxTimeOuts = 5
    PollsPerTick = 4
    MaxRestarts = 0
    MaxPending = 2
    MaxPieces = 1
INVARIANTS ReadingsAttributed
PROPERTY EveryRequestSent
