SPECIFICATION FairSpec
CONSTANTS
    N = 3
    acqMode <- EachMode
    acqInt <- Crowded
    ClockGap = 1
    LockTimeout = 1
    MaxTimeOuts = 2
    PollsPerTick = 0
    MaxRestarts = 1
    MaxPending = 1
    MaxPieces = 0
INVARIANT AnswerHasRequest
PROPERTY SilentMeterStopsTask
