SPECIFICATION ConnectLoop
CONSTANTS
    KeepAlive = 6
    UShrtMax = 3
    MaxOps = 0
    RetryTimeoutLimit = 60
    ErrorTimeForRetry = 1
    BootTime = 1
    MaxTime = 64
INVARIANT NoUseAfterFree
