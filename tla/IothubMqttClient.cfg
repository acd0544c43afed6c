SPECIFICATION FairSpec
CONSTANTS
    KeepAlive = 0
    UShrtMax = 3
    MaxOps = 3
    RetryTimeoutLimit = 1
    ErrorTimeForRetry = 0
    BootTime = 1
    MaxTime = 2
INVARIANTS ToldAtMostOnce SuccessMeansReceived HandlesAgree StatusIsTrue
PROPERTIES ImplementsRetryLogic ImplementsMqttSession ConnackWaitEnds
