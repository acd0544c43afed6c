SPECIFICATION PromptSpec
CONSTANTS
    RetryTimeoutLimit = 40
    ErrorTimeForRetry = 5
    BootTime = 1
    MaxTime = 60
INVARIANTS
    AttemptsWithinLimit
    TimerInv
    ReconnectsOrGivesUpInTime
PROPERTIES
    AttemptsSpaced
    BackOffHonoured
    GivingUpIsFinal
