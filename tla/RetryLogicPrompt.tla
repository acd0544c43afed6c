-------------------------- MODULE RetryLogicPrompt --------------------------
(***************************************************************************)
(* RetryLogic with a record of how it is driven.  The agent's main loop    *)
(* calls dowork every 10 ms, so a client that is not connected asks        *)
(* CanRetry at least once in every second of the wall clock.  Every        *)
(* behaviour of RetryLogic is one of this module; while it is prompt in    *)
(* that sense, "the client eventually retries or gives up" has a deadline  *)
(* and is an invariant.                                                    *)
(***************************************************************************)
EXTENDS RetryLogic, FiniteSetsExt

VARIABLES
    prompt,      \* history: CanRetry was asked in every second it had to be
    polledAt,    \* history: the last second in which it was asked, or Never
    downSince    \* history: when the connection was last lost

promptVars == <<vars, prompt, polledAt, downSince>>

PromptInit ==
    /\ Init
    /\ prompt = TRUE
    /\ polledAt = Never
    /\ downSince = BootTime

\* A second passes; the main loop was late if it did not ask CanRetry in it.
\* Nothing more is recorded after that.
PromptTick ==
    /\ Tick
    /\ prompt' = (prompt /\ (status = NOT_CONNECTED => polledAt = now))
    /\ polledAt' = IF prompt' THEN polledAt ELSE Never
    /\ downSince' = IF prompt' THEN downSince ELSE BootTime

Poll ==
    /\ Attempt \/ BackOff
    /\ polledAt' = IF prompt THEN now ELSE Never
    /\ UNCHANGED <<prompt, downSince>>

PromptAccepted == Accepted /\ UNCHANGED <<prompt, polledAt, downSince>>

PromptLost ==
    /\ Lost
    /\ downSince' = IF prompt THEN now ELSE BootTime
    /\ UNCHANGED <<prompt, polledAt>>

PromptNext == PromptTick \/ Poll \/ PromptAccepted \/ PromptLost

PromptSpec == PromptInit /\ [][PromptNext]_promptVars

-----------------------------------------------------------------------------
\* The longest the policy can hold back the attempt after numOfFailures.
LongestDelay(numOfFailures) ==
    Max({ErrorTimeForRetry + 1, 2 * HalfDelta(numOfFailures) - 1})

ReconnectDeadline ==
    IF retrycount = 0
    THEN Max({downSince + 2, EPOCH + ErrorTimeForRetry + 1})
    ELSE Max({downSince + 1, lastAttempt + LongestDelay(retrycount)})

\* A client without a connection tries again by the deadline that the backoff
\* implies, or has given up by then: redrawing the jitter on every call never
\* postpones the attempt beyond the largest delay the policy can draw.
ReconnectsOrGivesUpInTime ==
    prompt /\ status = NOT_CONNECTED /\ ~retryExpired
        => now <= ReconnectDeadline

=============================================================================
