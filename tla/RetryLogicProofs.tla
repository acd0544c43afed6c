-------------------------- MODULE RetryLogicProofs --------------------------
(***************************************************************************)
(* Proofs about RetryLogic, and about how promptly it reconnects, for      *)
(* every limit, every boot time and a clock of any length (MaxTime is      *)
(* arbitrary).                                                             *)
(***************************************************************************)
EXTENDS RetryLogicPrompt, FiniteSetTheorems, TLAPS

-----------------------------------------------------------------------------
\* A delay that the backoff policy draws is never negative and never smaller
\* than halfDelta.
LEMMA BackOffDelaysBound ==
    ASSUME NEW n \in Nat, NEW d \in BackOffDelays(n)
    PROVE  /\ d \in Nat
           /\ HalfDelta(n) \in Int
           /\ d >= HalfDelta(n)
<1>1. HalfDelta(n) \in Int
  BY DEF HalfDelta
<1>2. CASE HalfDelta(n) > 0
  BY <1>1, <1>2 DEF BackOffDelays
<1>3. CASE ~(HalfDelta(n) > 0)
  BY <1>1, <1>3 DEF BackOffDelays
<1>4. QED
  BY <1>2, <1>3

\* The delay kept by a retry is one the policy drew, and the limit admits it.
LEMMA RetryAttemptDelay ==
    ASSUME TypeOK, RetryAttempt
    PROVE  /\ delayFromLastConnectToRetry' \in Nat
           /\ RetryTimeoutLimit > 0 => now - start <= RetryTimeoutLimit
           /\ now - lastConnect > ErrorTimeForRetry
           /\ now - lastConnect >= HalfDelta(retrycount)
<1>1. PICK delay \in BackOffDelays(retrycount) :
         /\ WithinLimit(delay)
         /\ delay <= ErrorTimeForRetry \/ diffTime >= delay
         /\ delayFromLastConnectToRetry' = delay
  BY DEF RetryAttempt
<1>2. retrycount \in Nat
  BY DEF TypeOK
<1>3. delay \in Nat /\ HalfDelta(retrycount) \in Int /\ delay >= HalfDelta(retrycount)
  BY <1>2, BackOffDelaysBound
<1>4. now - lastConnect > ErrorTimeForRetry
  BY RetryAssumption DEF TypeOK, RetryAttempt, PolicyAsked, TooSoon, diffTime
<1>5. RetryTimeoutLimit > 0 => now - start <= RetryTimeoutLimit
  BY <1>1, <1>3, RetryAssumption DEF TypeOK, WithinLimit
<1>6. now - lastConnect >= HalfDelta(retrycount)
  BY <1>1, <1>3, <1>4, RetryAssumption DEF TypeOK, diffTime
<1>7. QED
  BY <1>1, <1>3, <1>4, <1>5, <1>6

\* The delay kept by a postponed retry is one the policy drew.
LEMMA RetryPostponedDelay ==
    ASSUME TypeOK, RetryPostponed
    PROVE  delayFromLastConnectToRetry' \in Nat
<1>1. PICK delay \in BackOffDelays(retrycount) : delayFromLastConnectToRetry' = delay
  BY DEF RetryPostponed
<1>2. QED
  BY <1>1, BackOffDelaysBound DEF TypeOK

\* StartRetryTimer keeps the types of the fields it assigns.
LEMMA StartRetryTimerTypes ==
    ASSUME TypeOK, StartRetryTimer
    PROVE  /\ start' \in Nat
           /\ delayFromLastConnectToRetry' \in Nat
           /\ retryStarted' \in BOOLEAN
           /\ firstAttempt' \in BOOLEAN
<1>1. start' \in Nat /\ delayFromLastConnectToRetry' \in Nat
  BY DEF TypeOK, StartRetryTimer
<1>2. retryStarted' \in BOOLEAN /\ firstAttempt' \in BOOLEAN
  BY DEF StartRetryTimer
<1>3. QED
  BY <1>1, <1>2

\* StopRetryTimer keeps the types of the fields it assigns.
LEMMA StopRetryTimerTypes ==
    ASSUME TypeOK, StopRetryTimer
    PROVE  /\ start' \in Nat
           /\ delayFromLastConnectToRetry' \in Nat
           /\ lastConnect' \in Nat
           /\ retrycount' \in Nat
           /\ retryStarted' \in BOOLEAN
           /\ firstAttempt' \in BOOLEAN
<1>1. /\ start' \in Nat
      /\ delayFromLastConnectToRetry' \in Nat
      /\ lastConnect' \in Nat
      /\ retrycount' \in Nat
  BY DEF TypeOK, StopRetryTimer, EPOCH
<1>2. retryStarted' \in BOOLEAN /\ firstAttempt' \in BOOLEAN
  BY DEF TypeOK, StopRetryTimer
<1>3. QED
  BY <1>1, <1>2

-----------------------------------------------------------------------------
\* Every variable always has the type of its C counterpart.
THEOREM TypeCorrect == Spec => []TypeOK
<1>1. Init => TypeOK
  <2> SUFFICES ASSUME Init
               PROVE  TypeOK
    OBVIOUS
  <2>1. /\ now \in Nat /\ start \in Nat /\ delayFromLastConnectToRetry \in Nat
        /\ lastConnect \in Nat /\ retrycount \in Nat
    BY RetryAssumption DEF Init, CreateRetryLogic, EPOCH
  <2>2. retryStarted \in BOOLEAN /\ retryExpired \in BOOLEAN /\ firstAttempt \in BOOLEAN
    BY DEF Init, CreateRetryLogic
  <2>3. status \in Statuses /\ lastAttempt \in Nat \cup {Never}
    BY DEF Init, Statuses
  <2>4. QED
    BY <2>1, <2>2, <2>3 DEF TypeOK
<1>2. TypeOK /\ [Next]_vars => TypeOK'
  <2> SUFFICES ASSUME TypeOK, [Next]_vars
               PROVE  TypeOK'
    OBVIOUS
  <2> USE DEF TypeOK, Statuses
  <2>1. CASE Tick
    BY <2>1 DEF Tick, retryLogic
  <2>2. CASE Attempt
    <3>1. CASE FirstAttempt
      BY <2>2, <3>1, StartRetryTimerTypes DEF Attempt, FirstAttempt
    <3>2. CASE RetryAttempt
      BY <2>2, <3>2, RetryAttemptDelay DEF Attempt, RetryAttempt
    <3>3. QED
      BY <2>2, <3>1, <3>2 DEF Attempt, CanRetryTrue
  <2>3. CASE BackOff
    <3>1. CASE RetryPostponed
      BY <2>3, <3>1, RetryPostponedDelay DEF BackOff, RetryPostponed
    <3>2. CASE RetryGivesUp
      BY <2>3, <3>2, StopRetryTimerTypes DEF BackOff, RetryGivesUp
    <3>3. CASE RetryStarts
      BY <2>3, <3>3, StartRetryTimerTypes DEF BackOff, RetryStarts
    <3>4. CASE RetryRefused
      BY <2>3, <3>4 DEF BackOff, RetryRefused, retryLogic
    <3>5. QED
      BY <2>3, <3>1, <3>2, <3>3, <3>4 DEF BackOff, CanRetryFalse
  <2>4. CASE Accepted
    BY <2>4, StopRetryTimerTypes DEF Accepted
  <2>5. CASE Lost
    BY <2>5 DEF Lost, retryLogic
  <2>6. CASE UNCHANGED vars
    BY <2>6 DEF vars, retryLogic
  <2>7. QED
    BY <2>1, <2>2, <2>3, <2>4, <2>5, <2>6 DEF Next
<1>3. QED
  BY <1>1, <1>2, PTL DEF Spec

-----------------------------------------------------------------------------
\* TimerInv is inductive relative to the types.
LEMMA TimerInvStep == TypeOK /\ TimerInv /\ [Next]_vars => TimerInv'
<1> SUFFICES ASSUME TypeOK, TimerInv, [Next]_vars
             PROVE  TimerInv'
  OBVIOUS
<1> USE DEF TypeOK, TimerInv, Statuses, NOT_CONNECTED, CONNECTING, CONNECTED, Never
<1>1. CASE Tick
  BY <1>1 DEF Tick, retryLogic
<1>2. CASE Attempt
  <2>1. CASE FirstAttempt
    BY <1>2, <2>1 DEF Attempt, FirstAttempt, StartRetryTimer
  <2>2. CASE RetryAttempt
    BY <1>2, <2>2 DEF Attempt, RetryAttempt, PolicyAsked
  <2>3. QED
    BY <1>2, <2>1, <2>2 DEF Attempt, CanRetryTrue
<1>3. CASE BackOff
  <2>1. CASE RetryPostponed
    BY <1>3, <2>1 DEF BackOff, RetryPostponed, PolicyAsked
  <2>2. CASE RetryGivesUp
    BY <1>3, <2>2 DEF BackOff, RetryGivesUp, StopRetryTimer, EPOCH, PolicyAsked
  <2>3. CASE RetryStarts
    BY <1>3, <2>3 DEF BackOff, RetryStarts, StartRetryTimer
  <2>4. CASE RetryRefused
    BY <1>3, <2>4 DEF BackOff, RetryRefused, retryLogic
  <2>5. QED
    BY <1>3, <2>1, <2>2, <2>3, <2>4 DEF BackOff, CanRetryFalse
<1>4. CASE Accepted
  BY <1>4 DEF Accepted, StopRetryTimer, EPOCH
<1>5. CASE Lost
  BY <1>5 DEF Lost, retryLogic
<1>6. CASE UNCHANGED vars
  BY <1>6 DEF vars, retryLogic
<1>7. QED
  BY <1>1, <1>2, <1>3, <1>4, <1>5, <1>6 DEF Next

\* The timer's bookkeeping is sound in every reachable state.
THEOREM TimerSound == Spec => []TimerInv
<1>1. Init => TimerInv
  BY RetryAssumption DEF Init, CreateRetryLogic, TimerInv, EPOCH, Never,
                         NOT_CONNECTED, CONNECTING, CONNECTED
<1>2. QED
  BY <1>1, TimerInvStep, TypeCorrect, PTL DEF Spec

\* A connected client, and one that gave up, keeps a clean timer record.
THEOREM IdleTimerClean == Spec => []IdleTimerIsClean
<1>1. TimerInv => IdleTimerIsClean
  BY DEF TimerInv, IdleTimerIsClean
<1>2. QED
  BY <1>1, TimerSound, PTL

-----------------------------------------------------------------------------
\* No attempt is made more than retryTimeoutLimitInSeconds after the outage began.
THEOREM WithinLimitAlways == Spec => []AttemptsWithinLimit
<1>1. Init => AttemptsWithinLimit
  BY DEF Init, CreateRetryLogic, AttemptsWithinLimit
<1>2. TypeOK /\ TimerInv /\ AttemptsWithinLimit /\ [Next]_vars => AttemptsWithinLimit'
  <2> SUFFICES ASSUME TypeOK, TimerInv, AttemptsWithinLimit, [Next]_vars
               PROVE  AttemptsWithinLimit'
    OBVIOUS
  <2> USE RetryAssumption DEF TypeOK, AttemptsWithinLimit
  <2>1. CASE Tick
    BY <2>1 DEF Tick, retryLogic
  <2>2. CASE Attempt
    <3>1. CASE FirstAttempt
      BY <2>2, <3>1 DEF Attempt, FirstAttempt, StartRetryTimer, TimerInv
    <3>2. CASE RetryAttempt
      BY <2>2, <3>2, RetryAttemptDelay DEF Attempt, RetryAttempt
    <3>3. QED
      BY <2>2, <3>1, <3>2 DEF Attempt, CanRetryTrue
  <2>3. CASE BackOff
    <3>1. CASE RetryPostponed
      BY <2>3, <3>1 DEF BackOff, RetryPostponed
    <3>2. CASE RetryGivesUp
      BY <2>3, <3>2 DEF BackOff, RetryGivesUp, StopRetryTimer
    <3>3. CASE RetryStarts
      BY <2>3, <3>3 DEF BackOff, RetryStarts, StartRetryTimer, TimerInv
    <3>4. CASE RetryRefused
      BY <2>3, <3>4 DEF BackOff, RetryRefused, retryLogic
    <3>5. QED
      BY <2>3, <3>1, <3>2, <3>3, <3>4 DEF BackOff, CanRetryFalse
  <2>4. CASE Accepted
    BY <2>4 DEF Accepted, StopRetryTimer
  <2>5. CASE Lost
    BY <2>5 DEF Lost, retryLogic
  <2>6. CASE UNCHANGED vars
    BY <2>6 DEF vars, retryLogic
  <2>7. QED
    BY <2>1, <2>2, <2>3, <2>4, <2>5, <2>6 DEF Next
<1>3. QED
  BY <1>1, <1>2, TypeCorrect, TimerSound, PTL DEF Spec

-----------------------------------------------------------------------------
\* A repeated attempt of one outage is a RetryAttempt step.
LEMMA RetryingIsRetryAttempt ==
    ASSUME TypeOK, TimerInv, [Next]_vars, Retrying
    PROVE  RetryAttempt
<1> USE DEF TypeOK, Retrying, Attempting
<1>1. CASE Tick
  BY <1>1 DEF Tick, retryLogic
<1>2. CASE Attempt
  BY <1>2 DEF Attempt, CanRetryTrue, FirstAttempt, TimerInv
<1>3. CASE BackOff
  BY <1>3 DEF BackOff, CanRetryFalse, RetryPostponed, RetryGivesUp, RetryStarts,
              RetryRefused, StopRetryTimer, retryLogic
<1>4. CASE Accepted
  BY <1>4 DEF Accepted, StopRetryTimer
<1>5. CASE Lost
  BY <1>5 DEF Lost, retryLogic
<1>6. CASE UNCHANGED vars
  BY <1>6 DEF vars, retryLogic
<1>7. QED
  BY <1>1, <1>2, <1>3, <1>4, <1>5, <1>6 DEF Next

\* Repeated attempts are more than ERROR_TIME_FOR_RETRY_SECS apart.
THEOREM Spaced == Spec => AttemptsSpaced
<1>1. TypeOK /\ TimerInv /\ [Next]_vars
        => [Retrying => now - lastAttempt > ErrorTimeForRetry]_vars
  BY RetryingIsRetryAttempt, RetryAttemptDelay DEF TimerInv, Retrying
<1>2. QED
  BY <1>1, TypeCorrect, TimerSound, PTL DEF Spec, AttemptsSpaced

\* The exponential backoff is honoured by every repeated attempt.
THEOREM BackOffHolds == Spec => BackOffHonoured
<1>1. TypeOK /\ TimerInv /\ [Next]_vars
        => [Retrying => now - lastAttempt >= HalfDelta(retrycount)]_vars
  BY RetryingIsRetryAttempt, RetryAttemptDelay DEF TimerInv, Retrying
<1>2. QED
  BY <1>1, TypeCorrect, TimerSound, PTL DEF Spec, BackOffHonoured

\* A client that gave up never connects again.
THEOREM GivenUpForGood == Spec => GivingUpIsFinal
<1>1. TypeOK /\ TimerInv /\ [Next]_vars
        => [retryExpired => retryExpired' /\ UNCHANGED <<status, lastAttempt>>]_vars
  <2> SUFFICES ASSUME TypeOK, TimerInv, [Next]_vars, retryExpired
               PROVE  retryExpired' /\ UNCHANGED <<status, lastAttempt>>
    OBVIOUS
  <2> USE DEF TypeOK, TimerInv, NOT_CONNECTED, CONNECTING, CONNECTED
  <2>1. CASE Tick
    BY <2>1 DEF Tick, retryLogic
  <2>2. CASE Attempt
    BY <2>2 DEF Attempt, CanRetryTrue, FirstAttempt, RetryAttempt, PolicyAsked
  <2>3. CASE BackOff
    BY <2>3 DEF BackOff, CanRetryFalse, RetryPostponed, RetryGivesUp, RetryStarts,
                RetryRefused, PolicyAsked, retryLogic
  <2>4. CASE Accepted
    BY <2>4 DEF Accepted
  <2>5. CASE Lost
    BY <2>5 DEF Lost
  <2>6. CASE UNCHANGED vars
    BY <2>6 DEF vars, retryLogic
  <2>7. QED
    BY <2>1, <2>2, <2>3, <2>4, <2>5, <2>6 DEF Next
<1>2. QED
  BY <1>1, TypeCorrect, TimerSound, PTL DEF Spec, GivingUpIsFinal

-----------------------------------------------------------------------------
(***************************************************************************)
(* The deadline of a client that is polled in every second.                *)
(***************************************************************************)
\* A client that was asked in this second still has time: the attempt is not due yet.
\* One whose timer does not run was lost in this second or the one before.
InTime ==
    /\ now <= ReconnectDeadline
    /\ polledAt = now => now < ReconnectDeadline
    /\ ~retryStarted => /\ now <= downSince + 1
                        /\ polledAt = now => now <= downSince

\* A delay kept from an earlier failure never exceeds what the next one may draw, and
\* an outage in which nothing has been tried yet has none.
DelayInv ==
    /\ retrycount = 0 => lastConnect = EPOCH /\ delayFromLastConnectToRetry = 0
    /\ retrycount > 0 => delayFromLastConnectToRetry <= LongestDelay(retrycount)

PromptInv ==
    /\ downSince \in Nat /\ polledAt \in Int
    /\ DelayInv
    /\ prompt /\ status = NOT_CONNECTED /\ ~retryExpired => InTime

\* The larger of two numbers.
LEMMA MaxOfTwo ==
    ASSUME NEW a \in Int, NEW b \in Int
    PROVE  Max({a, b}) \in Int /\ Max({a, b}) >= a /\ Max({a, b}) >= b
                               /\ Max({a, b}) \in {a, b}
<1>1. CASE a >= b
  <2>1. a \in {a, b} /\ \A y \in {a, b} : a >= y
    BY <1>1
  <2> QED  BY <2>1 DEF Max
<1>2. CASE b >= a
  <2>1. b \in {a, b} /\ \A y \in {a, b} : b >= y
    BY <1>2
  <2> QED  BY <2>1 DEF Max
<1> QED  BY <1>1, <1>2

\* Powers of two grow: they count the subsets of larger and larger sets.
LEMMA PowersGrow ==
    ASSUME NEW n \in Nat
    PROVE  2^n \in Nat /\ 2^(n + 1) \in Nat /\ 2^n <= 2^(n + 1)
<1> DEFINE S == 1 .. n  T == 1 .. (n + 1)
<1>1. /\ IsFiniteSet(S) /\ Cardinality(S) = n
      /\ IsFiniteSet(T) /\ Cardinality(T) = n + 1
  BY FS_Interval
<1>2. SUBSET S \subseteq SUBSET T
  OBVIOUS
<1> HIDE DEF S, T
<1>3. /\ IsFiniteSet(SUBSET S) /\ Cardinality(SUBSET S) = 2^n
      /\ IsFiniteSet(SUBSET T) /\ Cardinality(SUBSET T) = 2^(n + 1)
  BY <1>1, FS_SUBSET
<1>4. /\ Cardinality(SUBSET S) \in Nat /\ Cardinality(SUBSET T) \in Nat
      /\ Cardinality(SUBSET S) <= Cardinality(SUBSET T)
  BY <1>2, <1>3, FS_Subset, FS_CardinalityType
<1> QED  BY <1>3, <1>4

\* A delay drawn after some failures is one that more failures may draw.
LEMMA DelaysGrow ==
    ASSUME NEW n \in Nat, NEW d \in BackOffDelays(n)
    PROVE  /\ d \in Nat /\ HalfDelta(n) \in Int /\ HalfDelta(n + 1) \in Int
           /\ LongestDelay(n) \in Int /\ LongestDelay(n + 1) \in Int
           /\ d <= LongestDelay(n) /\ d <= LongestDelay(n + 1)
<1>1. HalfDelta(n) \in Int /\ HalfDelta(n + 1) \in Int /\ HalfDelta(n) <= HalfDelta(n + 1)
  <2>1. 2^n \in Nat /\ 2^(n + 1) \in Nat /\ 2^n <= 2^(n + 1)
    BY PowersGrow
  <2> DEFINE p == 2^n  q == 2^(n + 1)
  <2> HIDE DEF p, q
  <2>2. p \in Nat /\ q \in Nat /\ p <= q
    BY <2>1 DEF p, q
  <2>3. (p - 1) \div 4 \in Int /\ (q - 1) \div 4 \in Int
        /\ (p - 1) \div 4 <= (q - 1) \div 4
    BY <2>2
  <2> QED  BY <2>3 DEF HalfDelta, p, q
<1>2. ErrorTimeForRetry + 1 \in Int
      /\ 2 * HalfDelta(n) - 1 \in Int /\ 2 * HalfDelta(n + 1) - 1 \in Int
  BY <1>1, RetryAssumption
<1>3. /\ LongestDelay(n) \in Int /\ LongestDelay(n + 1) \in Int
      /\ LongestDelay(n) >= ErrorTimeForRetry + 1
      /\ LongestDelay(n + 1) >= ErrorTimeForRetry + 1
      /\ LongestDelay(n) >= 2 * HalfDelta(n) - 1
      /\ LongestDelay(n + 1) >= 2 * HalfDelta(n + 1) - 1
  BY <1>2, MaxOfTwo DEF LongestDelay
<1>4. d \in Nat /\ (d = 0 \/ d <= 2 * HalfDelta(n) - 1)
  BY <1>1, BackOffDelaysBound DEF BackOffDelays
<1> QED  BY <1>1, <1>3, <1>4, RetryAssumption

\* The longest delay is more than the spacing of attempts.
LEMMA LongestDelayIs ==
    ASSUME NEW n \in Nat
    PROVE  LongestDelay(n) \in Int /\ LongestDelay(n) >= ErrorTimeForRetry + 1
<1>1. HalfDelta(n) \in Int
  BY DEF HalfDelta
<1>2. ErrorTimeForRetry + 1 \in Int /\ 2 * HalfDelta(n) - 1 \in Int
  BY <1>1, RetryAssumption
<1> QED  BY <1>2, MaxOfTwo DEF LongestDelay

\* The deadline, from what it is computed of.
DeadlineFor(count, down, last) ==
    IF count = 0
    THEN Max({down + 2, EPOCH + ErrorTimeForRetry + 1})
    ELSE Max({down + 1, last + LongestDelay(count)})

LEMMA DeadlineBounds ==
    ASSUME NEW count \in Nat, NEW down \in Nat, NEW last \in Nat \cup {Never}
    PROVE  /\ DeadlineFor(count, down, last) \in Int
           /\ DeadlineFor(count, down, last) >= down + 1
           /\ count = 0 =>
                 /\ DeadlineFor(count, down, last) >= down + 2
                 /\ DeadlineFor(count, down, last) >= ErrorTimeForRetry + 1
           /\ count > 0 => DeadlineFor(count, down, last) >= last + LongestDelay(count)
<1>1. /\ down + 1 \in Int /\ down + 2 \in Int
      /\ EPOCH + ErrorTimeForRetry + 1 \in Int
      /\ EPOCH + ErrorTimeForRetry + 1 = ErrorTimeForRetry + 1
  BY RetryAssumption DEF EPOCH
<1>2. CASE count = 0
  <2>1. DeadlineFor(count, down, last) = Max({down + 2, EPOCH + ErrorTimeForRetry + 1})
    BY <1>2 DEF DeadlineFor
  <2> DEFINE m == Max({down + 2, EPOCH + ErrorTimeForRetry + 1})
  <2>2. m \in Int /\ m >= down + 2 /\ m >= EPOCH + ErrorTimeForRetry + 1
    BY <1>1, MaxOfTwo
  <2> HIDE DEF m
  <2>3. DeadlineFor(count, down, last) = m
    BY <2>1 DEF m
  <2> QED  BY <1>1, <1>2, <2>2, <2>3
<1>3. CASE count > 0
  <2>1. last + LongestDelay(count) \in Int
    BY LongestDelayIs DEF Never
  <2>2. DeadlineFor(count, down, last) = Max({down + 1, last + LongestDelay(count)})
    BY <1>3 DEF DeadlineFor
  <2> DEFINE m == Max({down + 1, last + LongestDelay(count)})
  <2>3. m \in Int /\ m >= down + 1 /\ m >= last + LongestDelay(count)
    BY <1>1, <2>1, MaxOfTwo
  <2> HIDE DEF m
  <2>4. DeadlineFor(count, down, last) = m
    BY <2>2 DEF m
  <2> QED  BY <1>3, <2>3, <2>4
<1> QED  BY <1>2, <1>3

\* Before the first failure the policy draws no delay.
LEMMA NoDelayAtFirst ==
    ASSUME NEW d \in BackOffDelays(0)
    PROVE  d = 0
<1>1. HalfDelta(0) = 0
  BY DEF HalfDelta
<1> QED  BY <1>1 DEF BackOffDelays

\* The timer's own fields: what is kept of a delay is what the policy may draw.
LEMMA DelayStep ==
    ASSUME TypeOK, TimerInv, DelayInv, [Next]_vars
    PROVE  DelayInv'
<1> USE DEF DelayInv, TypeOK
<1>1. CASE Tick
  BY <1>1 DEF Tick, retryLogic
<1>2. CASE Attempt /\ FirstAttempt
  <2>1. retrycount' = 1 /\ delayFromLastConnectToRetry' = 0
    BY <1>2 DEF FirstAttempt, StartRetryTimer, TimerInv
  <2>2. LongestDelay(1) \in Int /\ LongestDelay(1) >= ErrorTimeForRetry + 1
    BY LongestDelayIs
  <2> QED  BY <2>1, <2>2, RetryAssumption
<1>3. CASE Attempt /\ RetryAttempt
  <2>1. PICK d \in BackOffDelays(retrycount) : delayFromLastConnectToRetry' = d
    BY <1>3 DEF RetryAttempt
  <2>2. retrycount' = retrycount + 1
    BY <1>3 DEF RetryAttempt
  <2> QED  BY <2>1, <2>2, DelaysGrow
<1>4. CASE BackOff /\ RetryPostponed
  <2>1. PICK d \in BackOffDelays(retrycount) :
            delayFromLastConnectToRetry' = d /\ d > ErrorTimeForRetry
    BY <1>4 DEF RetryPostponed
  <2>2. retrycount' = retrycount /\ lastConnect' = lastConnect
    BY <1>4 DEF RetryPostponed
  <2>3. retrycount # 0
    BY <2>1, NoDelayAtFirst, RetryAssumption
  <2> QED  BY <2>1, <2>2, <2>3, DelaysGrow
<1>5. CASE BackOff /\ RetryGivesUp
  BY <1>5 DEF RetryGivesUp, PolicyAsked, StopRetryTimer
<1>6. CASE BackOff /\ RetryStarts
  BY <1>6 DEF RetryStarts, StartRetryTimer, TimerInv
<1>7. CASE BackOff /\ RetryRefused
  BY <1>7 DEF RetryRefused, retryLogic
<1>8. CASE Accepted
  BY <1>8 DEF Accepted, StopRetryTimer, TimerInv
<1>9. CASE Lost
  BY <1>9 DEF Lost, retryLogic
<1>10. CASE UNCHANGED vars
  BY <1>10 DEF vars, retryLogic
<1> QED
  BY <1>1, <1>2, <1>3, <1>4, <1>5, <1>6, <1>7, <1>8, <1>9, <1>10
  DEF Next, Attempt, BackOff, CanRetryTrue, CanRetryFalse

\* Every step of RetryLogicPrompt is one of RetryLogic.
LEMMA PromptIsRetryLogic == PromptSpec => Spec
<1>1. PromptInit => Init
  BY DEF PromptInit
<1>2. [PromptNext]_promptVars => [Next]_vars
  BY DEF PromptNext, PromptTick, Poll, PromptAccepted, PromptLost, Next, promptVars
<1> QED  BY <1>1, <1>2, PTL DEF PromptSpec, Spec

\* A poll leaves a client that is without a connection some time, or makes it give up.
LEMMA PollInTime ==
    ASSUME TypeOK, TypeOK', TimerInv, TimerInv', DelayInv, downSince \in Nat,
           prompt /\ status = NOT_CONNECTED /\ ~retryExpired => InTime,
           Poll, prompt, status' = NOT_CONNECTED, ~retryExpired'
    PROVE  InTime'
<1>1. /\ status = NOT_CONNECTED /\ now' = now /\ downSince' = downSince /\ polledAt' = now
  BY DEF Poll, Attempt, BackOff
<1>2. ReconnectDeadline' = DeadlineFor(retrycount', downSince, lastAttempt')
  BY <1>1 DEF ReconnectDeadline, DeadlineFor
<1>3. /\ ReconnectDeadline' \in Int
      /\ retrycount' = 0 => /\ ReconnectDeadline' >= downSince + 2
                            /\ ReconnectDeadline' >= ErrorTimeForRetry + 1
      /\ retrycount' > 0 => ReconnectDeadline' >= lastAttempt' + LongestDelay(retrycount')
  BY <1>2, DeadlineBounds DEF TypeOK
<1>4. /\ retrycount' \in Nat
      /\ LongestDelay(retrycount') \in Int /\ LongestDelay(retrycount') >= ErrorTimeForRetry + 1
      /\ ErrorTimeForRetry \in Nat /\ now \in Nat
  BY LongestDelayIs, RetryAssumption DEF TypeOK
<1> SUFFICES now < ReconnectDeadline' /\ retryStarted'
  BY <1>1, <1>3, <1>4 DEF InTime
<1>5. CASE Attempt
  <2>1. retryStarted' /\ retrycount' > 0 /\ lastAttempt' = now
    BY <1>5 DEF Attempt, CanRetryTrue, FirstAttempt, RetryAttempt, StartRetryTimer,
                PolicyAsked, TypeOK
  <2> QED  BY <1>3, <1>4, <2>1
<1>6. CASE BackOff /\ RetryPostponed
  <2>1. PICK d \in BackOffDelays(retrycount) : d > ErrorTimeForRetry /\ diffTime < d
    BY <1>6 DEF RetryPostponed
  <2>2. /\ retrycount' = retrycount /\ lastAttempt' = lastAttempt /\ retryStarted'
    BY <1>6 DEF BackOff, RetryPostponed, PolicyAsked
  <2>3. retrycount # 0
    BY <2>1, NoDelayAtFirst, RetryAssumption
  <2>4. /\ d \in Nat /\ d <= LongestDelay(retrycount)
    BY <2>1, DelaysGrow DEF TypeOK
  <2>5. retrycount > 0 /\ lastAttempt # Never /\ lastConnect = lastAttempt
        /\ lastConnect \in Nat
    BY <2>3 DEF TypeOK, TimerInv
  <2> QED  BY <1>3, <1>4, <2>1, <2>2, <2>4, <2>5 DEF diffTime
<1>7. CASE BackOff /\ RetryStarts
  <2>1. retrycount' = 0 /\ ~retryStarted /\ ~retryExpired /\ retryStarted'
    BY <1>7 DEF RetryStarts, StartRetryTimer, TimerInv
  <2>2. now <= downSince + 1
    BY <1>1, <2>1 DEF InTime
  <2> QED  BY <1>3, <1>4, <2>1, <2>2
<1>8. CASE BackOff /\ RetryRefused
  <2>1. /\ retryStarted /\ TooSoon /\ retrycount' = retrycount /\ lastAttempt' = lastAttempt
        /\ retryStarted'
    BY <1>8 DEF BackOff, RetryRefused, retryLogic
  <2>2. retrycount \in Nat /\ lastConnect \in Nat /\ delayFromLastConnectToRetry \in Nat
    BY DEF TypeOK
  <2>3. CASE retrycount = 0
    <3>1. lastConnect = 0 /\ delayFromLastConnectToRetry = 0
      BY <2>3 DEF DelayInv, EPOCH
    <3>2. now <= ErrorTimeForRetry
      BY <1>4, <2>1, <3>1 DEF TooSoon, diffTime
    <3> QED  BY <1>3, <1>4, <2>1, <2>3, <3>2
  <2>4. CASE retrycount > 0
    <3>1. lastConnect = lastAttempt
          /\ delayFromLastConnectToRetry <= LongestDelay(retrycount)
      BY <2>4 DEF TimerInv, DelayInv
    <3>2. now < lastConnect + LongestDelay(retrycount)
      BY <1>4, <2>1, <2>2, <3>1 DEF TooSoon, diffTime
    <3>3. ReconnectDeadline' >= lastConnect + LongestDelay(retrycount)
      BY <1>3, <2>1, <2>4, <3>1
    <3>4. LongestDelay(retrycount) \in Int
      BY <2>2, LongestDelayIs
    <3> QED  BY <1>3, <1>4, <2>1, <2>2, <3>2, <3>3, <3>4
  <2> QED  BY <2>2, <2>3, <2>4
<1>9. CASE BackOff /\ RetryGivesUp
  BY <1>9 DEF RetryGivesUp
<1> QED  BY <1>5, <1>6, <1>7, <1>8, <1>9 DEF Poll, BackOff, CanRetryFalse

\* PromptInv is inductive relative to the types and to TimerInv.
LEMMA PromptStep ==
    ASSUME TypeOK, TypeOK', TimerInv, TimerInv', PromptInv, [PromptNext]_promptVars
    PROVE  PromptInv'
<1>1. [Next]_vars
  BY DEF PromptNext, PromptTick, Poll, PromptAccepted, PromptLost, Next, promptVars
<1>2. DelayInv'
  BY <1>1, DelayStep DEF PromptInv
<1>3. downSince \in Nat /\ polledAt \in Int /\ DelayInv
      /\ (prompt /\ status = NOT_CONNECTED /\ ~retryExpired => InTime)
  BY DEF PromptInv
<1>4. now \in Nat /\ now' \in Nat /\ BootTime \in Nat /\ Never \in Int
  BY RetryAssumption DEF TypeOK, Never
<1>5. CASE PromptTick
  <2>1. downSince' \in Nat /\ polledAt' \in Int
    BY <1>3, <1>4, <1>5 DEF PromptTick
  <2>2. ASSUME prompt', status' = NOT_CONNECTED, ~retryExpired'
        PROVE  InTime'
    <3>1. /\ prompt /\ status = NOT_CONNECTED /\ polledAt = now /\ ~retryExpired
          /\ polledAt' = polledAt /\ downSince' = downSince /\ now' = now + 1
          /\ retryStarted' = retryStarted /\ retrycount' = retrycount
          /\ lastAttempt' = lastAttempt
      BY <1>5, <2>2 DEF PromptTick, Tick, retryLogic
    <3>2. InTime
      BY <1>3, <3>1
    <3>3. ReconnectDeadline' = ReconnectDeadline /\ ReconnectDeadline \in Int
      <4>1. ReconnectDeadline' = ReconnectDeadline
        BY <3>1 DEF ReconnectDeadline
      <4>2. ReconnectDeadline = DeadlineFor(retrycount, downSince, lastAttempt)
        BY DEF ReconnectDeadline, DeadlineFor
      <4> QED  BY <4>1, <4>2, <1>3, DeadlineBounds DEF TypeOK
    <3> QED  BY <1>3, <1>4, <3>1, <3>2, <3>3 DEF InTime
  <2> QED  BY <1>2, <2>1, <2>2 DEF PromptInv
<1>6. CASE Poll
  <2>1. downSince' \in Nat /\ polledAt' \in Int /\ prompt' = prompt
    BY <1>3, <1>4, <1>6 DEF Poll
  <2>2. ASSUME prompt', status' = NOT_CONNECTED, ~retryExpired'
        PROVE  InTime'
    BY <1>3, <1>6, <2>1, <2>2, PollInTime
  <2> QED  BY <1>2, <2>1, <2>2 DEF PromptInv
<1>7. CASE PromptAccepted
  BY <1>2, <1>3, <1>7 DEF PromptAccepted, Accepted, PromptInv, CONNECTED, NOT_CONNECTED
<1>8. CASE PromptLost
  <2>1. downSince' \in Nat /\ polledAt' \in Int /\ prompt' = prompt /\ now' = now
    BY <1>3, <1>4, <1>8 DEF PromptLost, Lost
  <2>2. ASSUME prompt'
        PROVE  InTime'
    <3>1. downSince' = now
      BY <1>8, <2>1, <2>2 DEF PromptLost
    <3>2. ReconnectDeadline' = DeadlineFor(retrycount', downSince', lastAttempt')
      BY DEF ReconnectDeadline, DeadlineFor
    <3>3. ReconnectDeadline' \in Int /\ ReconnectDeadline' >= downSince' + 1
      BY <2>1, <3>2, DeadlineBounds DEF TypeOK
    <3> QED  BY <1>4, <2>1, <3>1, <3>3 DEF InTime
  <2> QED  BY <1>2, <2>1, <2>2 DEF PromptInv
<1>9. CASE UNCHANGED promptVars
  BY <1>2, <1>3, <1>9
  DEF promptVars, vars, retryLogic, PromptInv, InTime, ReconnectDeadline
<1> QED  BY <1>5, <1>6, <1>7, <1>8, <1>9 DEF PromptNext

\* The record of a client that is polled in every second: what it keeps of the delays it
\* drew never takes it beyond the deadline.
THEOREM PromptSound == PromptSpec => []PromptInv
<1>1. PromptInit => PromptInv
  <2> SUFFICES ASSUME PromptInit  PROVE PromptInv
    OBVIOUS
  <2>1. /\ now = BootTime /\ downSince = BootTime /\ polledAt = Never /\ retrycount = 0
        /\ lastConnect = EPOCH /\ delayFromLastConnectToRetry = 0
    BY DEF PromptInit, Init, CreateRetryLogic
  <2>2. /\ BootTime \in Nat /\ BootTime # Never /\ Never \in Int
    BY RetryAssumption DEF Never
  <2>3. ReconnectDeadline = Max({downSince + 2, EPOCH + ErrorTimeForRetry + 1})
    BY <2>1 DEF ReconnectDeadline
  <2>4. ReconnectDeadline \in Int /\ ReconnectDeadline >= BootTime + 2
    BY <2>1, <2>2, <2>3, MaxOfTwo, RetryAssumption DEF EPOCH
  <2> QED  BY <2>1, <2>2, <2>4 DEF PromptInv, DelayInv, InTime
<1>2. TypeOK /\ TypeOK' /\ TimerInv /\ TimerInv' /\ PromptInv /\ [PromptNext]_promptVars
        => PromptInv'
  BY PromptStep
<1> QED
  BY <1>1, <1>2, PromptIsRetryLogic, TypeCorrect, TimerSound, PTL DEF PromptSpec

\* A client that is polled in every second tries again by the deadline of its back-off,
\* or gives up: drawing the jitter anew in every call of CanRetry never postpones the
\* attempt beyond the largest delay the policy can draw.
THEOREM RetriesInTime == PromptSpec => []ReconnectsOrGivesUpInTime
<1>1. PromptInv => ReconnectsOrGivesUpInTime
  BY DEF PromptInv, InTime, ReconnectsOrGivesUpInTime
<1> QED  BY <1>1, PromptSound, PTL

=============================================================================
