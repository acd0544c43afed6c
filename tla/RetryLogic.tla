----------------------------- MODULE RetryLogic -----------------------------
(***************************************************************************)
(* The reconnection timer of iothub_client/src/iothub_mqtt_client.c: the   *)
(* RETRY_LOGIC record, StartRetryTimer, StopRetryTimer, the backoff policy *)
(* and CanRetry, which every iothub_mqtt_dowork calls while the client is  *)
(* not connected.  The connection itself is only its status: an attempt    *)
(* may fail at once, wait for CONNACK, be accepted, and be lost again.     *)
(* IothubMqttClient is the detailed client that implements this module.    *)
(*                                                                         *)
(* Time is the wall clock in whole seconds, as get_time(NULL) returns it.  *)
(***************************************************************************)
EXTENDS Integers

CONSTANTS
    RetryTimeoutLimit,  \* retryTimeoutLimitInSeconds; 0 means "retry forever"
    ErrorTimeForRetry,  \* ERROR_TIME_FOR_RETRY_SECS
    BootTime,           \* the wall clock when the client is created
    MaxTime             \* bound of the clock, for TLC only

ASSUME RetryAssumption ==
    /\ RetryTimeoutLimit \in Nat
    /\ ErrorTimeForRetry \in Nat
    /\ BootTime \in Nat \ {0}
    /\ MaxTime \in Nat

VARIABLES
    now,          \* get_time(NULL)
    status,       \* mqttClientStatus
    lastAttempt,  \* history: when the client last tried to connect, or Never
    \* The fields of RETRY_LOGIC:
    start, delayFromLastConnectToRetry, lastConnect,
    retryStarted, retryExpired, firstAttempt, retrycount

retryLogic == <<start, delayFromLastConnectToRetry, lastConnect,
                retryStarted, retryExpired, firstAttempt, retrycount>>

vars == <<now, status, lastAttempt, retryLogic>>

EPOCH == 0
Never == -1

NOT_CONNECTED == "NOT_CONNECTED"
CONNECTING == "CONNECTING"
CONNECTED == "CONNECTED"
Statuses == {NOT_CONNECTED, CONNECTING, CONNECTED}

CreateRetryLogic ==
    /\ start = EPOCH
    /\ delayFromLastConnectToRetry = 0
    /\ lastConnect = EPOCH
    /\ retryStarted = FALSE
    /\ retryExpired = FALSE
    /\ firstAttempt = TRUE
    /\ retrycount = 0

\* Assigns the fields that lastConnect, retrycount and retryExpired leave.
StartRetryTimer ==
    /\ IF retryStarted
       THEN UNCHANGED <<start, delayFromLastConnectToRetry>>
       ELSE /\ start' = now
            /\ delayFromLastConnectToRetry' = 0
    /\ retryStarted' = TRUE
    /\ firstAttempt' = FALSE

\* A bug StopRetryTimer could have: the failure count outlives the outage.
StopRetryTimerKeepsCount ==
    /\ IF retryStarted
       THEN /\ delayFromLastConnectToRetry' = 0
            /\ lastConnect' = EPOCH
       ELSE UNCHANGED <<delayFromLastConnectToRetry, lastConnect>>
    /\ retryStarted' = FALSE
    /\ UNCHANGED <<start, firstAttempt, retrycount>>

\* Stopping a timer that is not running only logs an error.  Assigns every
\* field but retryExpired.
StopRetryTimer ==
    /\ IF retryStarted
       THEN /\ delayFromLastConnectToRetry' = 0
            /\ lastConnect' = EPOCH
            /\ retrycount' = 0
       ELSE UNCHANGED <<delayFromLastConnectToRetry, lastConnect, retrycount>>
    /\ retryStarted' = FALSE
    /\ UNCHANGED <<start, firstAttempt>>

(***************************************************************************)
(* RetryPolicy_Exponential_BackOff_With_Jitter: the delay is halfDelta     *)
(* plus rand() % halfDelta, and 0 while halfDelta is 0.                    *)
(***************************************************************************)
HalfDelta(numOfFailures) == (2^numOfFailures - 1) \div 4

\* A bug the policy could have: the jitter replaces the delay.
JitterOnly(numOfFailures) ==
    LET halfDelta == HalfDelta(numOfFailures)
    IN  IF halfDelta > 0 THEN 0 .. (halfDelta - 1) ELSE {0}

BackOffDelays(numOfFailures) ==
    LET halfDelta == HalfDelta(numOfFailures)
    IN  IF halfDelta > 0 THEN halfDelta .. (2 * halfDelta - 1) ELSE {0}

-----------------------------------------------------------------------------
(***************************************************************************)
(* CanRetry, one operator per outcome.  The two error returns that retry   *)
(* forever (no RETRY_LOGIC, a negative clock) cannot happen here: the      *)
(* record always exists and the clock starts at BootTime > 0.              *)
(***************************************************************************)
diffTime == now - lastConnect

\* A bug the spacing guard could have: off by one at the boundary.
TooSoonOffByOne ==
    \/ diffTime < ErrorTimeForRetry
    \/ diffTime < delayFromLastConnectToRetry

TooSoon ==
    \/ diffTime <= ErrorTimeForRetry
    \/ diffTime < delayFromLastConnectToRetry

\* A bug the limit could have: the time already spent retrying is not counted.
WithinLimitOfDelayOnly(delay) ==
    RetryTimeoutLimit = 0 \/ RetryTimeoutLimit >= delay

WithinLimit(delay) ==
    \/ RetryTimeoutLimit = 0
    \/ RetryTimeoutLimit >= delay + (now - start)

\* It may be time to retry: the policy has to be asked.
PolicyAsked == ~retryExpired /\ ~firstAttempt /\ retryStarted /\ ~TooSoon

\* The first call ever connects, whatever the timer says.
FirstAttempt ==
    /\ ~retryExpired
    /\ firstAttempt
    /\ StartRetryTimer
    /\ lastConnect' = now
    /\ retrycount' = retrycount + 1
    /\ UNCHANGED retryExpired

\* The policy lets the client connect now.
RetryAttempt ==
    /\ PolicyAsked
    /\ \E delay \in BackOffDelays(retrycount) :
          /\ WithinLimit(delay)
          /\ delay <= ErrorTimeForRetry \/ diffTime >= delay
          /\ delayFromLastConnectToRetry' = delay
    /\ lastConnect' = now
    /\ retrycount' = retrycount + 1
    /\ UNCHANGED <<start, retryStarted, retryExpired, firstAttempt>>

\* The delay just drawn has not elapsed yet: it is kept for the next call.
RetryPostponed ==
    /\ PolicyAsked
    /\ \E delay \in BackOffDelays(retrycount) :
          /\ WithinLimit(delay)
          /\ delay > ErrorTimeForRetry
          /\ diffTime < delay
          /\ delayFromLastConnectToRetry' = delay
    /\ UNCHANGED <<start, lastConnect, retryStarted, retryExpired, firstAttempt, retrycount>>

\* The next attempt would fall after the limit: the client gives up for good.
RetryGivesUp ==
    /\ PolicyAsked
    /\ \E delay \in BackOffDelays(retrycount) : ~WithinLimit(delay)
    /\ retryExpired' = TRUE
    /\ StopRetryTimer

\* A bug starting the timer could have: it counts as an attempt made now.
RetryStartsLate ==
    /\ ~retryExpired
    /\ ~firstAttempt
    /\ ~retryStarted
    /\ StartRetryTimer
    /\ lastConnect' = now
    /\ UNCHANGED <<retrycount, retryExpired>>

\* A bug starting the timer could have: it forgets that the client gave up.
RetryStartsAfresh ==
    /\ ~firstAttempt
    /\ ~retryStarted
    /\ StartRetryTimer
    /\ retryExpired' = FALSE
    /\ UNCHANGED <<lastConnect, retrycount>>

\* The first call after a loss only starts the timer.
RetryStarts ==
    /\ ~retryExpired
    /\ ~firstAttempt
    /\ ~retryStarted
    /\ StartRetryTimer
    /\ UNCHANGED <<lastConnect, retrycount, retryExpired>>

\* Given up, or too soon after the last attempt.
RetryRefused ==
    /\ \/ retryExpired
       \/ ~firstAttempt /\ retryStarted /\ TooSoon
    /\ UNCHANGED retryLogic

CanRetryTrue == FirstAttempt \/ RetryAttempt
CanRetryFalse == RetryPostponed \/ RetryGivesUp \/ RetryStarts \/ RetryRefused

-----------------------------------------------------------------------------
Init ==
    /\ now = BootTime
    /\ status = NOT_CONNECTED
    /\ lastAttempt = Never
    /\ CreateRetryLogic

Tick ==
    /\ now < MaxTime
    /\ now' = now + 1
    /\ UNCHANGED <<status, lastAttempt, retryLogic>>

\* initialize_mqtt_connection: CanRetry says yes and a connect is started,
\* which fails at once or waits for CONNACK.
Attempt ==
    /\ status = NOT_CONNECTED
    /\ CanRetryTrue
    /\ lastAttempt' = now
    /\ status' \in {NOT_CONNECTED, CONNECTING}
    /\ UNCHANGED now

\* initialize_mqtt_connection: CanRetry says no.
BackOff ==
    /\ status = NOT_CONNECTED
    /\ CanRetryFalse
    /\ UNCHANGED <<now, status, lastAttempt>>

\* OnMqttOperationComplete: CONNACK accepts the connection.
Accepted ==
    /\ status = CONNECTING
    /\ status' = CONNECTED
    /\ StopRetryTimer
    /\ UNCHANGED <<now, lastAttempt, retryExpired>>

\* A refusal, the CONNACK timeout or an error ends the connection: none of
\* them touches the timer.
Lost ==
    /\ status # NOT_CONNECTED
    /\ status' = NOT_CONNECTED
    /\ UNCHANGED <<now, lastAttempt, retryLogic>>

Next == Tick \/ Attempt \/ BackOff \/ Accepted \/ Lost

Spec == Init /\ [][Next]_vars

-----------------------------------------------------------------------------
\* Every variable has the type of its C counterpart.
TypeOK ==
    /\ now \in Nat
    /\ status \in Statuses
    /\ lastAttempt \in Nat \cup {Never}
    /\ start \in Nat
    /\ delayFromLastConnectToRetry \in Nat
    /\ lastConnect \in Nat
    /\ retryStarted \in BOOLEAN
    /\ retryExpired \in BOOLEAN
    /\ firstAttempt \in BOOLEAN
    /\ retrycount \in Nat

\* The step starts a connection attempt, and it is a repeated one: at least
\* one attempt of this outage has failed before it.
Attempting == retrycount' > retrycount
Retrying == Attempting /\ retrycount > 0

\* Within one outage (no CONNACK since the last attempt) two connection
\* attempts are more than ERROR_TIME_FOR_RETRY_SECS apart.
AttemptsSpaced == [][Retrying => now - lastAttempt > ErrorTimeForRetry]_vars

\* An attempt after n failures in a row comes at least halfDelta(n) seconds
\* after the previous one, however often the jitter was drawn in between.
BackOffHonoured == [][Retrying => now - lastAttempt >= HalfDelta(retrycount)]_vars

\* No attempt is made later than retryTimeoutLimitInSeconds after the client
\* began to retry.
AttemptsWithinLimit ==
    retrycount > 0 /\ RetryTimeoutLimit > 0
        => lastAttempt - start <= RetryTimeoutLimit

\* While a connection is up, or the client has given up, no timer is running
\* and no failure is counted: the next outage starts from a clean record.
IdleTimerIsClean ==
    status = CONNECTED \/ retryExpired
        => ~retryStarted /\ retrycount = 0 /\ delayFromLastConnectToRetry = 0

\* Giving up is final: once the limit is exceeded the client stays without a
\* connection and makes no attempt, whatever the network does.
GivingUpIsFinal ==
    [][retryExpired => retryExpired' /\ UNCHANGED <<status, lastAttempt>>]_vars

\* The inductive invariant behind the properties above.  A running timer has a
\* start in the past; lastConnect is the real last attempt for as long as
\* failures are counted; only a client without a connection gives up.
TimerInv ==
    /\ start <= now
    /\ lastConnect <= now
    /\ retrycount > 0 => lastAttempt # Never /\ lastConnect = lastAttempt
    /\ ~retryStarted => retrycount = 0 /\ delayFromLastConnectToRetry = 0
    /\ firstAttempt => ~retryStarted
    /\ retryExpired => ~retryStarted /\ status = NOT_CONNECTED
    /\ status = CONNECTING => retryStarted
    /\ status = CONNECTED => ~retryStarted
    /\ status # NOT_CONNECTED => ~firstAttempt

=============================================================================
