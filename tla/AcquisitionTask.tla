-------------------------- MODULE AcquisitionTask --------------------------
(***************************************************************************)
(* One acquisition thread of the agent, send_resquest_thread of            *)
(* iot_edge_agent/src/iot_main.c, with the channel callbacks it runs and   *)
(* the request cursor of protocol_manager.c.  The thread polls its model's *)
(* requests in turn and sends the ones that are due to the meter; what the *)
(* meter answers is decoded as the answer to the last request sent.        *)
(*                                                                         *)
(* A request is due by its own mode.  "realtime" requests wait for the     *)
(* answer to the one before (task_lock), the scheduled ones do not.        *)
(* Clocks stop one past the gap they are compared with, so that time is    *)
(* not bounded; the calendar that the scheduled modes look at is external. *)
(***************************************************************************)
EXTENDS Integers, Sequences

CONSTANTS
    N,              \* the model has requests 1 .. N
    acqMode,        \* their modes: "realtime", "schfrz" or "clock"
    acqInt,         \* their intervals in seconds
    ClockGap,       \* seconds between two "clock" requests at least
    LockTimeout,    \* seconds an answer is waited for
    MaxTimeOuts,    \* unanswered requests after which the task stops
    PollsPerTick,   \* the thread polls at least that often in a second
    MaxRestarts,    \* bound: models received while the task exists
    MaxPending,     \* bound: requests the meter has not answered
    MaxPieces       \* bound: answers that arrive in pieces

Requests == 1 .. N

ASSUME TaskAssumption ==
    /\ N \in Nat \ {0}
    /\ acqMode \in [Requests -> {"realtime", "schfrz", "clock"}]
    /\ acqInt \in [Requests -> Nat]
    /\ {ClockGap, LockTimeout, MaxTimeOuts, PollsPerTick, MaxRestarts, MaxPending,
        MaxPieces} \subseteq Nat

VARIABLES
    \* PM_CHANNEL_MAP
    task_stop, task_lock, time_out_count,
    \* PM_INSTANCE: the request cursor, 0 for NULL
    next_data_info, prev_data_info, curr_data_info,
    freezing,        \* TIME_TO_SEND, per request
    sincePacket,     \* current_tick - packetSendTime, per request
    \* local variables of the thread
    sinceSend,       \* current_tick - last_send_tick
    task_pc,         \* "top", "poll", "exited", or "undefined"
    polls,           \* polls since the clock last ticked
    \* the meter
    pending,         \* requests it received and may still answer, in order
    alive,           \* it may still answer at all
    broken,          \* a piece of its next answer has been read
    restarts,        \* models received while the task exists
    pieces,          \* answers that arrived in pieces
    overrun,         \* history: the lock timed out under an answer still to come
    reading          \* history: <<request answered, request decoded as>> last time

mapVars == <<task_stop, task_lock, time_out_count>>
cursorVars == <<next_data_info, prev_data_info, curr_data_info>>
meterVars == <<pending, alive, broken>>
boundVars == <<restarts, pieces, overrun>>
taskVars == <<mapVars, cursorVars, freezing, sincePacket, sinceSend, task_pc, polls,
              meterVars, boundVars, reading>>

Gap(r) == IF acqMode[r] = "clock" THEN ClockGap ELSE acqInt[r]
Due(r) == sincePacket[r] > Gap(r)
\* last_send_tick has no initial value: a new thread finds any tick in it.
UnknownAge == 0 .. (LockTimeout + 1)
Capped(age, gap) == IF age > gap THEN age ELSE age + 1

-----------------------------------------------------------------------------
(***************************************************************************)
(* xio_dowork and the channel's callbacks                                  *)
(***************************************************************************)
Reading == task_pc = "top" /\ ~task_stop

ReadNothing ==
    /\ Reading
    /\ task_pc' = "poll"
    /\ UNCHANGED <<mapVars, cursorVars, freezing, sincePacket, sinceSend, polls,
                   meterVars, boundVars, reading>>

\* data_response_parse: the bytes are decoded as the answer to curr_data_info, or
\* rejected.  What is left of an answer after a piece of it is rejected.
Decoded == {reading} \cup
    (IF broken THEN {} ELSE {<<Head(pending), curr_data_info>>})

\* on_io_bytes_received.  Without a request sent by this instance curr_data_info
\* is NULL and is dereferenced all the same.
ReadAnswer ==
    /\ Reading
    /\ alive /\ pending # <<>>
    /\ pending' = Tail(pending)
    /\ task_lock' = FALSE
    /\ time_out_count' = 0
    /\ IF curr_data_info = 0
       THEN /\ task_pc' = "undefined"
            /\ UNCHANGED reading
       ELSE /\ task_pc' = "poll"
            /\ reading' \in Decoded
    /\ broken' = FALSE
    /\ UNCHANGED <<task_stop, cursorVars, freezing, sincePacket, sinceSend, polls, alive,
                   boundVars>>

\* The same for the first bytes of an answer: they are taken for all of it, so that
\* the lock is released although the rest is still to come.
ReadPiece ==
    /\ Reading
    /\ alive /\ pending # <<>> /\ ~broken
    /\ pieces < MaxPieces
    /\ pieces' = pieces + 1
    /\ broken' = TRUE
    /\ task_lock' = FALSE
    /\ time_out_count' = 0
    /\ task_pc' = IF curr_data_info = 0 THEN "undefined" ELSE "poll"
    /\ UNCHANGED <<task_stop, cursorVars, freezing, sincePacket, sinceSend, polls, pending,
                   alive, restarts, overrun, reading>>

\* on_io_error: the task will stop, after this poll.
ReadError ==
    /\ Reading
    /\ task_stop' = TRUE
    /\ task_pc' = "poll"
    /\ UNCHANGED <<task_lock, time_out_count, cursorVars, freezing, sincePacket, sinceSend,
                   polls, meterVars, boundVars, reading>>

Exit ==
    /\ task_pc = "top" /\ task_stop
    /\ task_pc' = "exited"
    /\ UNCHANGED <<mapVars, cursorVars, freezing, sincePacket, sinceSend, polls,
                   meterVars, boundVars, reading>>

-----------------------------------------------------------------------------
(***************************************************************************)
(* The rest of the poll: get_next_send_time moves the cursor to request r  *)
(***************************************************************************)
\* A bug the cursor could have: it wraps one request early.
FollowingSkipsLast(r) == IF r + 1 >= N THEN 1 ELSE r + 1

Following(r) == IF r = N THEN 1 ELSE r + 1

Polling(r) ==
    /\ task_pc = "poll"
    /\ r = next_data_info
    /\ prev_data_info' = r
    /\ next_data_info' = Following(r)
    /\ task_pc' = "top"
    /\ polls' = Capped(polls, PollsPerTick)

\* A bug get_request_data could have: it does not remember the request.
SendRequestForgets(r) ==
    /\ sincePacket' = [sincePacket EXCEPT ![r] = 0]
    /\ \/ UNCHANGED pending
       \/ Len(pending) < MaxPending /\ alive /\ pending' = Append(pending, r)
    /\ UNCHANGED curr_data_info

\* get_request_data and xio_send: a failed send is only logged.
SendRequest(r) ==
    /\ curr_data_info' = r
    /\ sincePacket' = [sincePacket EXCEPT ![r] = 0]
    /\ \/ UNCHANGED pending
       \/ Len(pending) < MaxPending /\ alive /\ pending' = Append(pending, r)

\* A bug the realtime branch could have: it does not look at the lock.
PollRealtimeSendUnlocked(r) ==
    /\ Polling(r)
    /\ acqMode[r] = "realtime" /\ Due(r)
    /\ SendRequest(r)
    /\ task_lock' = TRUE
    /\ sinceSend' = 0
    /\ UNCHANGED <<task_stop, time_out_count, freezing, alive, broken, boundVars, reading>>

PollRealtimeSend(r) ==
    /\ Polling(r)
    /\ acqMode[r] = "realtime" /\ Due(r) /\ ~task_lock
    /\ SendRequest(r)
    /\ task_lock' = TRUE
    /\ sinceSend' = 0
    /\ UNCHANGED <<task_stop, time_out_count, freezing, alive, broken, boundVars, reading>>

Overdue == sinceSend > LockTimeout

\* A bug the timeout could have: the count starts again with every timeout.
PollTimeoutRecounts(r) ==
    /\ Polling(r)
    /\ acqMode[r] = "realtime" /\ Due(r) /\ task_lock
    /\ Overdue
    /\ task_lock' = FALSE
    /\ time_out_count' = 1
    /\ task_stop' = (task_stop \/ time_out_count' >= MaxTimeOuts)
    /\ overrun' = (overrun \/ pending # <<>>)
    /\ UNCHANGED <<curr_data_info, freezing, sincePacket, sinceSend, meterVars, restarts,
                   pieces, reading>>

\* A due request finds the lock held for too long.
PollTimeout(r) ==
    /\ Polling(r)
    /\ acqMode[r] = "realtime" /\ Due(r) /\ task_lock
    /\ Overdue
    /\ task_lock' = FALSE
    /\ time_out_count' = time_out_count + 1
    /\ task_stop' = (task_stop \/ time_out_count' >= MaxTimeOuts)
    /\ overrun' = (overrun \/ pending # <<>>)
    /\ UNCHANGED <<curr_data_info, freezing, sincePacket, sinceSend, meterVars, restarts,
                   pieces, reading>>

\* It is not due, or the lock is held.
PollRealtimeIdle(r) ==
    /\ Polling(r)
    /\ acqMode[r] = "realtime"
    /\ Due(r) => task_lock /\ ~Overdue
    /\ UNCHANGED <<mapVars, curr_data_info, freezing, sincePacket, sinceSend, meterVars,
                   boundVars, reading>>

\* "schfrz": sends by interval while freezing, locked or not, and leaves
\* last_send_tick alone; then the calendar may begin or end the freezing.
PollFrozen(r) ==
    /\ Polling(r)
    /\ acqMode[r] = "schfrz"
    /\ IF freezing[r] /\ Due(r)
       THEN SendRequest(r) /\ task_lock' = TRUE
       ELSE UNCHANGED <<curr_data_info, sincePacket, pending, task_lock>>
    /\ \E frozen \in BOOLEAN : freezing' = [freezing EXCEPT ![r] = frozen]
    /\ UNCHANGED <<task_stop, time_out_count, sinceSend, alive, broken, boundVars, reading>>

\* Any other mode: sends when the calendar says so, at most once a minute, and
\* neither looks at the lock nor takes it.
PollClock(r) ==
    /\ Polling(r)
    /\ acqMode[r] = "clock"
    /\ \/ Due(r) /\ SendRequest(r)
       \/ UNCHANGED <<curr_data_info, sincePacket, pending>>
    /\ UNCHANGED <<mapVars, freezing, sinceSend, alive, broken, boundVars, reading>>

-----------------------------------------------------------------------------
(***************************************************************************)
(* The main thread and the world around                                    *)
(***************************************************************************)
\* map_channel_and_model with a new model for a running channel: the thread is
\* joined, the old instance destroyed, and a thread with the new one started.
\* task_lock and time_out_count stay as the old thread left them.
Restart ==
    /\ task_pc \in {"top", "exited"}
    /\ restarts < MaxRestarts
    /\ restarts' = restarts + 1
    /\ task_stop' = FALSE
    /\ next_data_info' = 1
    /\ prev_data_info' = 0
    /\ curr_data_info' = 0
    /\ freezing' = [r \in Requests |-> FALSE]
    /\ sincePacket' = [r \in Requests |-> 0]
    /\ sinceSend' \in UnknownAge
    /\ task_pc' = "top"
    /\ UNCHANGED <<task_lock, time_out_count, polls, meterVars, pieces, overrun,
                   reading>>

\* The meter does not answer its oldest request after all, or dies.
MeterForgets ==
    /\ pending # <<>>
    /\ pending' = Tail(pending)
    /\ broken' = FALSE
    /\ UNCHANGED <<mapVars, cursorVars, freezing, sincePacket, sinceSend, task_pc, polls,
                   alive, boundVars, reading>>

MeterDies ==
    /\ alive
    /\ alive' = FALSE
    /\ pending' = <<>>
    /\ broken' = FALSE
    /\ UNCHANGED <<mapVars, cursorVars, freezing, sincePacket, sinceSend, task_pc, polls,
                   boundVars, reading>>

Tick ==
    /\ task_pc \in {"top", "poll"}
    /\ polls >= PollsPerTick
    /\ polls' = 0
    /\ sincePacket' = [r \in Requests |-> Capped(sincePacket[r], Gap(r))]
    /\ sinceSend' = Capped(sinceSend, LockTimeout)
    /\ UNCHANGED <<mapVars, cursorVars, freezing, task_pc, meterVars, boundVars,
                   reading>>

TaskInit ==
    /\ task_stop = FALSE
    /\ task_lock = FALSE
    /\ time_out_count = 0
    /\ next_data_info = 1
    /\ prev_data_info = 0
    /\ curr_data_info = 0
    /\ freezing = [r \in Requests |-> FALSE]
    /\ sincePacket = [r \in Requests |-> 0]
    /\ sinceSend \in UnknownAge
    /\ task_pc = "top"
    /\ polls = 0
    /\ pending = <<>>
    /\ alive = TRUE
    /\ broken = FALSE
    /\ restarts = 0
    /\ pieces = 0
    /\ overrun = FALSE
    /\ reading = <<>>

Poll(r) ==
    \/ PollRealtimeSend(r) \/ PollTimeout(r) \/ PollRealtimeIdle(r)
    \/ PollFrozen(r) \/ PollClock(r)

Thread ==
    \/ ReadNothing \/ ReadAnswer \/ ReadPiece \/ ReadError \/ Exit
    \/ \E r \in Requests : Poll(r)

TaskDone == task_pc \in {"exited", "undefined"} /\ UNCHANGED taskVars

TaskNext == Thread \/ Restart \/ MeterForgets \/ MeterDies \/ Tick \/ TaskDone

TaskSpec == TaskInit /\ [][TaskNext]_taskVars

\* The thread runs and time passes.  The meter need not be fair.
FairSpec == TaskSpec /\ WF_taskVars(Thread) /\ WF_taskVars(Tick) /\ WF_taskVars(MeterForgets)

-----------------------------------------------------------------------------
\* Every variable has the type of its C counterpart.
TaskTypeOK ==
    /\ task_stop \in BOOLEAN /\ task_lock \in BOOLEAN
    /\ alive \in BOOLEAN /\ broken \in BOOLEAN /\ overrun \in BOOLEAN
    /\ time_out_count \in Nat
    /\ next_data_info \in Requests
    /\ prev_data_info \in Requests \cup {0} /\ curr_data_info \in Requests \cup {0}
    /\ freezing \in [Requests -> BOOLEAN]
    /\ sincePacket \in [Requests -> Nat]
    /\ \A r \in Requests : sincePacket[r] <= Gap(r) + 1
    /\ sinceSend \in 0 .. (LockTimeout + 1)
    /\ task_pc \in {"top", "poll", "exited", "undefined"}
    /\ pending \in Seq(Requests)
    /\ polls \in Nat /\ restarts \in Nat /\ pieces \in Nat
    /\ reading \in (Requests \X Requests) \cup {<<>>}

\* Requests that wait for the answer to the one before.
AllWait == \A r \in Requests : acqMode[r] = "realtime"

\* With requests that all wait for the lock, what the meter answers is decoded as the
\* answer to the request it answers, however fast or slow it is, until one of three
\* things has happened: the lock has timed out under an answer that was still to come,
\* an answer has come in pieces, which releases the lock twice for one request, or a
\* new model has come, whose thread may find the lock overdue at once.
ReadingsAttributed ==
    AllWait /\ reading # <<>> /\ reading[1] # reading[2]
        => overrun \/ pieces > 0 \/ restarts > 0

\* Intervals long enough for each other request to be answered or to time out, and a
\* thread that polls every request twice in a second.
Uncrowded ==
    /\ \A r \in Requests : acqInt[r] >= (N - 1) * (LockTimeout + 1)
    /\ PollsPerTick >= 2 * N

\* Where all requests wait for the lock and the intervals leave time for each other
\* request to time out, every request is sent for ever, whether the meter answers in
\* time, late, in pieces or not at all, until the task stops.  With shorter intervals
\* a request may find the lock held whenever its turn comes.
EveryRequestSent ==
    AllWait /\ Uncrowded =>
        \A r \in Requests :
            []<>(curr_data_info = r) \/ <>(task_stop \/ task_pc = "undefined")

\* A task whose meter has died stops, if it has a realtime request: a stale lock
\* or an unassigned last_send_tick left by a restart does not keep it waiting.
SilentMeterStopsTask == ~alive ~> task_stop \/ task_pc = "undefined"

\* data_response_parse decodes nothing before a request has been sent, unless a model
\* arrived while an answer was on the line.
AnswerHasRequest == task_pc = "undefined" => restarts > 0

=============================================================================
