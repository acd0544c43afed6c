# A TLA+ development of the IoT edge agent

The agent (`iot_edge_agent/`) reads electricity meters over serial lines or
sockets and publishes the readings to an MQTT broker. It is a C program with one
main thread, which owns the MQTT connection, and one acquisition thread per
channel. This directory specifies its own logic: the reconnection policy, the
MQTT client handle, the umqtt client and its codec, the transports, the agent's
MQTT application, the acquisition threads, the Modbus master they share, the
table that ties channels, models and threads together, and the optional store of
unsent messages.

`PROJECT.json` lists the components, the runs of TLC, the mutants that show each
property can fail, the source lines behind each definition (`map`), the findings,
the hazards and the theorems.

## 1. Inventory

| Component | State | Operations | Hard parts |
|---|---|---|---|
| reconnection timer (`iothub_mqtt_client.c`, `RETRY_LOGIC`) | start, last attempt, delay, count, started / expired / first flags | `CanRetry` on every poll, `StartRetryTimer`, `StopRetryTimer` | random backoff redrawn on every poll, wall clock, giving up, what an outage leaves behind |
| MQTT client handle (`iothub_mqtt_client.c`) | status, lost / recoverable / disconnect flags, packet id, two queues of calls that wait for an acknowledgement, the transport | `iothub_mqtt_dowork`, publish, subscribe, unsubscribe, disconnect, destroy, callbacks of umqtt | acknowledgement, send failure and loss race for a callback; CONNACK timeout; two layers share a pointer |
| umqtt client (`umqtt/src/mqtt_client.c`, third party) | its transport pointer, socket and session flags, ping and receive times, decoder | connect, publish, subscribe, dowork, the packet handler, disconnect | the keep-alive, a client that is connected again, flags of PUBLISH |
| MQTT codec (`umqtt/src/mqtt_codec.c`) | what has been read of a packet | bytes received, headers written | bytes that arrive in any portions; lengths of up to four bytes |
| transports (`socketio_berkeley.c`, `serial_io.c`) | state, descriptor, queue of messages not written yet | open, send, dowork, close, destroy | partial writes, EAGAIN, errors, two threads that send at once, a queue that outlives its connection |
| agent MQTT application (`iotea_client.c`) | subscribed, time of the last SUBSCRIBE and query, answered flag, repetition count | connect loop, `iotea_client_dowork`, `on_sub_ack_callback`, `on_recv_callback` | lost subscriptions reported as successes, dropped packets, a round that ends early |
| acquisition thread (`iot_main.c`, `protocol_manager.c`) | stop flag, lock, timeout count, request cursor | polling in three modes, answers, errors | late answers, starvation, a dead meter, a model replaced under the task |
| channel table (`iot_main.c`) | list of channel, instance, thread; thread count; sticky error flag | list of channels received, model received, end of the program | threads keep pointers that the main thread frees; partial failures |
| Modbus (`modbus.c`, `liblightmodbus`) | one global master: request, answer, registers; the requests of each instance | build, decode, destroy | every thread uses the master without a lock; who frees what |
| message persistence (`iothub_client_persistence_sqlite.c`, optional) | a table of messages by packet id; whether it is to be published | add, read, delete, remove the file | a crash between two steps, ids that come round again, threads that add while the main thread reads |
| DLT698 (`dlt_698.c`, `libdlt698`) | description of the requests of a model | build, decode | lengths and checks of a byte format |
| others | | | `channel_model.c` (JSON to records), `utils.c`, the unused `iothub_client_retry_control.c`, RSA signers, the rest of c-utility |

Interactions. The main thread runs `iotea_client_dowork`, which calls
`iothub_mqtt_dowork`, which calls `initialize_mqtt_connection` (and through it
the timer and umqtt) and `mqtt_client_dowork`; umqtt calls back
`OnMqttOperationComplete` and `OnMqttErrorComplete`, these call the agent's
callbacks, and `on_recv_callback` rebuilds the channel table and starts and joins
acquisition threads. Acquisition threads call `publish_mqtt_message` on the same
handle, and decode in the one Modbus master, without a lock. umqtt and the
acquisition threads reach their transports through `xio_send` and `xio_dowork`.
Nothing is persisted in the default build; with `USE_SQLITE_PERSISTENCE` messages
that cannot be sent go into a table and are published again after the next CONNACK.

What makes each part correct is stated as the properties of section 3.

## 2. Modules

| Module | Models | Uses |
|---|---|---|
| `RetryLogic` | the reconnection timer over an abstract connection | |
| `RetryLogicPrompt` | the same, with a record of how promptly it is polled | extends `RetryLogic` |
| `RetryLogicProofs` | the theorems of both | extends `RetryLogicPrompt`, FiniteSetTheorems, TLAPS |
| `MqttSession` | what an application sees of the MQTT client: the abstract specification | |
| `IothubMqttClient` | the client handle with umqtt and a TCP transport | instantiates `RetryLogic` (whose CanRetry it runs) and `MqttSession`; implements both |
| `IothubMqttProofs` | its theorems, the two implementations among them | extends `IothubMqttClient`, SequenceTheorems, TLAPS; instantiates `RetryLogicProofs` |
| `MqttCodec` | the fixed header and the incremental decoder, as operators | |
| `UmqttClient` | the umqtt client, down to the bytes that arrive | extends `MqttCodec` |
| `UmqttProofs` | the theorems of both | extends `UmqttClient`, SequenceTheorems, TLAPS |
| `MessageTransport` | what a sender may expect of a transport: the abstract specification | |
| `XioAdapter` | the socket and the serial transport | instantiates `MessageTransport`, which it implements |
| `XioAdapterProofs` | its theorems, the implementation among them | extends `XioAdapter`, SequenceTheorems, TLAPS |
| `IoteaClient` | the agent's MQTT application and main loop | built on `MqttSession` |
| `IoteaProofs` | its theorems | extends `IoteaClient`, TLAPS |
| `AcquisitionTask`, `MCAcquisitionTask` | one acquisition thread, its channel and its meter | |
| `ChannelMap` | the table of channels, instances and threads | |
| `ChannelMapProofs` | its theorems, and those of `AcquisitionTask`, the thread behind an entry of the table | extends `ChannelMap`, `AcquisitionTask`, FiniteSetTheorems, SequenceTheorems, TLAPS |
| `ModbusMaster` | the Modbus master shared by all threads, and the heap under it | |
| `ModbusMasterProofs` | its theorems | extends `ModbusMaster`, FiniteSetTheorems, TLAPS |
| `MessageStore` | publishing with the sqlite store, over an abstract connection | |
| `MessageStoreProofs` | its theorems | extends `MessageStore`, FiniteSetTheorems, TLAPS |

### RetryLogic

The variables are the fields of `RETRY_LOGIC`, the clock `get_time(NULL)` in
seconds, the client's status, and `lastAttempt`, a history variable for the time
of the last real attempt. `CanRetry` is one operator per outcome (`FirstAttempt`,
`RetryAttempt`, `RetryPostponed`, `RetryGivesUp`, `RetryStarts`, `RetryRefused`);
the random jitter is a choice from `BackOffDelays`. The two outcomes for a missing
record and a negative clock cannot occur and are left out. A poll is one step,
because the record is only used by the main thread.

### IothubMqttClient

A call of `iothub_mqtt_dowork` is two phases. The first step is
`initialize_mqtt_connection` (`Dowork...`), and `pc = "io"` is
`mqtt_client_dowork`, in which any number of packets and at most one error are
handled (`ConnAckAccepted`, `ConnAckRefused`, `PubAck`, `SubAck`, `IoError`),
until `IoDone`. Calls of the application and of acquisition threads come at any
moment between these steps. `xioTransport` and `xioHandle` are the two pointers;
`"freed"` is a pointer to a transport that has been destroyed, and using it leads
to `pc = "undefined"`, after which nothing is claimed. `wire` holds what the broker
received and has not answered. A send is delivered, silently dropped (EAGAIN) or
fails. `ops`, `results` and `received` are history variables. The wall clock and
the tick counter are one clock. `NotifySubscribeAckFailure` frees an entry of its queue
before it unlinks it (`iothub_mqtt_client.c:695-697`), a use after free: the model has
the outcome of a build with glibc in which nothing is allocated in between, where the
links of the freed entry are still intact and the queue ends empty.

Left out: TLS transports (whose opening is asynchronous), sqlite persistence
(`MessageStore`), allocation failures, QoS 2 (refused by the code), PUBLISH packets from the broker
(they change no state of the handle; `IoteaClient` has them).

### IoteaClient

Built on the actions of `MqttSession`; added are the waiting SUBSCRIBEs (how many
the broker has, and whether there are some it will never answer), the socket
(`"dead"` is reset by the peer and not yet noticed), the queries the broker has
received, and `granted`, a history variable: the broker has granted the topics in
this session. `loop` and `pc` tell where the main thread is. Clocks are ages that
stop one past the gap they are compared with, which bounds time without cutting
behaviours.

### AcquisitionTask

A poll of `send_resquest_thread` is two steps: `xio_dowork` with its callbacks
(`ReadNothing`, `ReadAnswer`, `ReadError`) and the rest of the poll for the
request the cursor is at (`Poll...`). The meter answers the requests it received in
order, or forgets them. An answer may come in two pieces (`ReadPiece`): the first is
taken for all of it, releases the lock and is rejected by the decoder. The calendar of the scheduled modes is a free
choice. `PollsPerTick` says how often at least the thread polls per second (every
10 ms in the code). The meter may answer at any time, also when the lock has timed out
and another request has been sent; `overrun` is a history variable, set when the lock
times out under an answer that is still to come. Its specification is `TaskSpec`, so that the theorems about it can
stand beside those about the table. `last_send_tick` has no initial value in the code: its age
starts as any value.

### ChannelMap

Channels and instances are numbered as they are created. Opening a channel and
creating a thread may fail. Joining a thread twice or destroying an instance twice
leads to `pc = "undefined"`.

### XioAdapter

A byte is `<<m, i>>`, byte i of message m, so that the wire shows what became of each
message. `user` is chosen at the start: the socket under the umqtt client, on which
every thread of the agent sends, or a socket or a serial line under one acquisition
task. A send is two steps, the write and the queueing of what was not written;
`dowork` is a loop over the queue (`pc = "flush"`) and a read (`pc = "recv"`). The
differences between the two adapters are actions of their own: only the socket meets
EAGAIN (`serialio_open` makes the port blocking); after a partial write of a queued
message the socket waits for the next `dowork`, while the serial adapter moves the
bytes without reducing the size, so that the last ones are written again
(`SerialFlushPart`, although the comment at `serial_io.c:746` says "send something,
wait for the rest"); a failed write is reported by the socket and swallowed by the
serial adapter. The umqtt client closes from its error callback and calls `xio_dowork`
once more, which empties the queue (`DroppedOnClose`). `overlapped` and `resent` are
history variables for the two cases in which nothing is claimed of the wire.

`MessageTransport` is what its users go by: a message is written, dropped or refused at
once, or it is accepted and waits; what waits is written or given up from the oldest on,
or fails with the connection, and nothing overtakes it. `outcome` has the same meaning in
both modules, so that the mapping is the identity. Since the list of queued messages has
no lock either, the abstract transport promises nothing after an overlap.

### MqttCodec and UmqttClient

`MqttCodec` has the loop of `constructFixedHeader` (`EncodedLength`) and one iteration
of `mqtt_codec_bytesReceived` (`BytesReceived`), which takes the decoder to the next
one and perhaps a packet. `UmqttClient` feeds it the bytes of an external broker, which
arrive in any portions, and acts on the packets as `recvCompleteCallback` does. A call
of `mqtt_client_dowork` is `DoworkBegin`, any number of `Read...` steps, and one of
`NoPingResponse`, `SendPing` and `NoPingNeeded`. Times are ages in seconds that stop
above everything they are compared with. `ClientToConnect` is the rule of
`initialize_mqtt_connection`: only a client whose loss was noticed is replaced; after a
CONNACK timeout the old one is connected again with its decoder as it is. A PUBLISH
without a topic, or without memory for it, ends the connection (`ReadPublishFails`); that
what arrived behind it in the same read of 64 bytes is still decoded by the closed client
is not modelled. Other allocation failures, tracing and the bodies of the packets the
client writes are left out; the transport pointer is in `IothubMqttClient`.

### ModbusMaster

One step per access to `g_modbus_master` or to the heap, so that the races between
threads are visible. A block of the heap is free or holds a request or registers, told
apart by the instance they belong to; the lowest free block is handed out, which is
what makes a freed request turn into somebody else's registers. What C leaves undefined
stops the model with the reason in `fault`. `parsesOverlap` and `mainOverlaps` record
whether calls have overlapped. `modbus_init` builds a request for each group of the model
(`NextGroup` to `DisownFrame`, over and over) until `InitDone`, or until a group cannot be
read: `InitFails` drops the list with the requests built so far, which `abandoned` counts,
and calls `modbus_destroy` before the list is assigned. An answer is refused
(`CheckFails`) for its address, its checksum or as an exception. Lengths and the JSON of
a model are left out.

### MessageStore

The build with `USE_SQLITE_PERSISTENCE`. `store` is the table, whose primary key is the
packet id. A publish call of another thread is four steps: reading and writing back
`packetId`, which has no lock, reading the status, adding the row, and sending. The main
thread counts the rows, reads them, and publishes and deletes them one by one; whether
publishing worked is only logged. `Crash` forgets everything but the table, and
`packetId` starts again. `StoreError` is a statement that sqlite refuses. If a thread
adds a row between the count and the read, the array for the rows is too short, and
nothing is said after that (`pc = "undefined"`). The topic of a row is copied without a
terminator (`iothub_client_persistence_sqlite.c:345-346`) and read as a string when it is
published (`iothub_mqtt_client.c:1196`): what follows the copy in memory decides whether
it is read as it was (`TopicsRead`, and `intact` in a row that was stored again).
Publishing a row is four cases: stored again without a connection (`StoreAgain`), refused
by the store and so lost (`StoreAgainFails`), handed to the socket (`SendRow`), or lost by
the socket (`SendRowFails`). Since it was put into the store, a message is in `offered`
when a packet with it, under its own topic, was handed to the socket from there, in `lost`
when a try failed or misread its topic, and in `late` when it was added under an
established connection; one that is stored again is in neither of the first two and is
followed anew. The connection is abstract: tried, refused, accepted and lost at any time.

## 3. Runs

| Run | Shows |
|---|---|
| `retry_timer` | within one outage, attempts are spaced (`AttemptsSpaced`), backed off (`BackOffHonoured`) and bounded (`AttemptsWithinLimit`); giving up is final (`GivingUpIsFinal`); `TimerInv` is the inductive invariant of the proofs and implies that every outage starts clean; a client polled at least once per second retries or gives up by a deadline (`ReconnectsOrGivesUpInTime`) |
| `mqtt_client` | each callback is told at most once, and a success is true; both layers agree on the transport, the status is true, the client implements `RetryLogic` and `MqttSession`, and waiting for CONNACK ends |
| `mqtt_use_after_free` | *finding*: a destroyed transport is used after a CONNACK timeout |
| `agent_session` | the agent is subscribed when it believes so, and a session that stays up gets subscribed |
| `agent_stuck` | *finding*: a reset before the subscription is never noticed |
| `task_polling` | with requests that all wait for the lock, an answer is taken for that of another request only after a lock has timed out under an answer still to come, an answer has come in pieces, or a new model has come (`ReadingsAttributed`); if also the intervals leave time for each other request to time out, every request keeps being sent, whether answers come in time, late, in pieces or not at all (`EveryRequestSent`) |
| `task_mixed` | a dead meter stops a task of all three modes, also after a new model; an answer is decoded without a request only after a new model |
| `channel_table` | threads only use what is alive, no channel leaks, instances are destroyed once unless channels share a model or a thread cannot be created |
| `xio_adapters` | messages are neither torn nor mixed (`WireIsFramed`) and not reported complete too early (`CompletedIsWritten`) while sends do not overlap; a new connection starts without old bytes (`NewConnectionIsClean`); a message a socket has accepted is written or its owner told (`QueuedIsSettled`); while sends do not overlap both adapters implement `MessageTransport` (`ImplementsTransport`) |
| `umqtt_session` | packets come out as they were sent unless a half-fed decoder is reused (`DecodedAsSent`); only retained QoS 0 messages are misread (`PublishUnderstood`); a silent peer is noticed (`DeadPeerNoticed`), an answered ping keeps the session unless the decoder has lost its place (`AnsweredPingKeepsSession`), and a client that sends nothing at least receives (`SilentOnlyWhileReceiving`) |
| `modbus_master` | calls that do not overlap are safe in any order (`SafeIfSerial`); threads that only decode never damage a request (`RequestsKept`); answers and removals lose no memory, `modbus_init` loses one block for each model and, where a group fails, the requests built before it (`LostByInitAlone`) |
| `message_store` | a message leaves the store only after it was handed to the socket from there or was lost by a try that failed or misread its topic, crash or not (`LeavesOfferedOrLost`); only a thread that missed CONNACK, or a refused statement, leaves a row under a connection (`StrandedOnlyByRace`); if connections keep being made, each stored message is handed to the socket or lost so, also one that was stored again (`StoredIsOfferedOrLost`) |

What the properties leave out, because the code does not do it:

* Attempts of different outages are not spaced: CONNACK clears `lastConnect`, so that a
  broker that accepts and drops at once is reconnected to without a pause, although
  `iothub_mqtt_client.c:30` says "We won't retry more than once every 5 seconds".
* The delay the policy draws is shorter than its comment says (`iothub_mqtt_client.c:78-81`:
  "delay = (pow(2, attempt) - 1 ) / 2" and up to half of that more): the code draws between
  a quarter and a half of `pow(2, attempt) - 1`. `BackOffHonoured` and the deadline go by
  the code.
* After a new model has replaced an instance, a late answer finds no current request,
  and `protocol_manager.c:272` dereferences it before line 274 tests it for NULL.
* `g_thread_count` is reset for every model of a message (`iot_main.c:715`), so that a
  last model that matches no channel takes down the threads of the others.
* A reading may be attributed to another request when its answer comes after the lock has
  timed out or in pieces, and also after a new model: the new thread does not know when the
  last request was sent and may find the lock overdue at once. Scheduled requests do not
  look at the lock at all; of them nothing is claimed.
* A request starves when the intervals of the others leave no room: with two requests and
  an interval one second shorter than `Uncrowded` asks, `EveryRequestSent` without its
  condition fails, and so it does with fewer than two polls of each request in a second.
* Two threads that send on the MQTT socket at once can tear a packet, and the serial
  adapter writes bytes twice after a partial write of a queued message.
* A retained message of QoS 0 is taken for QoS 2 and loses two bytes
  (`mqtt_client.c:630`).
* A client that was connected again with half a packet in its decoder may swallow a
  PINGRESP with it, and end a session whose ping was answered.
* The keep-alive goes by the last packet received, while the comment at
  `mqtt_client.c:1251` speaks of the send time. `DeadPeerNoticed` rests on a `dowork` in
  every second, which the finding of `agent_stuck` shows is not always so.
* Two Modbus threads that decode at once may free, mix up or publish each other's
  registers, and the main thread may free the request of a thread that is decoding.
* Memory is lost with every model received, and with every request built before a group
  that cannot be read; `modbus_destroy` then follows a list that was never assigned.
* A stored message is deleted once publishing it was tried. When the connection is lost
  between CONNACK and the next `dowork` the message is stored again under a new id while
  the client backs off, but lost when the id is taken, or when the next connection is
  already being made and the send fails. One whose topic is misread goes out under another
  topic. The properties count these as lost; they do not exclude them.
* The three repetitions of the first query (`iotea_client.c:795`) are used up without a
  connection, and `reqAns` is never reset: after a later loss only SUBACK asks again.
* `sqlite_get_messages` counts and reads in two statements, while another thread may add
  a row in between.

Bounds, and why they are enough:

* `retry_timer`: the real spacing of 5 s with a limit of 40 s and 60 s of clock
  reach six failures in a row, the regime in which the delay exceeds the spacing,
  giving up, and several outages.
* `mqtt_client`: three calls and packet ids that wrap after two
  (`UShrtMax = 3`), so that an id can be in use twice; `SuccessMeansReceived` is
  claimed while no id has been given out twice, and fails beyond that. One second
  of clock, with attempts a second apart and CONNACK waited for as long (`KeepAlive = 0`),
  reaches several outages and an attempt after a CONNACK timeout; the real times and
  giving up are in `retry_timer`.
* `agent_session`: no bound on time; `MaxSubs = 2` SUBSCRIBEs on the wire.
* `task_polling`: two realtime requests whose intervals are as short as `Uncrowded`
  allows (`Roomy`), the four polls per second it asks for, two answers on their way
  (`MaxPending`), so that one may be late, and one in pieces (`MaxPieces`). `task_mixed`
  has one request of each mode, due every second, and one new model. In both the meter may
  answer at any time.
* `xio_adapters`: all three users, two threads, three messages of one or three bytes:
  a message that is queued behind a partly written one, a queue that meets an error,
  and two threads inside send. `MaxWire` only stops the serial adapter, which could
  write the same bytes for ever.
* `umqtt_session`: two connections, so that one is made after every kind of end; two
  packets in flight, so that bytes of a second packet follow a half-read one; a
  keep-alive of two seconds, whose limit for a ping is one.
* `modbus_master`: two instances, two models of up to two groups (`MaxGroups`) and a heap
  of four blocks, which the requests and the registers of two answers fill: a freed block
  is handed out again, a model fails after one or two requests, and the heap can be full.
* `message_store`: two messages, one of them with a callback, packet ids that wrap after
  two, one crash and one refused statement: an id meets a row of an earlier life, a
  thread adds while the rows are published, and the process dies in between. No bound on
  connections.
* `channel_table`: two names, two channels or models per message, four messages.

Fairness. The main loop calls `dowork` every 10 ms and an acquisition thread polls
every 10 ms, unconditionally: weak fairness of `Dowork`, `Main` and `Thread`. Time
passes: weak fairness of `Tick`. For `Resubscribes` the network must be fair as
well, as it has to be for any protocol: a SUBSCRIBE sent again and again is
delivered, and one delivered again and again is granted (strong fairness of those
two actions). In `AcquisitionTask` the meter does not keep a request for ever
without either answering or forgetting it (weak fairness of `MeterForgets`); it
need never answer. In `XioAdapter` the owner keeps calling `dowork` and a thread inside
send gets on (weak fairness); a socket that is up and keeps being asked takes a whole
message at last (strong fairness of `SocketFlushWhole`).

## 4. Proofs

`RetryLogicProofs` proves, for every limit, spacing, boot time and clock bound
(`RetryAssumption`), that `RetryLogic!Spec` implies `TypeOK`, `TimerInv`,
`IdleTimerIsClean`, `AttemptsWithinLimit`, `AttemptsSpaced`, `BackOffHonoured` and
`GivingUpIsFinal`, and `RetryLogicPrompt!PromptSpec` implies `ReconnectsOrGivesUpInTime`.

The argument. None of the properties is inductive. The spacing of attempts is
decided by `lastConnect`, while the property is about the real last attempt; the
two are equal only as long as a failure is counted, which in turn depends on every
way of stopping the timer clearing the count. `TimerInv` states exactly these
relations: a running timer started in the past; `retrycount > 0` implies
`lastConnect = lastAttempt`; a stopped timer has a zero count and delay; and the
timer runs while the client is connecting and does not while it is connected or has
given up. It is preserved by every action given the types. The limit needs one fact
more, that the delay drawn and the time spent retrying are added at the moment of
the attempt, and is proved with it. `BackOffHonoured` rests on a lemma about the
least element of `BackOffDelays`: either the drawn delay is at most the spacing,
which has elapsed, or it has elapsed itself.

The deadline of a client that is polled in every second turns a liveness question into an
invariant. `PromptInv` makes it inductive: after a poll in this second that did not
connect, now is strictly before the deadline (`InTime`), so that the next second is still
within it; a timer that does not run belongs to a connection lost in this second or the
last; and `DelayInv` bounds the delay kept from an earlier failure, which the next poll is
measured against, by what the policy may draw now. The last needs that the back-off
grows: 2^n counts the subsets of a set of n, so that it follows from the library's
theorem about them.

`IoteaProofs` proves, for all gaps and limits (`IoteaAssumption`), `TypeOK` and
`SubscribedIsTrue` of `IoteaClient`. The latter is not inductive: between two sessions
the agent may believe itself subscribed, because a SUBSCRIBE that dies with its
connection is reported as a success. `SubscriptionInv` says why this is harmless: the
belief is held only with `isConnectionLost` set and not while `iothub_mqtt_dowork` may
connect, and the loop of `iotea_client_connect`, which does not look at the flag, has
never sent a SUBSCRIBE.

`MessageStoreProofs` proves, for any set of messages, range of packet ids and number of
crashes and refused statements (`StoreAssumption`), `TypeOK`, `LeavesOfferedOrLost` and
`StrandedOnlyByRace` of `MessageStore`. `ReplayInv` says why the copy of the rows that
the main thread works on is as good as the table: ids are unique, the rows still to be
published are in the table, and so is the one about to be deleted, which therefore is
the only row with its id. `StrandedInv` follows a row from CONNACK to its deletion.

`ChannelMapProofs` proves, for any names and lists of any length (`MapAssumption`),
`TypeOK`, `ThreadsOwnWhatTheyUse`, `ChannelsAccountedFor` and `SafeUnlessShared` of
`ChannelMap`. `MapInv` adds what the last three rest on: the entries have channels of
their own, all open, and instances that are alive; two entries have one instance only if
they have one name (`TableInv`); and every thread is the thread of one entry, with its
channel and its instance (`ThreadInv`), so that joining the threads of the table leaves
none behind when a new list frees what they use.

The same module proves of `AcquisitionTask`, for any number of requests, modes, intervals
and timeouts (`TaskAssumption`), `TaskTypeOK`, `AnswerHasRequest` and `ReadingsAttributed`,
with the conditions that are part of the properties. An answer carries no request number,
so that `ReadingsAttributed` says nothing about the states in between. `LineInv` does, for
requests that all wait, until an answer is late or in pieces or a model is replaced
(`Undisturbed`): at most one request is unanswered; it is the one the cursor remembers; and
the lock is held for it, so that a timeout that releases the lock either finds nothing on
the line or is the late answer that is excused. `AskedInv` is the part that needs no
condition: a meter that owes an answer was sent a request by this instance.

`ModbusMasterProofs` proves, for any instances, models and blocks (`MasterAssumption`),
`TypeOK`, `RequestsKept`, `SafeIfSerial` and `LostByInitAlone` of `ModbusMaster`. The
two invariants match the two conditions. `RequestInv` holds however the decoding threads
interleave, as long as the main thread keeps out: a request in a list is its instance's own
and never the block of the registers, and registers that are freed are about to be
forgotten, so that no new request is handed their block and freed with them.
`SerialInv` needs that no two calls overlap, and says for each step of `modbus_parse`
what the master holds then and that no pointer outlives the call. `LostByInitAlone` is
proved with it, step by step: a step of a thread loses nothing, `InitBegin` the block of
the registers at most, `InitFails` no more than the list it drops, and no other step of
the main thread anything, since the request in the master is always in some list
(`OwnedInv`).

`IothubMqttProofs` proves, for every keep-alive time, range of packet ids, setting of the
timer and number of calls (`ClientAssumption`), `TypeOK`, `ToldAtMostOnce`,
`SuccessMeansReceived`, `HandlesAgree`, `StatusIsTrue`, and that `IothubMqttClient`
implements `RetryLogic` and `MqttSession`: each step is a step of theirs or leaves their
variables alone. The implementations need `SessionInv`, which relates the status to
umqtt's flags, to the two pointers and to the CONNECT on the wire; without it a late
CONNACK would be a step neither abstract specification has. With the implementation the
theorems of `RetryLogicProofs` become theorems of the client (`ClientKeepsTheTimer`).
`ToldInv` adds to `ToldAtMostOnce` that a call waits in one queue and once, has been made
and has not been told. `ReceivedInv` adds that what is on the wire was received and that
packet ids, while none has been given out twice, are the numbers of the calls: searching
a queue by id then finds the right call.

`UmqttProofs` proves, for every keep-alive interval of at least a second and any number
of connections, messages and packets on their way (`UmqttAssumption`), `DecodedAsSent`,
`PublishUnderstood`, `DeadPeerNoticed`, `SilentOnlyWhileReceiving` and
`AnsweredPingKeepsSession` of `UmqttClient`, and of the codec that every remaining length
below 128 * 128 * 128 is decoded as it was encoded, with the decoder stopping at its last
byte (`LengthRoundTrip`, from a lemma about a length written as a sum of chunks).
`DecodedAsSent` follows from the places of the packets: `LaidOut` says at which byte of
the stream each expected packet begins, the first one possibly behind what the decoder
has already read, and in which state the decoder is there (`DecoderAt`). A portion of any
size moves the decoder along the first packet or to the beginning of the second.
`KeepAliveInv` compares ages: the last packet came at most an interval before the ping
that is out. `AnsweredPingKeepsSession` needs both, since the PINGRESP has to be found
where the decoder will read it before the ping is judged.

`XioAdapterProofs` proves, for any threads, messages and sizes (`XioAssumption`),
`WireIsFramed`, `CompletedIsWritten` and `NewConnectionIsClean` of `XioAdapter`. The
proof follows the line of messages that wait: those queued and, behind them, the rest
that the one thread inside send is about to queue (`LineUp`). While sends have not
overlapped the line is in order of age, one message each, and neither they nor younger
ones are complete (`QueueOk`); only the first may have been begun, and the wire stops
where it goes on (`ShapeOk`, on a connection that works and was not given bytes twice).
`add_pending_io` leaves the line as it is, a send adds to its end, and `dowork` works on
its front; this is why a send and `dowork` may interleave, and only another send must
keep out between the write and the queueing.

`ImplementsTransport` needs the converse as well: an accepted message is in the line until
it is done with (`Exact`), so that a line that is empty means that nothing waits, and its
first message is the oldest one that does. Each step is then matched: writing the first
message to its end, or giving it up, is `Settle`; closing, by whatever error, is
`Abandon`; partial writes and `add_pending_io` are steps the sender does not see.

Only model-checked: liveness, which is beyond the prover (`ConnackWaitEnds`,
`Resubscribes`, `EveryRequestSent`, `SilentMeterStopsTask`, `QueuedIsSettled` and
`StoredIsOfferedOrLost`), and the two findings, which are counterexamples. Every other property
of a run is a theorem.

## 5. Not modelled

The DLT698 codec and its library, the JSON parsers, the bodies of the MQTT packets the
client writes, the buffer arithmetic of the serial receive loop, the unused retry
control and the RSA signers: see `PROJECT.json` for the
reason of each. Most of the repository is vendored code that the agent does not run
(test frameworks, other platforms' adapters, websockets, TLS variants). Races between
single memory accesses are modelled for the Modbus master and for `xio_send`; for the
MQTT client handle only those on `packetId` are (`MessageStore`); the others are below
the grain of the modules.

## 6. Plan

1. `IoteaClient` composed with `ChannelMap`: queries, models and threads together; a
   clock that jumps for `RetryLogic`.
2. `UmqttClient` on top of `MessageTransport`: the abstract delivery of a packet
   (delivered or silently dropped) taken from the promise the adapters implement.
3. The unused retry control against the same promise as `RetryLogic`.
4. The response checks of DLT698 as operators with a reference definition.
5. The rest of a read behind a PUBLISH that ends the connection (`ReadPublishFails`).
6. `ReadingsAttributed` for scheduled requests, under the condition on their intervals
   that makes them keep apart.
