-------------------------- MODULE IothubMqttClient --------------------------
(***************************************************************************)
(* The MQTT client handle of iothub_client/src/iothub_mqtt_client.c on top *)
(* of umqtt/src/mqtt_client.c and a TCP transport (xio over socketio).     *)
(* The agent's main thread calls iothub_mqtt_dowork again and again; each  *)
(* call first runs initialize_mqtt_connection and then, unless that        *)
(* failed, mqtt_client_dowork, which reads the socket and runs the         *)
(* callbacks.  Acquisition threads publish at any moment in between.       *)
(*                                                                         *)
(* Two layers keep a pointer to the same transport: xioTransport in the    *)
(* handle and xioHandle in the umqtt client.  "freed" is a pointer to a    *)
(* transport that xio_destroy has released; using it is undefined, and     *)
(* nothing is said of a behaviour after that (pc = "undefined").           *)
(*                                                                         *)
(* The broker and the network are external: any packet the broker may send *)
(* in answer to what it received, an error at any time, and sends that     *)
(* fail or are silently dropped (socketio_send returns 0 on EAGAIN).       *)
(* Allocation never fails.  Persistence is not compiled in by default      *)
(* (get_default_persist_interface_description returns NULL); MessageStore  *)
(* has it.                                                                 *)
(***************************************************************************)
EXTENDS Integers, Sequences, SequencesExt

CONSTANTS
    KeepAlive,          \* options->keepAliveInterval, in seconds
    UShrtMax,           \* USHRT_MAX
    MaxOps,             \* bound: publish and subscribe calls in a behaviour
    RetryTimeoutLimit, ErrorTimeForRetry, BootTime, MaxTime   \* see RetryLogic

ASSUME ClientAssumption ==
    /\ KeepAlive \in Nat
    /\ UShrtMax \in Nat /\ UShrtMax > 2
    /\ MaxOps \in Nat
    /\ RetryTimeoutLimit \in Nat /\ ErrorTimeForRetry \in Nat /\ MaxTime \in Nat
    /\ BootTime \in Nat \ {0}

VARIABLES
    \* IOTHUB_MQTT_CLIENT
    mqttClientStatus, isConnectionLost, isRecoverableError, isDisconnectCalled,
    mqtt_connect_time, packetId, xioTransport,
    pub_ack_waiting_queue, sub_ack_waiting_queue,
    \* MQTT_CLIENT (umqtt)
    xioHandle, socketConnected, clientConnected,
    \* packets the broker received on this connection and has not answered
    wire,
    \* RETRY_LOGIC and the clock
    now, lastAttempt, start, delayFromLastConnectToRetry, lastConnect,
    retryStarted, retryExpired, firstAttempt, retrycount,
    \* where the main thread is: "idle" between two calls of dowork, "io" in
    \* mqtt_client_dowork
    pc,
    \* history: calls made, what their callbacks were told, calls the broker got
    ops, results, received

handleVars == <<mqttClientStatus, isConnectionLost, isRecoverableError,
                isDisconnectCalled, mqtt_connect_time, xioTransport>>
queueVars == <<pub_ack_waiting_queue, sub_ack_waiting_queue, results>>
umqttVars == <<xioHandle, socketConnected, clientConnected>>
retryLogic == <<start, delayFromLastConnectToRetry, lastConnect,
                retryStarted, retryExpired, firstAttempt, retrycount>>
timerVars == <<now, lastAttempt, retryLogic>>
opVars == <<packetId, ops, received>>

vars == <<handleVars, queueVars, umqttVars, wire, timerVars, pc, opVars>>

RL == INSTANCE RetryLogic WITH status <- mqttClientStatus
S == INSTANCE MqttSession

NULL == "NULL"
Ops == 1 .. MaxOps
CONNECT == [type |-> "CONNECT", id |-> 0, op |-> 0]

-----------------------------------------------------------------------------
(***************************************************************************)
(* Callbacks                                                               *)
(***************************************************************************)
OpsOf(queue) == {queue[i].op : i \in DOMAIN queue}

Notify(notified, result) ==
    results' = [op \in Ops |-> IF op \in notified THEN Append(results[op], result)
                                                  ELSE results[op]]

\* A bug the flush could have: the publish entries stay queued.
NotifyWithoutRemoving ==
    /\ Notify(OpsOf(sub_ack_waiting_queue) \cup OpsOf(pub_ack_waiting_queue), "FAILED")
    /\ sub_ack_waiting_queue' = <<>>
    /\ UNCHANGED pub_ack_waiting_queue

\* NotifySubscribeAckFailure and NotifyPublishAckFailure: every waiting entry is
\* removed, its callback told, and freed.  The subscribe queue frees an entry before
\* it unlinks it: undefined, but the links lie behind the bytes glibc writes to in a
\* block of that size, and nothing is allocated in between, so the queue ends empty.
NotifyAckFailure ==
    /\ Notify(OpsOf(sub_ack_waiting_queue) \cup OpsOf(pub_ack_waiting_queue), "FAILED")
    /\ sub_ack_waiting_queue' = <<>>
    /\ pub_ack_waiting_queue' = <<>>

\* A bug OnMqttErrorComplete could have: the status is left as it was.
OnMqttErrorKeepsStatus ==
    /\ isConnectionLost' = TRUE
    /\ NotifyAckFailure
    /\ UNCHANGED mqttClientStatus

OnMqttErrorComplete ==
    /\ mqttClientStatus' = RL!NOT_CONNECTED
    /\ isConnectionLost' = TRUE
    /\ NotifyAckFailure

\* close_connection of umqtt: xio_close runs on_connection_closed at once.
\* A client whose socket is not connected closes nothing, and has nothing open.
CloseConnection ==
    /\ wire' = {}
    /\ socketConnected' = FALSE
    /\ clientConnected' = FALSE

\* mqtt_client_dowork looks only at its own pointer, and does nothing without one.
EnterIo(handle) ==
    pc' = CASE handle = "xio" -> "io"
            [] handle = NULL -> "idle"
            [] handle = "freed" -> "undefined"

-----------------------------------------------------------------------------
(***************************************************************************)
(* iothub_mqtt_dowork, first half: initialize_mqtt_connection              *)
(***************************************************************************)
\* A bug ConnectAttempt could have: a new transport only for a lost connection.
ConnectAttemptKeepsHandle ==
    /\ pc = "idle"
    /\ ~isDisconnectCalled
    /\ mqttClientStatus = RL!NOT_CONNECTED
    /\ RL!CanRetryTrue
    /\ lastAttempt' = now
    /\ xioTransport' = "xio"
    /\ xioHandle' = IF isConnectionLost \/ xioHandle = NULL THEN "xio" ELSE xioHandle

\* CanRetry says yes.  Connecting again after a loss replaces the transport and
\* the umqtt client, otherwise both are used again: either way the umqtt client
\* gets the handle's transport, and has neither socket nor session.
ConnectAttempt ==
    /\ pc = "idle"
    /\ ~isDisconnectCalled
    /\ mqttClientStatus = RL!NOT_CONNECTED
    /\ RL!CanRetryTrue
    /\ lastAttempt' = now
    /\ xioTransport' = "xio"
    /\ xioHandle' = "xio"

\* xio_open succeeds and onOpenComplete sends CONNECT; the outcome of that send
\* is not looked at.
DoworkConnect ==
    /\ ConnectAttempt
    /\ mqttClientStatus' = RL!CONNECTING
    /\ mqtt_connect_time' = now
    /\ socketConnected' = TRUE
    /\ clientConnected' = FALSE
    /\ wire' \in {{CONNECT}, {}}
    /\ pc' = "io"
    /\ UNCHANGED <<isConnectionLost, isRecoverableError, isDisconnectCalled, now,
                   queueVars, opVars>>

\* xio_open fails: onOpenComplete reports the error before it returns, and
\* mqtt_client_dowork is not called.
DoworkConnectFails ==
    /\ ConnectAttempt
    /\ OnMqttErrorComplete
    /\ CloseConnection
    /\ UNCHANGED <<isRecoverableError, isDisconnectCalled, mqtt_connect_time, now,
                   pc, opVars>>

\* CanRetry says no: the umqtt client is still given its turn.
DoworkBackOff ==
    /\ pc = "idle"
    /\ ~isDisconnectCalled
    /\ mqttClientStatus = RL!NOT_CONNECTED
    /\ RL!CanRetryFalse
    /\ EnterIo(xioHandle)
    /\ UNCHANGED <<handleVars, queueVars, umqttVars, wire, now, lastAttempt, opVars>>

\* A bug the timeout could have: seconds are divided as if they were milliseconds.
ConnectTimedOutLate == (now - mqtt_connect_time) \div 1000 > KeepAlive

ConnectTimedOut == now - mqtt_connect_time > KeepAlive

\* mqtt_client_disconnect closes the transport, with a DISCONNECT packet if
\* CONNACK had accepted the session and then forgetting its pointer; otherwise
\* the umqtt client keeps a pointer to the transport that is destroyed next.
DisconnectFromClient ==
    /\ CloseConnection
    /\ xioHandle' = IF clientConnected \/ xioHandle = NULL THEN NULL ELSE "freed"
    /\ xioTransport' = NULL
    /\ mqttClientStatus' = RL!NOT_CONNECTED

\* No CONNACK within keepAliveInterval; mqtt_client_dowork is not called.
DoworkConnectTimeout ==
    /\ pc = "idle"
    /\ mqttClientStatus = RL!CONNECTING
    /\ ConnectTimedOut
    /\ DisconnectFromClient
    /\ UNCHANGED <<isConnectionLost, isRecoverableError, isDisconnectCalled,
                   mqtt_connect_time, queueVars, timerVars, pc, opVars>>

\* Connected, still waiting for CONNACK, or told to disconnect.
DoworkProceed ==
    /\ pc = "idle"
    /\ \/ mqttClientStatus = RL!CONNECTED
       \/ mqttClientStatus = RL!CONNECTING /\ ~ConnectTimedOut
       \/ mqttClientStatus = RL!NOT_CONNECTED /\ isDisconnectCalled
    /\ EnterIo(xioHandle)
    /\ UNCHANGED <<handleVars, queueVars, umqttVars, wire, timerVars, opVars>>

-----------------------------------------------------------------------------
(***************************************************************************)
(* iothub_mqtt_dowork, second half: mqtt_client_dowork handles any number  *)
(* of packets and at most one error.                                       *)
(***************************************************************************)
\* The broker answers what it received; CONNACK comes before any other answer.
Answer(packet, types) ==
    /\ pc = "io"
    /\ socketConnected
    /\ packet \in wire
    /\ packet.type \in types
    /\ packet # CONNECT => clientConnected
    /\ wire' = wire \ {packet}

\* A bug ConnAckAccepted could have: the retry timer is not stopped.
ConnAckForgetsTimer ==
    /\ Answer(CONNECT, {"CONNECT"})
    /\ isRecoverableError' = TRUE
    /\ isConnectionLost' = FALSE
    /\ mqttClientStatus' = RL!CONNECTED
    /\ clientConnected' = TRUE
    /\ UNCHANGED <<isDisconnectCalled, mqtt_connect_time, xioTransport, queueVars,
                   xioHandle, socketConnected, timerVars, pc, opVars>>

\* recvCompleteCallback and OnMqttOperationComplete, MQTT_CLIENT_ON_CONNACK
ConnAckAccepted ==
    /\ Answer(CONNECT, {"CONNECT"})
    /\ isRecoverableError' = TRUE
    /\ isConnectionLost' = FALSE
    /\ mqttClientStatus' = RL!CONNECTED
    /\ RL!StopRetryTimer
    /\ clientConnected' = TRUE
    /\ UNCHANGED <<isDisconnectCalled, mqtt_connect_time, xioTransport, queueVars,
                   xioHandle, socketConnected, now, lastAttempt, retryExpired,
                   pc, opVars>>

\* A bug ConnAckRefused could have: the refusal is not taken for a loss.
ConnAckRefusedQuietly ==
    /\ pc = "io" /\ socketConnected /\ CONNECT \in wire
    /\ isRecoverableError' \in {isRecoverableError, FALSE}
    /\ CloseConnection
    /\ mqttClientStatus' = RL!NOT_CONNECTED
    /\ UNCHANGED <<isConnectionLost, isDisconnectCalled, mqtt_connect_time, xioTransport,
                   queueVars, xioHandle, timerVars, pc, opVars>>

\* The broker refuses: a bad account or version is not recoverable, a server
\* that is unavailable is.  Calls that wait for an acknowledgement keep waiting.
ConnAckRefused ==
    /\ pc = "io" /\ socketConnected /\ CONNECT \in wire
    /\ isConnectionLost' = TRUE
    /\ isRecoverableError' \in {isRecoverableError, FALSE}
    /\ CloseConnection
    /\ mqttClientStatus' = RL!NOT_CONNECTED
    /\ UNCHANGED <<isDisconnectCalled, mqtt_connect_time, xioTransport, queueVars,
                   xioHandle, timerVars, pc, opVars>>

\* A bug the acknowledgement could have: the packet id is not compared.
FirstWaiting(queue, id) == IF queue = <<>> THEN {} ELSE {1}

\* The first waiting entry with the packet id of the acknowledgement, if any.
FirstWithId(queue, id) ==
    {i \in DOMAIN queue : /\ queue[i].id = id
                          /\ \A j \in 1 .. (i - 1) : queue[j].id # id}

Acked(queue, found, result) ==
    Notify({queue[i].op : i \in found}, result)

\* The queue when that entry has been taken out and freed.
Without(queue, found) ==
    IF found = {} THEN queue ELSE RemoveAt(queue, CHOOSE i \in found : TRUE)

PubAck(packet) ==
    LET found == FirstWithId(pub_ack_waiting_queue, packet.id)
    IN  /\ Answer(packet, {"PUBLISH", "UNWATCHED"})
        /\ Acked(pub_ack_waiting_queue, found, "SUCCESS")
        /\ pub_ack_waiting_queue' = Without(pub_ack_waiting_queue, found)
        /\ UNCHANGED <<handleVars, sub_ack_waiting_queue, umqttVars, timerVars, pc, opVars>>

\* qosReturn tells the callback whether the broker granted the subscription.
SubAck(packet, result) ==
    LET found == FirstWithId(sub_ack_waiting_queue, packet.id)
    IN  /\ Answer(packet, {"SUBSCRIBE"})
        /\ Acked(sub_ack_waiting_queue, found, result)
        /\ sub_ack_waiting_queue' = Without(sub_ack_waiting_queue, found)
        /\ UNCHANGED <<handleVars, pub_ack_waiting_queue, umqttVars, timerVars, pc, opVars>>

\* set_error_callback: the socket fails, the peer closes it, a packet cannot be
\* parsed, or a PINGREQ stays unanswered.
IoError ==
    /\ pc = "io"
    /\ socketConnected
    /\ OnMqttErrorComplete
    /\ CloseConnection
    /\ UNCHANGED <<isRecoverableError, isDisconnectCalled, mqtt_connect_time,
                   xioTransport, xioHandle, timerVars, pc, opVars>>

IoDone ==
    /\ pc = "io"
    /\ pc' = "idle"
    /\ UNCHANGED <<handleVars, queueVars, umqttVars, wire, timerVars, opVars>>

-----------------------------------------------------------------------------
(***************************************************************************)
(* Calls of the application and of the acquisition threads                 *)
(***************************************************************************)
Running == pc \in {"idle", "io"}

GetNextPacketId == IF packetId + 1 >= UShrtMax THEN 1 ELSE packetId + 1

\* sendPacketItem: what xio_send does with a packet.
SendOutcomes == IF xioHandle = "xio" /\ socketConnected
                THEN {"delivered", "dropped", "failed"} ELSE {"failed"}

\* What a call does to the network, whatever its kind.
Send(type, outcome) ==
    /\ Running
    /\ Len(ops) < MaxOps
    /\ ops' = Append(ops, type)
    /\ packetId' = GetNextPacketId
    /\ IF xioHandle = "freed"
       THEN /\ pc' = "undefined"
            /\ UNCHANGED <<wire, received>>
       ELSE /\ outcome \in SendOutcomes
            /\ pc' = pc
            /\ IF outcome = "delivered"
               THEN /\ wire' = wire \cup {[type |-> type, id |-> packetId', op |-> Len(ops')]}
                    /\ received' = received \cup {Len(ops')}
               ELSE UNCHANGED <<wire, received>>

Waiting == [id |-> packetId', op |-> Len(ops')]

\* publish_mqtt_message, QoS 1 with a callback: queued before it is sent, and
\* taken out again and told at once if the send fails.
PublishQos1(outcome) ==
    /\ Send("PUBLISH", outcome)
    /\ IF outcome = "failed"
       THEN /\ Notify({Len(ops')}, "FAILED")
            /\ UNCHANGED <<pub_ack_waiting_queue, sub_ack_waiting_queue>>
       ELSE /\ pub_ack_waiting_queue' = Append(pub_ack_waiting_queue, Waiting)
            /\ UNCHANGED <<sub_ack_waiting_queue, results>>
    /\ UNCHANGED <<handleVars, umqttVars, timerVars>>

\* QoS 0 with a callback: told what the send returned, and never acknowledged.
PublishQos0(outcome) ==
    /\ Send("PUBLISH0", outcome)
    /\ Notify({Len(ops')}, IF outcome = "failed" THEN "FAILED" ELSE "SUCCESS")
    /\ UNCHANGED <<pub_ack_waiting_queue, sub_ack_waiting_queue,
                   handleVars, umqttVars, timerVars>>

\* A QoS 1 publish without a callback, as the acquisition threads send it, and
\* unsubscribe_mqtt_topics: nobody waits.
SendUnwatched(outcome) ==
    /\ Send("UNWATCHED", outcome)
    /\ UNCHANGED <<queueVars, handleVars, umqttVars, timerVars>>

\* subscribe_mqtt_topics: a call whose send failed stays in the queue.
Subscribe(outcome) ==
    /\ Send("SUBSCRIBE", outcome)
    /\ sub_ack_waiting_queue' = Append(sub_ack_waiting_queue, Waiting)
    /\ UNCHANGED <<pub_ack_waiting_queue, results, handleVars, umqttVars, timerVars>>

\* iothub_mqtt_disconnect of a session: DISCONNECT goes out, sendComplete reports
\* it and closes the socket, and the umqtt client forgets its transport.
DisconnectSession ==
    /\ pc = "idle"
    /\ clientConnected /\ xioHandle = "xio"
    /\ isDisconnectCalled' = TRUE
    /\ mqttClientStatus' = RL!NOT_CONNECTED
    /\ xioHandle' = NULL
    /\ CloseConnection
    /\ UNCHANGED <<isConnectionLost, isRecoverableError, mqtt_connect_time,
                   xioTransport, queueVars, timerVars, pc, opVars>>

\* DISCONNECT cannot be sent, or not now: the transport is forgotten all the
\* same, and the socket stays open.
DisconnectUnsent ==
    /\ pc = "idle"
    /\ clientConnected
    /\ isDisconnectCalled' = TRUE
    /\ xioHandle' = NULL
    /\ UNCHANGED <<mqttClientStatus, isConnectionLost, isRecoverableError,
                   mqtt_connect_time, xioTransport, queueVars, socketConnected,
                   clientConnected, wire, timerVars, pc, opVars>>

\* Without a session the socket is closed and nothing is reported.
DisconnectSocket ==
    /\ pc = "idle"
    /\ ~clientConnected
    /\ isDisconnectCalled' = TRUE
    /\ CloseConnection
    /\ UNCHANGED <<mqttClientStatus, isConnectionLost, isRecoverableError,
                   mqtt_connect_time, xioTransport, queueVars, xioHandle,
                   timerVars, pc, opVars>>

\* iothub_mqtt_destroy.  Calls still waiting are not told.
Destroy ==
    /\ pc = "idle"
    /\ pc' = "destroyed"
    /\ isConnectionLost' = TRUE
    /\ DisconnectFromClient
    /\ UNCHANGED <<isRecoverableError, isDisconnectCalled, mqtt_connect_time,
                   queueVars, timerVars, opVars>>

-----------------------------------------------------------------------------
Init ==
    /\ RL!Init
    /\ isConnectionLost = FALSE
    /\ isRecoverableError = TRUE
    /\ isDisconnectCalled = FALSE
    /\ mqtt_connect_time = 0
    /\ packetId = 0
    /\ xioTransport = NULL
    /\ pub_ack_waiting_queue = <<>>
    /\ sub_ack_waiting_queue = <<>>
    /\ xioHandle = NULL
    /\ socketConnected = FALSE
    /\ clientConnected = FALSE
    /\ wire = {}
    /\ pc = "idle"
    /\ ops = <<>>
    /\ results = [op \in Ops |-> <<>>]
    /\ received = {}

Tick ==
    /\ Running
    /\ now < MaxTime
    /\ now' = now + 1
    /\ UNCHANGED <<handleVars, queueVars, umqttVars, wire, lastAttempt, retryLogic,
                   pc, opVars>>

Dowork ==
    \/ DoworkConnect \/ DoworkConnectFails \/ DoworkBackOff
    \/ DoworkConnectTimeout \/ DoworkProceed
    \/ ConnAckAccepted \/ ConnAckRefused \/ IoError \/ IoDone
    \/ \E packet \in wire :
          PubAck(packet) \/ SubAck(packet, "SUCCESS") \/ SubAck(packet, "REFUSED")

Application ==
    \/ \E outcome \in {"delivered", "dropped", "failed"} :
          \/ PublishQos1(outcome) \/ PublishQos0(outcome)
          \/ SendUnwatched(outcome) \/ Subscribe(outcome)
    \/ DisconnectSession \/ DisconnectUnsent \/ DisconnectSocket
    \/ Destroy

\* The handle is gone, or the program has left defined behaviour.
Terminated == ~Running /\ UNCHANGED vars

Next == Tick \/ Dowork \/ Application \/ Terminated

Spec == Init /\ [][Next]_vars

\* Nothing but the agent's main loop and the clock: iotea_client_connect calls
\* dowork until the client is connected, before any thread publishes.
ConnectLoop == Init /\ [][Tick \/ Dowork]_vars

\* iotea_client_run calls dowork for ever, and time passes.
FairSpec == Spec /\ WF_vars(Dowork) /\ WF_vars(Tick)

-----------------------------------------------------------------------------
Pointers == {NULL, "xio", "freed"}
Entries == [id : 1 .. (UShrtMax - 1), op : Ops]

\* Every variable has the type of its C counterpart; in particular every packet
\* id in use is one MQTT allows, 1 to 65534.
TypeOK ==
    /\ RL!TypeOK
    /\ isConnectionLost \in BOOLEAN /\ isRecoverableError \in BOOLEAN
    /\ isDisconnectCalled \in BOOLEAN
    /\ mqtt_connect_time \in Nat
    /\ packetId \in 0 .. (UShrtMax - 1)
    /\ xioTransport \in Pointers /\ xioHandle \in Pointers
    /\ pub_ack_waiting_queue \in Seq(Entries)
    /\ sub_ack_waiting_queue \in Seq(Entries)
    /\ socketConnected \in BOOLEAN /\ clientConnected \in BOOLEAN
    /\ ops \in Seq({"PUBLISH", "PUBLISH0", "UNWATCHED", "SUBSCRIBE"}) /\ Len(ops) <= MaxOps
    /\ results \in [Ops -> Seq({"SUCCESS", "FAILED", "REFUSED"})]
    /\ received \subseteq DOMAIN ops
    /\ pc \in {"idle", "io", "destroyed", "undefined"}

\* No callback is told twice, whatever mixture of acknowledgements, send failures
\* and lost connections a call meets, and a call that waits has not been told.
ToldAtMostOnce ==
    /\ \A op \in Ops : Len(results[op]) <= 1
    /\ \A op \in OpsOf(pub_ack_waiting_queue) \cup OpsOf(sub_ack_waiting_queue) :
          results[op] = <<>>

\* A QoS 1 publish or a subscribe that is told SUCCESS has reached the broker, as
\* long as no packet id has been given out twice.  (A QoS 0 publish
\* may be told SUCCESS and be dropped.)
SuccessMeansReceived ==
    \A op \in DOMAIN ops :
        /\ ops[op] # "PUBLISH0"
        /\ results[op] = <<"SUCCESS">>
        /\ Len(ops) < UShrtMax
        => op \in received

\* While the client is connecting or connected, umqtt works on the very transport
\* the handle owns: nobody can free it under an open session.
HandlesAgree ==
    mqttClientStatus # RL!NOT_CONNECTED
        => xioTransport = "xio" /\ xioHandle \in {"xio", NULL}

\* CONNECTED is only ever the status of a session the broker accepted and that
\* neither side has been seen to close, until the application disconnects; and a
\* client that is not connected has no socket open.
StatusIsTrue ==
    /\ mqttClientStatus = RL!CONNECTED
          => socketConnected /\ clientConnected /\ ~isConnectionLost /\ isRecoverableError
    /\ mqttClientStatus = RL!NOT_CONNECTED => ~socketConnected /\ ~clientConnected

\* The detailed client implements the reconnection timer.
ImplementsRetryLogic == RL!Spec

\* To the application the detailed client is the abstract session that
\* IoteaClient relies on: a session that fails, is refused, times out or is
\* disconnected leaves the flags that session promises.
ImplementsMqttSession == S!Spec

\* Waiting for CONNACK ends: a client that has been connecting for longer than
\* keepAliveInterval is not left connecting, whatever the broker, the socket and
\* the other threads do.
ConnackWaitEnds ==
    (mqttClientStatus = RL!CONNECTING /\ now - mqtt_connect_time > KeepAlive)
        ~> mqttClientStatus # RL!CONNECTING

\* mqtt_client_dowork and the send functions never touch a transport that has
\* been destroyed: a disconnected client does nothing.
NoUseAfterFree == pc # "undefined"

=============================================================================
