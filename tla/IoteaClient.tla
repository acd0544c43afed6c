---------------------------- MODULE IoteaClient ----------------------------
(***************************************************************************)
(* The agent's MQTT application, iot_edge_agent/src/iotea_client.c, and    *)
(* the main loop iotea_client_run of iot_main.c: connect, subscribe to the *)
(* three answer topics, and ask the broker for the device list, then for   *)
(* the device's channels, then for its model.                              *)
(*                                                                         *)
(* The MQTT client underneath is its abstract specification, MqttSession,  *)
(* with the queue of subscriptions that wait for SUBACK.  The two gaps the *)
(* code compares against are measured by clocks that stop one past the     *)
(* gap, so that time is not bounded.                                       *)
(***************************************************************************)
EXTENDS Integers, FiniteSets

CONSTANTS
    SubscribeGap,   \* seconds after which an unanswered SUBSCRIBE is repeated
    QueryGap,       \* seconds after which an unanswered query is repeated
    MaxRequests,    \* how often
    MaxSubs         \* bound: unanswered SUBSCRIBEs on the wire, for TLC only

ASSUME IoteaAssumption ==
    SubscribeGap \in Nat /\ QueryGap \in Nat /\ MaxRequests \in Nat /\ MaxSubs \in Nat

VARIABLES
    mqttClientStatus, isConnectionLost, isRecoverableError,   \* MqttSession
    \* IOTEA_CLIENT
    subscribed, reqAns, reqCount,
    sinceSubscribe,  \* time(NULL) - subscribeSentTimestamp
    sinceRequest,    \* currentTime - lastReqSendTime
    \* SUBSCRIBE calls in sub_ack_waiting_queue
    subsOnWire,      \* those the broker received and has not answered: how many
    subsOrphaned,    \* whether there are others, which no SUBACK will answer
    \* the main thread: which loop it is in, and where in its round
    loop,            \* "connect" (iotea_client_connect), "run", or "stopped"
    pc,              \* "top", "dowork" (iothub_mqtt_dowork), or "io" (reading)
    \* the network and the broker
    socket,          \* "none", "live", or "dead": reset by the peer, unnoticed
    requests,        \* queries the broker received and has not answered
    granted          \* history: the broker granted the topics in this session

sessionVars == <<mqttClientStatus, isConnectionLost, isRecoverableError>>
queueVars == <<subsOnWire, subsOrphaned>>
requestVars == <<reqAns, reqCount, sinceRequest, requests>>
netVars == <<socket, granted>>
vars == <<sessionVars, subscribed, sinceSubscribe, queueVars, requestVars, loop, pc,
          netVars>>

S == INSTANCE MqttSession

Connected == mqttClientStatus = S!CONNECTED
Capped(age, gap) == IF age > gap THEN age ELSE age + 1

\* A packet is delivered or, on a full socket buffer, silently dropped, or the
\* send fails; on a socket the peer has reset every send fails.
Sends == IF socket = "live" THEN {"delivered", "dropped", "failed"} ELSE {"failed"}

\* send_device_query_req and send_model_query_req: the outcome is not looked at.
Ask(query) ==
    \E outcome \in Sends :
        requests' = IF outcome = "delivered" THEN requests \cup {query} ELSE requests

-----------------------------------------------------------------------------
(***************************************************************************)
(* A round of iotea_client_connect or of iotea_client_dowork, up to the    *)
(* call of iothub_mqtt_dowork                                              *)
(***************************************************************************)
ConnectRound ==
    /\ loop = "connect" /\ pc = "top"
    /\ pc' = "dowork"
    /\ UNCHANGED <<sessionVars, subscribed, sinceSubscribe, queueVars, requestVars,
                   loop, netVars>>

\* A bug iotea_client_dowork could have: a lost session leaves its subscription.
StillSubscribedAfterLoss == subscribed

\* After a loss the subscription is forgotten, and may be sent again at once.
StillSubscribed == subscribed /\ ~isConnectionLost
SubscribeAge == IF isConnectionLost THEN SubscribeGap + 1 ELSE sinceSubscribe

\* A bug the condition could have: a SUBSCRIBE is never repeated in a session.
MustSubscribeOnce ==
    /\ Connected /\ ~StillSubscribed /\ SubscribeAge > SubscribeGap
    /\ subsOnWire = 0 /\ ~subsOrphaned

MustSubscribe == Connected /\ ~StillSubscribed /\ SubscribeAge > SubscribeGap

\* "request for iot channel again", whether or not there is a connection.
RepeatQuery ==
    IF sinceRequest > QueryGap /\ ~reqAns /\ reqCount < MaxRequests
    THEN /\ Ask("list")
         /\ sinceRequest' = 0
         /\ reqCount' = reqCount + 1
    ELSE UNCHANGED <<requests, sinceRequest, reqCount>>

\* Nothing to subscribe to.
RunRound ==
    /\ loop = "run" /\ pc = "top"
    /\ ~MustSubscribe
    /\ subscribed' = StillSubscribed
    /\ sinceSubscribe' = SubscribeAge
    /\ RepeatQuery
    /\ pc' = "dowork"
    /\ UNCHANGED <<sessionVars, queueVars, reqAns, loop, netVars>>

\* SUBSCRIBE is sent, or silently dropped; either way it waits in the queue.
RunSubscribe(outcome) ==
    /\ loop = "run" /\ pc = "top"
    /\ MustSubscribe
    /\ outcome \in Sends \ {"failed"}
    /\ IF outcome = "delivered"
       THEN /\ subsOnWire < MaxSubs
            /\ subsOnWire' = subsOnWire + 1
            /\ UNCHANGED subsOrphaned
       ELSE /\ subsOrphaned' = TRUE
            /\ UNCHANGED subsOnWire
    /\ subscribed' = StillSubscribed
    /\ sinceSubscribe' = 0
    /\ RepeatQuery
    /\ pc' = "dowork"
    /\ UNCHANGED <<sessionVars, reqAns, loop, netVars>>

\* SUBSCRIBE cannot be sent: the round ends here, without iothub_mqtt_dowork.
RunSubscribeFails ==
    /\ loop = "run" /\ pc = "top"
    /\ MustSubscribe
    /\ "failed" \in Sends
    /\ subsOrphaned' = TRUE
    /\ subscribed' = StillSubscribed
    /\ sinceSubscribe' = SubscribeAge
    /\ UNCHANGED <<sessionVars, subsOnWire, requestVars, loop, pc, netVars>>

-----------------------------------------------------------------------------
(***************************************************************************)
(* iothub_mqtt_dowork, and the agent's callbacks it runs                   *)
(***************************************************************************)
\* iotea_client_connect goes round again while there is no connection and still
\* hope for one; when it ends the agent runs, connected or not.
RoundDone ==
    /\ pc' = "top"
    /\ loop' = IF mqttClientStatus' # S!CONNECTED /\ isRecoverableError'
               THEN loop ELSE "run"

SocketCloses ==
    /\ socket' = "none"
    /\ requests' = {}
    /\ granted' = FALSE

\* OnMqttErrorComplete: every waiting SUBSCRIBE is told (NULL, 0), which
\* on_sub_ack_callback takes for success; its query goes down with the session.
SessionEnds ==
    /\ S!Fail
    /\ SocketCloses
    /\ IF subsOnWire > 0 \/ subsOrphaned
       THEN subscribed' = TRUE /\ sinceRequest' = 0
       ELSE UNCHANGED <<subscribed, sinceRequest>>
    /\ subsOnWire' = 0
    /\ subsOrphaned' = FALSE

Connect ==
    /\ pc = "dowork"
    /\ S!Connect
    /\ socket' = "live"
    /\ pc' = "io"
    /\ UNCHANGED <<subscribed, sinceSubscribe, queueVars, requestVars, loop, granted>>

ConnectFails ==
    /\ pc = "dowork"
    /\ mqttClientStatus = S!NOT_CONNECTED
    /\ SessionEnds
    /\ RoundDone
    /\ UNCHANGED <<sinceSubscribe, reqAns, reqCount>>

ConnackTimeout ==
    /\ pc = "dowork"
    /\ S!TimeOut
    /\ SocketCloses
    /\ RoundDone
    /\ UNCHANGED <<subscribed, sinceSubscribe, queueVars, reqAns, reqCount, sinceRequest>>

Proceed ==
    /\ pc = "dowork"
    /\ pc' = "io"
    /\ UNCHANGED <<sessionVars, subscribed, sinceSubscribe, queueVars, requestVars,
                   loop, netVars>>

ConnAck ==
    /\ pc = "io" /\ socket = "live"
    /\ S!Accept
    /\ UNCHANGED <<subscribed, sinceSubscribe, queueVars, requestVars, loop, pc, netVars>>

\* The SUBSCRIBEs that wait are not told of a refusal.
ConnAckRefused ==
    /\ pc = "io" /\ socket = "live"
    /\ S!Refuse
    /\ SocketCloses
    /\ UNCHANGED <<subscribed, sinceSubscribe, queueVars, reqAns, reqCount,
                   sinceRequest, loop, pc>>

SessionFails ==
    /\ pc = "io" /\ socket # "none"
    /\ SessionEnds
    /\ UNCHANGED <<sinceSubscribe, reqAns, reqCount, loop, pc>>

\* on_sub_ack_callback with three granted topics
SubAckGranted ==
    /\ pc = "io" /\ socket = "live" /\ Connected /\ subsOnWire > 0
    /\ subsOnWire' = subsOnWire - 1
    /\ subscribed' = TRUE
    /\ sinceRequest' = 0
    /\ Ask("list")
    /\ granted' = TRUE
    /\ UNCHANGED <<sessionVars, sinceSubscribe, subsOrphaned, reqAns, reqCount, loop,
                   pc, socket>>

\* on_sub_ack_callback with a refused topic
SubAckRefused ==
    /\ pc = "io" /\ socket = "live" /\ Connected /\ subsOnWire > 0
    /\ subsOnWire' = subsOnWire - 1
    /\ UNCHANGED <<sessionVars, subscribed, sinceSubscribe, subsOrphaned, requestVars,
                   loop, pc, netVars>>

\* on_recv_callback: a device list that names the device leads to the query for
\* its channels, channels that can be parsed lead to the query for the model.
Follow(query) == CASE query = "list" -> {"info"}
                   [] query = "info" -> {"model"}
                   [] query = "model" -> {}

\* Any answer ends the repetition of the first query.
Receive(query) ==
    /\ pc = "io" /\ socket = "live" /\ granted
    /\ query \in requests
    /\ \E sent \in SUBSET Follow(query) : requests' = (requests \ {query}) \cup sent
    /\ reqAns' = TRUE
    /\ UNCHANGED <<sessionVars, subscribed, sinceSubscribe, queueVars, reqCount,
                   sinceRequest, loop, pc, netVars>>

\* Everything has been read: a reset that came before is not missed.
IoDone ==
    /\ pc = "io" /\ socket # "dead"
    /\ UNCHANGED sessionVars
    /\ RoundDone
    /\ UNCHANGED <<subscribed, sinceSubscribe, queueVars, requestVars, netVars>>

-----------------------------------------------------------------------------
Init ==
    /\ S!Init
    /\ subscribed = FALSE
    /\ reqAns = FALSE
    /\ reqCount = 0
    /\ sinceSubscribe = SubscribeGap + 1
    /\ sinceRequest = 0
    /\ subsOnWire = 0
    /\ subsOrphaned = FALSE
    /\ loop = "connect"
    /\ pc = "top"
    /\ socket = "none"
    /\ requests = {}
    /\ granted = FALSE

Tick ==
    /\ loop # "stopped"
    /\ sinceSubscribe' = Capped(sinceSubscribe, SubscribeGap)
    /\ sinceRequest' = Capped(sinceRequest, QueryGap)
    /\ UNCHANGED <<sessionVars, subscribed, queueVars, reqAns, reqCount, requests,
                   loop, pc, netVars>>

\* The peer resets the connection; the client will see it when it reads.
PeerResets ==
    /\ socket = "live"
    /\ socket' = "dead"
    /\ requests' = {}
    /\ UNCHANGED <<sessionVars, subscribed, sinceSubscribe, queueVars, reqAns,
                   reqCount, sinceRequest, loop, pc, granted>>

\* SIGINT: the loop ends and everything is destroyed.
Stop ==
    /\ loop = "run" /\ pc = "top"
    /\ loop' = "stopped"
    /\ S!Fail
    /\ SocketCloses
    /\ UNCHANGED <<subscribed, sinceSubscribe, queueVars, reqAns, reqCount,
                   sinceRequest, pc>>

Stopped == loop = "stopped" /\ UNCHANGED vars

Main ==
    \/ ConnectRound
    \/ RunRound \/ RunSubscribe("delivered") \/ RunSubscribe("dropped") \/ RunSubscribeFails
    \/ Connect \/ ConnectFails \/ ConnackTimeout \/ Proceed
    \/ ConnAck \/ ConnAckRefused \/ SessionFails \/ SubAckGranted \/ SubAckRefused
    \/ \E query \in requests : Receive(query)
    \/ IoDone

Next == Main \/ Tick \/ PeerResets \/ Stop \/ Stopped

Spec == Init /\ [][Next]_vars

\* The main thread keeps running and time passes; a SUBSCRIBE that is sent again
\* and again is delivered, and one that keeps being delivered is granted.
FairSpec ==
    /\ Spec
    /\ WF_vars(Main) /\ WF_vars(Tick)
    /\ SF_vars(RunSubscribe("delivered"))
    /\ SF_vars(SubAckGranted)

-----------------------------------------------------------------------------
\* Every variable has the type of its C counterpart, and each clock stops one
\* past its gap.
TypeOK ==
    /\ mqttClientStatus \in {S!NOT_CONNECTED, S!CONNECTING, S!CONNECTED}
    /\ isConnectionLost \in BOOLEAN /\ isRecoverableError \in BOOLEAN
    /\ subscribed \in BOOLEAN /\ granted \in BOOLEAN
    /\ reqAns \in BOOLEAN /\ subsOrphaned \in BOOLEAN
    /\ reqCount \in 0 .. MaxRequests
    /\ sinceSubscribe \in 0 .. (SubscribeGap + 1)
    /\ sinceRequest \in 0 .. (QueryGap + 1)
    /\ subsOnWire \in 0 .. MaxSubs
    /\ loop \in {"connect", "run", "stopped"}
    /\ pc \in {"top", "dowork", "io"}
    /\ socket \in {"none", "live", "dead"}
    /\ requests \subseteq {"list", "info", "model"}

\* While the session is up, the client believes itself subscribed only if the
\* broker granted the topics in this very session (cleanSession: an earlier
\* grant is worth nothing), although a lost SUBSCRIBE is reported as a success.
SubscribedIsTrue == Connected /\ subscribed => granted

\* A session that stays up gets its subscription, however many SUBSCRIBEs are
\* dropped or refused first.
Resubscribes ==
    <>[](loop = "run" /\ Connected /\ socket = "live") => <>[]subscribed

\* iotea_client_dowork handles the MQTT input: a connection the peer has reset is
\* noticed and given up, unless the agent is stopped.
ResetIsNoticed == socket = "dead" ~> socket # "dead"

=============================================================================
