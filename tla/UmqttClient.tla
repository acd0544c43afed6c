----------------------------- MODULE UmqttClient -----------------------------
(***************************************************************************)
(* The umqtt client of umqtt/src/mqtt_client.c over one connection after   *)
(* another, down to the bytes that arrive: the decoder it feeds, the       *)
(* packets it acts on, and the keep-alive of mqtt_client_dowork.           *)
(*                                                                         *)
(* Its user is iothub_mqtt_client.c, which connects it again after a loss, *)
(* a refusal or a CONNACK that does not come, and replaces it by a new     *)
(* client only if isConnectionLost and isRecoverableError are both set.    *)
(*                                                                         *)
(* Times are ages in seconds, which stop at a bound above everything they  *)
(* are compared with.  The main loop finishes a mqtt_client_dowork in      *)
(* every second (it sleeps for 10 ms between two).  The broker is          *)
(* external: it sends whole packets, in order, whose bytes arrive when the *)
(* network likes.  A packet the client sends is delivered, or dropped      *)
(* silently by a full socket.                                              *)
(***************************************************************************)
EXTENDS MqttCodec, SequencesExt

CONSTANTS
    keepAliveInterval,  \* seconds
    MaxConnects,        \* bound: connections in a behaviour
    MaxMessages,        \* bound: messages and answered requests in a behaviour
    BoundedLength       \* bound: packets sent by the broker and not decoded

ASSUME UmqttAssumption ==
    /\ keepAliveInterval \in Nat \ {0}
    /\ {MaxConnects, MaxMessages, BoundedLength} \subseteq Nat

VARIABLES
    \* MQTT_CLIENT
    socketConnected, clientConnected, codec,
    timeSincePing,      \* age of the PINGREQ without an answer, or NoPing
    packetRecvTime,     \* age of the last packet
    \* its user
    isConnectionLost, isRecoverableError,
    pc,                 \* mqtt_client_dowork: "idle", "read", "ping"; "disconnected"
    polled,             \* a call of it has ended in this second
    \* the broker and the network
    broker,             \* "none", "connecting" (it has CONNECT), "session"
    pinged,             \* it has a PINGREQ to answer
    owed,               \* type of the answer it has yet to give to a request, or NoAnswer
    inbound, arrived,   \* bytes sent by it and not read; how many are at the socket
    \* history
    expected,           \* packets sent by it and not decoded
    sendAge,            \* age of the last packet given to the socket
    pingAnswered,       \* age of the PINGREQ when its answer was at the socket
    garbled, dirty,     \* a packet came out other than it was sent; a client was
                        \* connected again with half a packet in its decoder
    misread,            \* kinds of messages passed on other than they were meant
    connects, messages

sessionVars == <<socketConnected, clientConnected>>
timeVars == <<timeSincePing, packetRecvTime, sendAge>>
userVars == <<isConnectionLost, isRecoverableError>>
brokerVars == <<broker, pinged, owed>>
wireVars == <<inbound, arrived, expected>>
boundVars == <<connects, messages>>
vars == <<sessionVars, codec, timeVars, userVars, pc, polled, brokerVars, wireVars,
          pingAnswered, garbled, dirty, misread, boundVars>>

NoPing == -1
NoAnswer == 0
maxPingRespTime == IF 80 < keepAliveInterval \div 2 THEN 80 ELSE keepAliveInterval \div 2

\* By then a dead peer has been noticed: the PINGREQ is due, is sent in the next
\* second at the latest, and is given up when more than maxPingRespTime has passed.
NoticedAfter == keepAliveInterval + maxPingRespTime + 1
AgeBound == NoticedAfter + 2
Older(age) == IF age < AgeBound THEN age + 1 ELSE age

-----------------------------------------------------------------------------
(***************************************************************************)
(* Messages                                                                *)
(***************************************************************************)
Topic == <<0, 1, 116>>
PacketId == <<0, 9>>
Payload == <<5, 6>>

\* The messages a broker sends to a subscriber that asked for QoS 1 at most.
Kinds == [qos : {0, 1}, retain : {0, 1}]

PublishPacket(kind) ==
    [type |-> PUBLISH_TYPE, flags |-> 2 * kind.qos + kind.retain,
     body |-> Topic \o (IF kind.qos = 0 THEN <<>> ELSE PacketId) \o Payload]

\* A message whose length takes four bytes, of which the broker gets no further than
\* the header: there the decoder gives up.  The body is left out.
LargeLength == 128 * 128 * 128
LargePacket == [type |-> PUBLISH_TYPE, flags |-> 0, body |-> <<>>]

Transmitted(packet) ==
    IF packet = LargePacket THEN <<PUBLISH_TYPE>> \o EncodedLength(LargeLength)
    ELSE Encoded(packet)

Answer(type) ==
    [type |-> type, flags |-> 0,
     body |-> IF type = SUBACK_TYPE THEN Append(PacketId, 1) ELSE PacketId]

ConnAck(code) == [type |-> CONNACK_TYPE, flags |-> 0, body |-> <<0, code>>]
PingResp == [type |-> PINGRESP_TYPE, flags |-> 0, body |-> <<>>]

\* A bug the flags could be read with: the DUP bit taken for QoS 1.
QosByHighBit(flags) == IF flags < 8 THEN 0 ELSE 1

\* qosValue of recvCompleteCallback
Qos(flags) == IF flags = 0 THEN 0 ELSE IF (flags \div 2) % 2 = 1 THEN 1 ELSE 2

\* byteutil_readUTF finds a topic.
HasTopic(packet) == Len(packet.body) >= 2 /\ packet.body[1] + packet.body[2] > 0

\* PUBLISH_TYPE: the topic, the packet id unless QoS is 0, and the rest.
ReadMessage(packet) ==
    LET topicLen == 256 * packet.body[1] + packet.body[2]
        rest == SubSeq(packet.body, topicLen + 3, Len(packet.body))
        id == Qos(packet.flags) # 0 /\ Len(rest) >= 2
    IN  [qos |-> Qos(packet.flags),
         payload |-> IF id THEN SubSeq(rest, 3, Len(rest)) ELSE rest]

-----------------------------------------------------------------------------
(***************************************************************************)
(* Sending, closing, connecting                                            *)
(***************************************************************************)
\* sendPacketItem
Sent == sendAge' = 0

\* close_connection: what was on its way is lost.
CloseConnection ==
    /\ socketConnected' = FALSE
    /\ clientConnected' = FALSE
    /\ broker' = "none"
    /\ pinged' = FALSE
    /\ owed' = NoAnswer
    /\ inbound' = <<>>
    /\ arrived' = 0
    /\ expected' = <<>>

\* A new client (mqtt_client_init), or the old one as it is.
ClientToConnect ==
    IF isConnectionLost /\ isRecoverableError
    THEN /\ codec' = NewCodec
         /\ timeSincePing' = NoPing
         /\ packetRecvTime' = 0
    ELSE UNCHANGED <<codec, timeSincePing, packetRecvTime>>

\* mqtt_client_connect; onOpenComplete sends CONNECT.
Connect(delivered) ==
    /\ pc = "idle"
    /\ ~socketConnected
    /\ connects < MaxConnects
    /\ connects' = connects + 1
    /\ ClientToConnect
    /\ dirty' = (dirty \/ codec' # NewCodec)
    /\ socketConnected' = TRUE
    /\ broker' = IF delivered THEN "connecting" ELSE "none"
    /\ Sent
    /\ UNCHANGED <<clientConnected, userVars, pc, polled, pinged, owed, wireVars,
                   pingAnswered, garbled, misread, messages>>

\* The socket cannot be opened: the error callback is called.
ConnectFails ==
    /\ pc = "idle"
    /\ ~socketConnected
    /\ ClientToConnect
    /\ isConnectionLost' = TRUE
    /\ UNCHANGED <<sessionVars, sendAge, isRecoverableError, pc, polled, brokerVars,
                   wireVars, pingAnswered, garbled, dirty, misread, boundVars>>

\* A request of the application; the broker owes an answer to one that arrives.
Request(answer, delivered) ==
    /\ socketConnected
    /\ Sent
    /\ IF delivered /\ broker = "session" /\ answer # NoAnswer
       THEN messages < MaxMessages /\ messages' = messages + 1 /\ owed' = answer
       ELSE UNCHANGED <<messages, owed>>
    /\ UNCHANGED <<sessionVars, codec, timeSincePing, packetRecvTime, userVars, pc, polled,
                   broker, pinged, wireVars, pingAnswered, garbled, dirty, misread, connects>>

\* mqtt_client_publish with QoS 0, 1 or 2.
Publish(delivered) ==
    \E answer \in {NoAnswer, PUBACK_TYPE, PUBREC_TYPE} : Request(answer, delivered)

\* mqtt_client_subscribe
Subscribe(delivered) == Request(SUBACK_TYPE, delivered)

\* mqtt_client_unsubscribe
Unsubscribe(delivered) == Request(UNSUBACK_TYPE, delivered)

\* mqtt_client_disconnect when CONNACK did not come: no session to end, the socket
\* is closed and the client kept.
DisconnectWithoutSession ==
    /\ pc = "idle"
    /\ socketConnected /\ ~clientConnected
    /\ CloseConnection
    /\ UNCHANGED <<codec, timeVars, userVars, pc, polled, pingAnswered, garbled, dirty,
                   misread, boundVars>>

\* mqtt_client_disconnect of a session; the agent does not connect again.
DisconnectSession ==
    /\ pc = "idle"
    /\ clientConnected
    /\ pc' = "disconnected"
    /\ CloseConnection
    /\ UNCHANGED <<codec, timeVars, userVars, polled, pingAnswered, garbled, dirty,
                   misread, boundVars>>

-----------------------------------------------------------------------------
(***************************************************************************)
(* mqtt_client_dowork: reading                                             *)
(***************************************************************************)
DoworkBegin ==
    /\ pc = "idle"
    /\ socketConnected
    /\ pc' = "read"
    /\ UNCHANGED <<sessionVars, codec, timeVars, userVars, polled, brokerVars, wireVars,
                   pingAnswered, garbled, dirty, misread, boundVars>>

\* set_error_callback: the user is told, then the socket closed.
SetErrorCallback ==
    /\ isConnectionLost' = TRUE
    /\ CloseConnection
    /\ UNCHANGED isRecoverableError

\* onIoError
IoError ==
    /\ pc = "read"
    /\ SetErrorCallback
    /\ pc' = "idle"
    /\ polled' = TRUE
    /\ UNCHANGED <<codec, timeVars, pingAnswered, garbled, dirty, misread, boundVars>>

\* The next byte that has arrived, what the decoder makes of it, and what is left.
NextByte == BytesReceived(codec, Head(inbound))

ReadsByte ==
    /\ pc = "read"
    /\ arrived > 0
    /\ codec' = NextByte.codec

LeavesRest ==
    /\ inbound' = Tail(inbound)
    /\ arrived' = arrived - 1

\* A byte within a packet.
ReadByte ==
    /\ ReadsByte /\ LeavesRest
    /\ ~NextByte.failed /\ NextByte.packets = <<>>
    /\ UNCHANGED <<sessionVars, timeVars, userVars, pc, polled, brokerVars, expected,
                   pingAnswered, garbled, dirty, misread, boundVars>>

\* The decoder gives up.
ReadError ==
    /\ ReadsByte
    /\ NextByte.failed
    /\ SetErrorCallback
    /\ pc' = "idle"
    /\ polled' = TRUE
    /\ UNCHANGED <<timeVars, pingAnswered, garbled, dirty, misread, boundVars>>

\* recvCompleteCallback, what it does for every packet: packetRecvTimeMs is the
\* present.  The packet is compared with the one the broker sent.
PacketComplete(types) ==
    /\ ReadsByte
    /\ ~NextByte.failed /\ NextByte.packets # <<>>
    /\ NextByte.packets[1].type \in types
    /\ packetRecvTime' = 0
    /\ garbled' = (garbled \/ expected = <<>> \/ NextByte.packets[1] # Head(expected))

Packet == NextByte.packets[1]

Decoded == expected' = IF expected = <<>> THEN <<>> ELSE Tail(expected)

\* CONNACK with CONNECTION_ACCEPTED.
ReadConnAck ==
    /\ PacketComplete({CONNACK_TYPE})
    /\ LeavesRest /\ Decoded
    /\ Packet.body[2] = 0
    /\ clientConnected' = TRUE
    /\ isConnectionLost' = FALSE
    /\ isRecoverableError' = TRUE
    /\ UNCHANGED <<socketConnected, timeSincePing, sendAge, pc, polled, brokerVars,
                   pingAnswered, dirty, misread, boundVars>>

\* The user disconnects from within the callback.
ReadConnAckRefused ==
    /\ PacketComplete({CONNACK_TYPE})
    /\ Packet.body[2] # 0
    /\ CloseConnection
    /\ isConnectionLost' = TRUE
    /\ isRecoverableError' = IF Packet.body[2] \in {1, 4, 5} THEN FALSE ELSE isRecoverableError
    /\ pc' = "idle"
    /\ polled' = TRUE
    /\ UNCHANGED <<timeSincePing, sendAge, pingAnswered, dirty, misread, boundVars>>

\* A bug ReadPingResp could have: the ping is not taken for answered.
ReadPingRespForgotten ==
    /\ PacketComplete({PINGRESP_TYPE})
    /\ LeavesRest /\ Decoded
    /\ UNCHANGED <<sessionVars, timeSincePing, sendAge, userVars, pc, polled, brokerVars,
                   pingAnswered, dirty, misread, boundVars>>

ReadPingResp ==
    /\ PacketComplete({PINGRESP_TYPE})
    /\ LeavesRest /\ Decoded
    /\ timeSincePing' = NoPing
    /\ pingAnswered' = NoPing
    /\ UNCHANGED <<sessionVars, sendAge, userVars, pc, polled, brokerVars, dirty,
                   misread, boundVars>>

\* fnMessageRecv is called, and PUBACK or PUBREC sent unless QoS is 0.
ReadPublish ==
    LET message == ReadMessage(Packet)
        meant == {kind \in Kinds : PublishPacket(kind) = Packet}
    IN  /\ PacketComplete({PUBLISH_TYPE})
        /\ HasTopic(Packet)
        /\ LeavesRest /\ Decoded
        /\ misread' = misread \cup
              {kind \in meant : message # [qos |-> kind.qos, payload |-> Payload]}
        /\ IF message.qos # 0 THEN Sent ELSE UNCHANGED sendAge
        /\ UNCHANGED <<sessionVars, timeSincePing, userVars, pc, polled, brokerVars,
                       pingAnswered, dirty, boundVars>>

\* The topic is empty, or there is no memory for it or for the message.
ReadPublishFails ==
    /\ PacketComplete({PUBLISH_TYPE})
    /\ SetErrorCallback
    /\ pc' = "idle"
    /\ polled' = TRUE
    /\ UNCHANGED <<timeSincePing, sendAge, pingAnswered, dirty, misread, boundVars>>

\* PUBREL for a PUBREC, PUBCOMP for a PUBREL.
ReadRelease(delivered) ==
    /\ PacketComplete({PUBREC_TYPE, PUBREL_TYPE})
    /\ LeavesRest /\ Decoded
    /\ Sent
    /\ owed' = IF delivered /\ Packet.type = PUBREC_TYPE THEN PUBCOMP_TYPE ELSE owed
    /\ UNCHANGED <<sessionVars, timeSincePing, userVars, pc, polled, broker, pinged,
                   pingAnswered, dirty, misread, boundVars>>

\* PUBACK, PUBCOMP, SUBACK and UNSUBACK are handed to the user; so is nothing that
\* comes out of a decoder that has lost its place.
ReadAnswer ==
    /\ PacketComplete(0 .. 255 \ {CONNACK_TYPE, PINGRESP_TYPE, PUBLISH_TYPE,
                                 PUBREC_TYPE, PUBREL_TYPE})
    /\ LeavesRest /\ Decoded
    /\ UNCHANGED <<sessionVars, timeSincePing, sendAge, userVars, pc, polled, brokerVars,
                   pingAnswered, dirty, misread, boundVars>>

\* xio_dowork returns when nothing more has arrived.
ReadDone ==
    /\ pc = "read"
    /\ arrived = 0
    /\ pc' = "ping"
    /\ UNCHANGED <<sessionVars, codec, timeVars, userVars, polled, brokerVars, wireVars,
                   pingAnswered, garbled, dirty, misread, boundVars>>

-----------------------------------------------------------------------------
(***************************************************************************)
(* mqtt_client_dowork: keep-alive                                          *)
(***************************************************************************)
DoworkEnd ==
    /\ pc' = "idle"
    /\ polled' = TRUE

\* A bug the test could have: a second too much is allowed.
PingUnansweredLate == timeSincePing # NoPing /\ timeSincePing > maxPingRespTime + 1

PingUnanswered == timeSincePing # NoPing /\ timeSincePing > maxPingRespTime

\* A bug the test could have: the interval is missed by one.
PingDueOffByOne == packetRecvTime > keepAliveInterval /\ timeSincePing = NoPing

PingDue == packetRecvTime >= keepAliveInterval /\ timeSincePing = NoPing

\* MQTT_CLIENT_NO_PING_RESPONSE.  packetRecvTimeMs becomes 0, the client's birth.
NoPingResponse ==
    /\ pc = "ping"
    /\ clientConnected
    /\ PingUnanswered
    /\ SetErrorCallback
    /\ timeSincePing' = NoPing
    /\ packetRecvTime' = AgeBound
    /\ DoworkEnd
    /\ UNCHANGED <<codec, sendAge, pingAnswered, garbled, dirty, misread, boundVars>>

\* PINGREQ; whether it could be sent is not looked at.
SendPing(delivered) ==
    /\ pc = "ping"
    /\ clientConnected
    /\ ~PingUnanswered /\ PingDue
    /\ timeSincePing' = 0
    /\ pingAnswered' = NoPing
    /\ pinged' = delivered
    /\ Sent
    /\ DoworkEnd
    /\ UNCHANGED <<sessionVars, codec, packetRecvTime, userVars, broker, owed, wireVars,
                   garbled, dirty, misread, boundVars>>

NoPingNeeded ==
    /\ pc = "ping"
    /\ clientConnected => ~PingUnanswered /\ ~PingDue
    /\ DoworkEnd
    /\ UNCHANGED <<sessionVars, codec, timeVars, userVars, brokerVars, wireVars,
                   pingAnswered, garbled, dirty, misread, boundVars>>

-----------------------------------------------------------------------------
(***************************************************************************)
(* The broker, the network and the clock                                   *)
(***************************************************************************)
BrokerSends(packet) ==
    /\ Len(expected) < BoundedLength
    /\ expected' = Append(expected, packet)
    /\ inbound' = inbound \o Transmitted(packet)
    /\ UNCHANGED <<sessionVars, codec, timeVars, userVars, pc, polled, arrived,
                   pingAnswered, garbled, dirty, misread, connects>>

BrokerAccepts ==
    /\ broker = "connecting"
    /\ broker' = "session"
    /\ BrokerSends(ConnAck(0))
    /\ UNCHANGED <<pinged, owed, messages>>

BrokerRefuses(code) ==
    /\ broker = "connecting"
    /\ broker' = "none"
    /\ BrokerSends(ConnAck(code))
    /\ UNCHANGED <<pinged, owed, messages>>

BrokerPublishes(packet) ==
    /\ broker = "session"
    /\ messages < MaxMessages
    /\ messages' = messages + 1
    /\ BrokerSends(packet)
    /\ UNCHANGED brokerVars

BrokerAnswersPing ==
    /\ broker = "session"
    /\ pinged /\ pinged' = FALSE
    /\ BrokerSends(PingResp)
    /\ UNCHANGED <<broker, owed, messages>>

BrokerAnswers ==
    /\ owed # NoAnswer /\ owed' = NoAnswer
    /\ BrokerSends(Answer(owed))
    /\ UNCHANGED <<broker, pinged, messages>>

\* Up to k more bytes are at the socket.  The age of an answered ping is noted when
\* everything the broker sent is there.
Arrive(k) ==
    /\ k > arrived /\ k <= Len(inbound)
    /\ arrived' = k
    /\ pingAnswered' = IF k = Len(inbound) /\ PingResp \in {expected[i] : i \in DOMAIN expected}
                       THEN timeSincePing ELSE pingAnswered
    /\ UNCHANGED <<sessionVars, codec, timeVars, userVars, pc, polled, brokerVars,
                   inbound, expected, garbled, dirty, misread, boundVars>>

\* A second passes, in which dowork has been called.
Tick ==
    /\ pc = "idle"
    /\ socketConnected => polled
    /\ polled' = FALSE
    /\ timeSincePing' = IF timeSincePing = NoPing THEN NoPing ELSE Older(timeSincePing)
    /\ packetRecvTime' = Older(packetRecvTime)
    /\ sendAge' = Older(sendAge)
    /\ UNCHANGED <<sessionVars, codec, userVars, pc, brokerVars, wireVars,
                   pingAnswered, garbled, dirty, misread, boundVars>>

-----------------------------------------------------------------------------
Init ==
    /\ socketConnected = FALSE /\ clientConnected = FALSE
    /\ codec = NewCodec
    /\ timeSincePing = NoPing
    /\ packetRecvTime = 0
    /\ isConnectionLost = FALSE /\ isRecoverableError = TRUE
    /\ pc = "idle"
    /\ polled = FALSE
    /\ broker = "none" /\ pinged = FALSE /\ owed = NoAnswer
    /\ inbound = <<>> /\ arrived = 0 /\ expected = <<>>
    /\ sendAge = 0
    /\ pingAnswered = NoPing
    /\ garbled = FALSE /\ dirty = FALSE /\ misread = {}
    /\ connects = 0 /\ messages = 0

Calls ==
    \/ ConnectFails \/ DisconnectWithoutSession \/ DisconnectSession
    \/ \E delivered \in BOOLEAN : 
          \/ Connect(delivered)
          \/ Publish(delivered) \/ Subscribe(delivered) \/ Unsubscribe(delivered)

Dowork ==
    \/ DoworkBegin \/ ReadByte \/ ReadError \/ ReadConnAck \/ ReadConnAckRefused
    \/ ReadPingResp \/ ReadAnswer \/ ReadDone \/ IoError
    \/ NoPingResponse \/ NoPingNeeded
    \/ ReadPublish \/ ReadPublishFails
    \/ \E delivered \in BOOLEAN : ReadRelease(delivered) \/ SendPing(delivered)

Environment ==
    \/ BrokerAccepts \/ BrokerAnswersPing \/ BrokerAnswers \/ Tick
    \/ \E code \in {3, 4} : BrokerRefuses(code)
    \/ \E kind \in Kinds : BrokerPublishes(PublishPacket(kind))
    \/ BrokerPublishes(LargePacket)
    \/ \E k \in DOMAIN inbound : Arrive(k)

Terminated == pc = "disconnected" /\ UNCHANGED vars

Next == Calls \/ Dowork \/ Environment \/ Terminated

Spec == Init /\ [][Next]_vars

-----------------------------------------------------------------------------
\* The client's fields have the types of their C counterparts, and the decoder
\* never holds more than it has asked for.
TypeOK ==
    /\ {socketConnected, clientConnected, isConnectionLost, isRecoverableError} \subseteq BOOLEAN
    /\ timeSincePing \in NoPing .. AgeBound
    /\ packetRecvTime \in 0 .. AgeBound /\ sendAge \in 0 .. AgeBound
    /\ codec.currPacket \in 0 .. UNKNOWN_TYPE
    /\ Len(codec.storeRemainLen) <= 4
    /\ Len(codec.headerData) <= codec.totalLen
    /\ arrived \in 0 .. Len(inbound)
    /\ pc \in {"idle", "read", "ping", "disconnected"}

\* However the bytes arrive and whatever connections went before, the packets acted
\* upon are the packets the broker sent on this connection, in order, unless a client
\* was connected again with half a packet in its decoder: then bytes of two
\* connections are mixed.
DecodedAsSent == garbled => dirty

\* A message is passed on with the quality of service and the payload it was
\* published with, except for a retained one of QoS 0, which is taken for QoS 2 and
\* loses two bytes of its payload.
PublishUnderstood == misread \subseteq {[qos |-> 0, retain |-> 1]}

\* A session whose peer has fallen silent is ended within the keep-alive interval and
\* the time allowed for a ping, whatever was in the way.
DeadPeerNoticed == clientConnected => packetRecvTime <= NoticedAfter

\* A peer whose PINGRESP was at the socket in time is never dropped for want of one,
\* unless the decoder may have lost its place: then it may swallow the PINGRESP.
AnsweredPingKeepsSession ==
    [][NoPingResponse /\ ~dirty
           => ~(pingAnswered # NoPing /\ pingAnswered <= maxPingRespTime)]_vars

\* A client that has sent nothing for longer than the keep-alive interval has heard
\* from the broker within it: the interval is measured from the last packet received,
\* not from the last one sent.
SilentOnlyWhileReceiving ==
    clientConnected /\ sendAge > keepAliveInterval + 1 => packetRecvTime <= keepAliveInterval

=============================================================================
